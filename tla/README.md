# PgFleet in TLA+

PgFleet is a control plane for a fleet of PostgreSQL servers that run as Docker
containers. This directory holds TLA+ models of its control plane, TLC
configurations that check them on small instances, and proofs checked by TLAPS
for every instance. Paths below are relative to the repository (`src/`).

## The system

| part | state it keeps | what changes it | runs as |
|---|---|---|---|
| instance operations (`internal/provision`) | the instance's row, containers, volumes, one operation mutex per instance | Provision, Start, Stop, Restart, Destroy, Restore, SetVisibility, Clone, Drill | a goroutine per API request (`api.Async` or the request's own) |
| reconciler (`internal/reconcile`) | none; snapshots of rows and containers during a pass | adopts containers, corrects statuses | a scheduled job, and once at start-up |
| failover controller (`internal/failover`) | a strike counter per cluster | fences, promotes, re-clones replicas, repoints the router | a scheduled job |
| cluster control (`internal/clusterctl`, `internal/cluster`) | cluster rows, router container | Create, Provision, Destroy | a goroutine per request |
| backups (`internal/backup`) | catalogue rows, pgBackRest repository, a lock per instance | Run, Delete, Sync, Expire, Verify, RunScheduled | requests and a scheduled job |
| scheduler (`internal/scheduler`) | job list, cancel function, wait group | Register, Start, Stop, ticks | a goroutine per job |
| background work (`internal/api/async.go`) | closed flag, wait group | Go, Wait | requests, shutdown |
| alerts and health (`internal/alerts`, `internal/health`) | open alerts, rules, last health report | evaluation, notification | scheduled jobs |
| remote and meta backups (`internal/remotebackup`, `internal/metabackup`, `internal/objectstore`) | object store, catalogue rows | Capture, Restore, Prune | requests and a scheduled job |
| users (`internal/api/users.go`, `internal/user`, `internal/bootstrap`) | user rows, tokens | create, disable, enable, login, single sign-on, bootstrap | requests |
| live feed (`internal/ws`, `internal/events`) | subscriber channels, event rows | Subscribe, Publish, Record | requests and every operation |

Everything meets in two places: the rows of the meta database, which every part
reads and writes without transactions across calls, and Docker, which every part
calls without knowing what the others are doing. Only Restore and SetVisibility
share a mutex. That makes the hard behaviours: snapshots that are stale when they
are used, calls that fail one at a time, a process that dies between two calls,
containers that stop and are restarted by Docker, and writes whose error is
dropped (`_ = repo.Set...`). `PROJECT.json` lists them as hazards, each at its
line, with the properties that would catch it.

## Modules

| module | models |
|---|---|
| `Failover` | one cluster: controller, the provisioner calls it makes, rows, members |
| `WriterLease` | what a cluster promises: one holder of the right to write at a time |
| `FailoverProofs` | its inductive invariants, their preservation action by action, the theorems |
| `InstanceOps` | one standalone instance: all its operations, reconciler, Docker |
| `InstanceProofs` | its types, its data, and one server by name, for any overlap of handlers |
| `InstanceSerialProofs` | what exists at every label of a handler that runs alone, and what follows |
| `BackupCatalog` | the backups of one instance: service, scheduled job, pgBackRest repository, catalogue |
| `BackupProofs` | its inductive invariant and theorems |
| `Shutdown` | the process: scheduler, requests, background work, and how `run()` ends them |
| `Access` | roles, actions, and the route table with the action each route asks for |
| `Accounts` | users, tokens, logins, single sign-on, the account endpoints |
| `ClusterCtl` | one cluster from create through provision to destroy |
| `Objects` | the object store with remote dumps, their catalogue, and dumps of the meta database |
| `Copies` | a clone of an instance, and the command line's offline restore |
| `FleetProofs` | inductive invariants and theorems of `Objects`, `Copies`, `ClusterCtl` |
| `LiveFeed` | the progress hub and its WebSocket clients |
| `ProcessProofs` | inductive invariants and theorems of `Shutdown` and `LiveFeed` |
| `Alerting` | samples, rules, evaluation, alert rows and the webhook of one instance |
| `Health` | the health report and the restore drill of one instance |
| `MCFailover`, `MCInstanceOps`, `MCBackup`, `MCShutdown`, `MCCopies` | instances for TLC: constraints and symmetry |
| `MCServices` | `Accounts`, `ClusterCtl`, `Objects`, `Copies` for TLC, in one run |
| `ServicesProofs` | inductive invariants and theorems of `Accounts`, and the types of that sum |
| `MCControl` | `LiveFeed`, `Alerting`, `Health` for TLC, in one run |
| `ControlProofs` | inductive invariants and theorems of `Alerting` and `Health`, and the types of that sum |

### Failover

One cluster of `N` members, numbered in the order `ListByCluster` returns them.
`Controller.Run` is the actions `RunReachable`, `RunStrike`, `RunFailover`;
`Controller.failover` is a program counter `pc` that goes through `quorum`,
`elect`, `fence`, `forget`, `promote`, `demote`, `setRole`, `setPrimary`, the
loop `reattach`/`clone`/`start`, `removeRouter`, `startRouter`, `finish`: one
step per call to Docker, to a member or to the database. Each call that can fail
has its failing outcome, and each write whose error the code drops may be lost
(`Written`). Members stop, restart, lose their container, finish promotions,
take writes and stream WAL between any two steps. A write-ahead-log position is
a small number; a data directory is the pair of a position and "is it a
standby". `pg_promote(wait := true)` that times out still exits with success, so
a promotion may be under way (`promoting`) when the controller goes on.

`unrecorded` is a history variable: a promotion took place that neither the new
primary's role nor an `error` cluster status records (a crash between the
promotion and `SetRole`, a failed `SetRole`, a lost `error` status). Past that
point the controller acts on a wrong picture; the code's comment at
`failover.go:236-240` says so too, and `NoSplitBrain` claims nothing more.

### InstanceOps

One standalone instance, from the row that `InstancesHandler.Create` inserts.
`Procs` goroutines each run an operation with a program counter and the locals
the Go function keeps (the row its `Get` returned, the container and the volume
it made). Step schemas (`Writes`, `Gets`, `Creates`, `Starts`, `Stops`,
`Removes`, `RemovesVolume`, `Execs`) say how a call of each kind behaves: Docker
refuses a name in use, refuses to remove a mounted volume, creates a volume that
a container mounts and that is not there, and an update of a deleted row is an
error. The reconciler lists rows, lists containers, and then acts on what it
listed, one call per step.

Left out of it: the repository volume is no variable (its removal fails while
any container exists); the one-shot restore container is one step and succeeds
only for an instance that was once verified, which stands for "there is a
backup"; replicas and cluster members, which Restore, SetVisibility and Destroy
refuse; port numbers, passwords, labels. `SetDataVolume` in Provision records
the default name, which an empty column means anyway.

### BackupCatalog

`repo` is the sequence of backup sets pgBackRest holds and `catalog` the labels
that have a row. `RunWith`, `Delete`, `Expire` and `Verify` share a shape: `Get`
the row, take the instance's mutex (`Lock`), run the command (`ExecStart`, then
`CommandSucceeds`, `CommandFails` or `ReplyLost`), and, except for `Verify`,
sync: `SyncInfo`, one `SyncUpsert` per set, `SyncPrune`. `RunScheduled` is a run
and, if it succeeded, an expire. A command is a state of its own (`command`)
because it outlives the control plane that started it (`Crash`), while the mutex
does not; pgBackRest's own lock on the stanza is what then keeps others out. An
operation works on the container id it read before it waited for the mutex
(`cid`), which a restore or flip may have replaced meanwhile (`InstanceDown`,
`InstanceBack`).

pgBackRest is external and modelled from its use: a backup is followed by an
expire to `RetentionFull` full sets, `expire --set` takes the sets built on the
set along and refuses to remove the last full one, `info` tells the truth or,
when the repository cannot be read, lists no sets. Left out: a second repository
(`Repo2Path`), with which an unhealthy stanza may list a part of the sets and be
believed; event rows; `Sync`, which nothing calls; replicas, which every
operation refuses.

### Shutdown

`main` is where `run()` is: `starting` (`Scheduler.Start`), `serving`
(`api.Serve`), `shutting` (`srv.Shutdown`), `drain` and `draining`
(`Async.Wait`), then the deferred `Scheduler.Stop` (`stop`, `stopping`),
`pool.Close` and the exit. Each job has a loop and a tick channel of one place;
each request is a `POST /instances` that inserts a row in `provisioning` and
hands the work that ends this status to `Async.Go`. The server's and the drain's
timeout may pass at any time; `cut` records that one did, or that the listener
broke. A panic in a job or in background work is recovered. Timers are not
modelled otherwise, and neither is a second caller of `Start` or `Stop`: `run()`
calls each once.

### Access and Accounts

`Access` is `rbac.go` and the table `NewRouter` builds, as a set of
`<<verb, path, action>>`. In `Accounts` an address is whose it is and how it is
written (plain, in capitals, with spaces), so that `NormalizeEmail` and the
`lower()` of the unique index do what they do, and `users` is the sequence of rows of
the table: nothing but the index (`Insert`) keeps a second row for a person out. A
request that reads the table and
acts on it later takes two steps: `Exchange` and `provision`, `guardDisable` and
`SetDisabled`, login and the issue of its token. A token is a record with the role
it was issued for; nothing revokes it, `Tick` ages it. Left out: hashes and
signatures, wrong passwords, the proxy's shared secret, listings, audit rows.
`crossed` is a history variable: a disable was carried out although another one
had changed the list it was decided on. `guardDisable` does not lock that list, so
two administrators who disable each other at the same time can leave none;
`AdminRemains` claims the rest.

### ClusterCtl

The rows of a cluster and its members, their containers and volumes, replication
slots and the router. `Create` inserts rows one by one and rolls back; `Provision`
takes each member through volume, container, readiness and status, then makes the
router and records it; `Destroy` marks the row, removes router, replicas and
primary and deletes the row, and may be tried again after a failure. Every call may
fail up to `MaxFailures` times, the calls of a deferred cleanup included: the
cleanup of a member is `UndoContainer`, `UndoVolume`, `UndoSlot` and `ProvMark`, that
of a router `RemoveRouter`. `lost` records the failures whose error the code drops
and that leave something nothing names: `rows` (the rollback of a create, also when
the client's disconnect cancels it), `container` (one of a failed member), `router`
(a router that could not be recorded or removed), `slot` (a slot whose removal failed,
or that was made by a `preparePrimary` that then failed, before the cleanup is
deferred), `status`, `mark`. A volume that such a failure leaves is found by the
destroy, which goes by the member's id. `overlap`
records that a destroy ran beside the provision, which the code does not prevent.
PostgreSQL refuses to drop a slot in use, and `Destroy` drops a replica's slot
before it stops the replica (`SlotsWithout`). A member's destruction is one step
here and one per call in `InstanceOps`; crashes in cluster operations are not
modelled.

### Objects

`objects` maps keys to contents: a remote dump is the state of the remote database
when it was taken, a meta dump is the catalogue. Keys are a prefix, a second and a
random suffix; two captures in one second differ by the suffix alone. Capture dumps, puts
and saves; a restore into a new target waits until it is ready, loads and, if
either fails or times out, marks it (`MarkError`, which has a context of its own).
The meta-backup job dumps, puts and prunes; a `Keep` of zero or less, with which
`Prune` returns at once, is left out. The process may stop between any two
steps; a meta-restore happens while it is down.

### Copies

A clone is a task that takes a backup of the source, checks that there is one,
restores it into a new volume, starts a container, resets the password and makes a
stanza, with the deferred cleanup when a step fails (`RemoveClone`, `RemoveData`,
`RemoveRepo`). These calls may fail as well and the code drops their errors;
`task.kept` records which did. Content is a number
that the source's clients raise, so that "older than" is meaningful. `Cli*` is
`pgfleet restore`: create the volume, run the one-shot container, say so. What the
container leaves (`CliRestored`) is promoted at the target, or, because the script
stops the server as soon as it accepts connections, still in recovery somewhere
between the backup and the target.

### LiveFeed, Alerting, Health

`LiveFeed`: `Publish` takes the hub's mutex, offers the event to each subscriber
in turn and drops it where the buffer is full; a handler forwards events, notices
that its client left, cancels and closes, one step each.

`Alerting`: the collector stores what an instance reports, retention removes it,
rules are made, changed and deleted, and an evaluation goes through reports, rules,
latest samples, the `Sync` transaction and the webhook, one step each, with
crashes, a webhook that refuses, and a commit that took effect although it was
reported as failed, after which nobody is told (`lost`). `told` is what a receiver of the webhook
believes to be firing. A kind's readings are a value on each side of every
threshold in use.

`Health`: `Check` over archiving, backup ages and the size of `pg_wal`, whose probe
may fail or answer nonsense, read as zero, and the report row; beside it the drill,
which writes two columns of the same row. The drill's deferred removals of its
container and its volume may fail. `littered` records that the volume that is there
was left by such a failure or by a crash, and `stray` that a container was left that
mounts it.

### The sums

The parts in `MCServices` and in `MCControl` share no variable. A behaviour of the
sum follows one part, which `focus` names in the first state, and leaves the others
where they start, so a run checks each part exactly as a run of its own would.
The sums extend their parts, whose `Init`, `Next`, `Spec` and `TypeOK` therefore
carry the part's name (`FeedInit`, `ClustersSpec`).

## Runs

Deadlock is checked in `backups`, whose scheduled job never stops. The other
models end when requests and outages are used up, or the process has exited, as
the system may.

| run | shows |
|---|---|
| `failover_safety` | `NoSplitBrain`, `ForgottenNeverWrites`, `FenceBeforePromote`, `RunningIsEarned`, `PromotedCopySurvives` with all faults, crashes, lost containers and two outages; three members. States past an unrecorded promotion are not explored further (`WhileRecorded`); the proofs do go beyond it |
| `failover_live` | with the database and the process up, `FailsOver`: a serving primary again and again; and `Failover` implements `WriterLease` |
| `instance_data` | `DataKept`: two requests at the same time, Docker failing, crashes |
| `instance_serial` | `NothingLeftBehind`, `RollbackRevives`, `OneServerPerVolume` for up to four requests of every kind one after the other, no pass of the reconciler beside them (`PassesApart`) |
| `instance_flips` | `OneServerPerVolume` for concurrent requests without restores, all faults |
| `instance_live` | `TransitionsEnd` and `StatusConverges` for two overlapping requests out of start, destroy and restore, beside or after the provision, without crashes and refused calls: transitional statuses are left again and again, and the reconciler wins in the end |
| `backups` | `SyncExact`: a success means an exact catalogue; `NeverHides`: no row of a restorable backup is dropped; `CatalogConverges`: the scheduled job repairs what a fault, a crash or a replaced container left |
| `shutdown` | `JobsEndFirst`, `CleanExit`, `Terminates`, `JobsKeepRunning` for every point at which the signal can come or a wait can time out |
| `services` | accounts: `OneAccountPerPerson`, `PrivilegeTiers`, `AdminRemains`; clusters: `ShownIsComplete`, `NothingOrphaned`; dumps: `RestoreHoldsTheDump`, `PruneIsExact`; copies: `CopiesAreWhole` |
| `control` | stream: `StreamIsSound`, `StreamServes`; alerts: `NoticesFollow`, `AlertsSettle`; health: `HealthIsTrue` |

Some of these are conjunctions; each conjunct has a definition, a comment and,
in `PROJECT.json`, a mutant that breaks it:

| property | says |
|---|---|
| `ShownIsComplete` | a cluster shown as running has all its members and its router (`RunningIsComplete`); a connection string is handed out only for a router that serves them all (`ConnectionServes`) |
| `NothingOrphaned` | a create that fails leaves no row (`CreateAllOrNothing`); a provision that ended leaves no container, slot or router that nothing accounts for (`ProvisionAccounts`), a finished destroy nothing at all (`DestroyLeavesNothing`), but for what `lost` and `overlap` record |
| `RestoreHoldsTheDump` | a catalogue row leads to the dump it was made for (`RowsFetchTheirDump`); a target whose load failed or timed out is marked (`FailedLoadIsMarked`) |
| `PruneIsExact` | only meta dumps are deleted, none of the newest `Keep`; a prune that ends without an error has deleted all others |
| `CopiesAreWhole` | a running clone has its own password and stanza (`CloneIsIndependent`) and content no older than the request (`CloneIsRecent`); a failed one leaves only what the very call that removes it failed on, or what such a container mounts (`FailedCloneCleansUp`); `pgfleet restore` reports success only of a volume it filled itself, not past the target (`CliSaysWhatItDid`) |
| `StreamIsSound` | no publisher is about to send on a closed channel (`NeverSendsOnClosed`); clients see events in one order (`SameOrder`) |
| `StreamServes` | `Publish` returns whatever clients do (`PublishReturns`); clients that left are dropped (`LeaversAreDropped`) |
| `NoticesFollow` | a webhook's receiver agrees with the database unless a notice was lost (`NoticesInStep`), and is told nothing twice (`NoticesAreNews`) |
| `HealthIsTrue` | the report settles on the instance's state (`ReportSettles`); a drill fails only if its backup does not restore or an earlier one's files could not be removed (`NoFalseAlarm`); its volume goes in the end unless a container that was left mounts it (`DrillVolumeGoes`). It does not say that a verdict stays on the page: see `MCHealthVerdict.cfg` below |

Runs that disagree with what the repository says of itself; each is a finding
with its quotation in `PROJECT.json`:

| run | disagreement |
|---|---|
| `instance_two_servers` | a reconciler pass overlapping a restore leads to two servers on one volume |
| `cli_restore` | `pgfleet restore` says "restore complete" of a volume that is not promoted, or not at its target (`cmd/pgfleet/restore.go:276`) |

Four more configurations show a behaviour of the code that a comment or a document
says it does not have; TLC finds their property violated. They are kept for whoever
changes that code and are not among the listed runs:

| configuration | shows |
|---|---|
| `MCFailoverMetadata.cfg` (module `MCFailover`) | the `degraded` mark of an unrecorded promotion is overwritten in the same pass (`failover.go:305`; the comment at 239 says "surface it loudly and mark the cluster degraded") |
| `MCInstanceOrphan.cfg` (module `MCInstanceOps`) | a destroy overlapping a provision or restore leaves containers or volumes behind (`lifecycle.go:67`) |
| `MCInstanceCrash.cfg` (module `MCInstanceOps`) | after a crash a transitional status stays for ever (`reconcile.go:75`; `README.md:12` promises "a crash-safe control plane that reconciles on restart") |
| `MCHealthVerdict.cfg` (module `MCControl`) | a health check wipes the outcome of the last drill from the report (`VerdictStays`; `health/store.go:33`, although `docs/production-hardening.md:34-36` says "the Reliability page shows the pass/fail per instance" and `main.go:331-332` reads as if it stayed) |

`MCInstanceEnds.cfg` (module `MCInstanceOps`) passes: `TransitionsEnd` for requests
one after the other, visibility included, with Docker refusing any call. It is apart from `instance_live`
because `StatusConverges` needs a Docker that answers in the end.

Other limits the models show, which no run is kept for: a primary whose
container was removed is never replaced, because `Fence` fails on it
(`failover_support.go:65`); the elected replica may be overtaken before it is
promoted (`failover.go:212` and 225); a flip whose recovery fails too leaves a
stopped instance without a container (`visibility.go:139`); a binding changed
while stopped does not take effect on the next start, which reuses the container
(`visibility.go:67`); one lost `SetDataVolume` leaves the row on a volume that
restore then removes (`restore.go:161`); the drain waits for one minute and a
provision may take twenty, so a slow one outlives it and its instance stays in
`provisioning` (`main.go:308`; `CleanExit` is stated for shutdowns that did not
time out); the files that a crashed drill or a failed removal left make the next
drill fail (`drill.go:40`); cleanups drop the errors of their calls, so what a failed
clone, replica or router leaves when its removal fails too stays in Docker
(`clone.go:105`, `replica.go:60`, `router.go:90`); a clone works on the source row it read first, so
a source replaced meanwhile makes its preflight fail; the promotion wait of a
restore gives up after 600 s; the mark of a clone whose backup failed is written
with the task's own context (`instances.go:243`); `pgfleet restore` cannot read an
encrypted repository, for `buildConf` names no cipher, and a volume that a failed
attempt made stands in the way of the next; a cluster's `error` status is written
with a context that may be the expired one (`clusterctl/service.go:137-146`);
`exec` is called "gated STRICTER" than other routes (`router.go:208`), while the
same roles may do either. `failover_live` therefore has no lost containers and `instance_data`
no lost writes.

### Bounds

Three members are the smallest cluster with a replica to re-clone and a quorum
that is a real majority. Two outages let
the primary die and a second member die in the middle of the failover. WAL
positions up to 2 or 3 tell an election apart. A threshold of 1 in the safety
run starts failovers as early as possible; the liveness run uses 2.
Two goroutines are enough for any race of two operations, the reconciler being a
third actor; two requests after the provision, and four in the serial run, let
each operation meet the leftovers of any other. `Containers` and `Volumes` are
as many as that number of requests can create.

In `backups` the scheduled job runs without a bound beside up to two requests; a
fault and an outage are enough for a command that outlives its caller and a sync
that fails after it. A retention of one full set makes every full backup expire
something. Six labels are enough for these bounds: no backup fails for want of
one. In `shutdown`, two requests can be on both sides of the drain and two jobs
on both sides of the stop.

`services`: two requests at a time and two people are enough for one request to
change what another has read, and a token that lasts two ticks outlives a
disable. Two replicas make a member in the middle; three failures, for clusters and for
copies, let a failing step meet two failing calls of its cleanup. Two captures and one tick give keys that differ in the second
and keys that do not; `Keep` is one so that every second meta dump prunes. Three
states of the source tell a backup before the request, after it, and later writes
apart. `control`: two publishers and two clients with a buffer of one fill it and
could disagree on an order; two rules are enough for a specific and a general one
in either order; three changes of the world let a condition come, go and come
back; the two kinds of alert are one that is sampled and one that comes from the
health report. Every bound is a
constant of its module, with a comment.

### Fairness

`WF(Controller)` and `WF(Reconcile)`: both are jobs of the scheduler, ticked for
as long as the process lives (`cmd/pgfleet-api/main.go`), and every call they
make has a timeout or returns. `WF(Handler(p))`: a goroutine that can go on
does; a mutex that is held by a handler that ends is released.
`WF(PromotionCompletes)`: Postgres finishes a promotion unless it stops.
`instance_live` uses `LiveSpec`, where the first idle handler takes the next
request in place of a symmetry, which liveness does not allow, and which assumes no
more than that some handler that can go on does and that the reconciler's job is
ticked (`LiveFairness`). `TransitionsEnd` is
claimed for a control plane that lives and a meta database that takes its writes.
`WF(DockerRestarts)`: the restart policy `unless-stopped`. Nothing is assumed of
member restarts, clients or requests.

`backups`: goroutines and pgBackRest commands go on, the ticker ticks, and an
instance that was taken down comes back; a mutex may starve a waiter. `shutdown`:
`run()` and the loops go on, and `SF(LoopReturns(j))`, because `select` chooses
at random among ready cases and so cannot take the tick for ever. A job's run is
assumed to end. That is an assumption on what it calls: `Moby.Exec` reads the
output of a command without regard to the context, so a pgBackRest command that
never ends would hold up `Scheduler.Stop`, which has no timeout. Requests and
background work may hang for ever.

`control`: the jobs that collect, prune, check, drill and evaluate are ticked for
as long as the process lives; a goroutine of the hub that can go on does. Clients
owe nothing: they may stall or leave at any time. A handler waits for the hub's
mutex only as long as events come, whose number is bounded; in the program
`sync.Mutex` hands the lock to a waiter after a millisecond. Nothing is assumed of
`services`, which checks no liveness.

## Proofs

Eight modules hold the theorems. Each is about a component for every value of
its constants: any number of members, handlers, jobs, people or replicas, any
bound, any set of failures that the constants allow. What is assumed of the
constants is the `ASSUME` of the component's module, which gives them their
types; anything more is in the theorem's own `ASSUME` and is named below. Every
safety property that a run checks has its theorem, with the exceptions in "Only
model-checked".

The proofs share a layout. An invariant is defined; a lemma per action, or per
group of actions that disturb the same conjuncts, says that it is preserved; one
lemma collects them for `Next`; the theorems follow by `PTL`. The step schemas of
`InstanceOps` have lemmas of their own that say once what a call does to the
record of its handler and to Docker.

### Failover (`FailoverProofs`)

* `Invariance`: `Spec => []IInv`. `IInv` strengthens the safety properties with
  what each program point knows: who may be writable before, between and after
  fence and promotion, that the members of `todo` are other replicas, that a
  member the rows call replica is a standby unless its promotion is the one under
  way or is unrecorded, and that an empty `container_id` means nothing writable.
  `NoSplitBrain` is not inductive without these: a state with a writable
  "replica" row would let a failover promote next to it.
* `TypeCorrect`, `SplitBrainFree`, `ForgottenSafe`, `FencedFirst`: the type
  invariant and three safety properties, from `IInv`.
* `CopySurvives`: `PromotedCopySurvives`. `DataInv` adds that what a member has
  replayed is in its write-ahead log, so that a member that can be elected has
  data.
* `RunningEarned`: `RunningIsEarned`. `EarnedInv` is the loop invariant of the
  re-cloning: while nothing went wrong, the replicas that have left `todo` are
  recorded as running.
* `LeaseRefinement`: with `~DBFaults` and `~Crashes`, `Spec` implies
  `ImplementsWriterLease`: every step leaves `Writers` alone, revokes one holder
  or grants the free lease. With either, a promotion may go unrecorded, and the
  lease is then not kept.
* `QuorumSound`: the number of replicas `failover()` asks for is never more than
  there are, and with more than one replica it is a strict majority of all
  members, the dead primary counted as absent.

### Instances (`InstanceProofs`, `InstanceSerialProofs`)

* `TypeCorrect`: `TypeOK`, with no further assumption. `Typed` adds the labels
  each handler can be at. A handler that reached a label of another operation
  could release a mutex it does not hold.
* `DataSafe`: `~DBFaults` implies `[]DataKept`, with Docker failing, crashes, and
  any number of handlers at a time. `DataInv` says what a restore knows at each
  label: until it has written the row, the volume its `Get` read is still the
  row's; its staging volume is not the row's; once filled, it holds data; and
  what it removes at the end is no longer the row's. The operation mutex is what
  makes this stable, since only a restore changes the column. A
  database fault does break `DataKept`: see `restore.go:161` above.
* `OneServerByName`: without restores `OneServerPerVolume` holds whatever fails
  and overlaps, as every container has the fixed name and Docker gives it to one
  (`AloneInv`).
* `NothingLeft`, `RollbackSound`, `OneServerSerially`: `NothingLeftBehind`,
  `RollbackRevives` and, now with restores, `OneServerPerVolume`. They assume
  `Serial`, that is one handler at a time and no failing call and no crash
  (Postgres may still die, so that handlers do fail), and `[]PassesApart`, that
  no pass of the reconciler overlaps a handler. This is the setting of the run
  `instance_serial`, for any number of requests. `SerialInv` is a proof outline:
  for every label of every handler, which containers and volumes exist.
  The assumptions cannot be dropped: `instance_two_servers` and
  `MCInstanceOrphan.cfg` violate the properties without them.

### Backups (`BackupProofs`)

* `Invariance`: the mutex is held exactly between `Lock` and the return; a
  command belongs to the goroutine that waits for it or to a dead one, and none
  runs while the holder of the mutex syncs; what `info` said is still the
  repository, and what was upserted is still in the catalogue. The third is the
  point: the mutex alone does not give it, as a crashed predecessor's command
  holds no mutex. It follows because a command of one's own could start only
  after that one had released the stanza.
* `SyncIsExact`, `NothingHidden`: `SyncExact` and `NeverHides`, from it.
* `TypeCorrect`: `TypeOK`. `Values` adds that whoever runs a backup, dead or
  alive, runs it with a backup type; an expiry keeps a subsequence.

### The process (`ProcessProofs`)

* `Invariance`: `TypeOK` of `Shutdown`, in which both wait groups count what has
  yet to call `Done`; what each place of `run()` knows of the jobs and of
  `closed`; and that a row in `provisioning` has its request before `Go`, its work
  running, a recorded panic, or a wait that was cut short.
* `TypeCorrect`, `JobsEnd`, `ExitIsClean`: `TypeOK`, `JobsEndFirst`, `CleanExit`.
* `StreamSound`: `StreamIsSound` of `LiveFeed`. For the channels (`FInv`): only
  the holder of the mutex has subscribers left to offer to, these are in the map,
  and what is in the map is open with a handler that has not cancelled. For the
  order (`OrderInv`): what a client saw and what is queued for it form one
  stream; any two streams agree, and the event being published is the last of
  each stream it has reached. What clients have seen is not inductive alone: a
  disagreement could sit in the queues.

### Alerts and health (`ControlProofs`)

* `NoticesKeepStep`: `NoticesFollow`. While a notice is pending (`NoticeInv`),
  what receivers believe and what they are about to be told add up to the
  database.
* `DrillsAreFair`: `NoFalseAlarm`, the safety part of `HealthIsTrue`, with any
  number of crashes and failed removals. Unless a crash or a failed removal left it
  (`littered`), the volume is empty while a drill waits for its restore and absent
  between drills (`HealthInv`).
* `ControlTyped`: `ControlTypeOK`.

### Clusters, dumps, copies (`FleetProofs`)

* `ClustersShown`, `ClustersAccounted`: `ShownIsComplete`, `NothingOrphaned`, for
  any number of replicas. `KInv` has two faces: `Building`, while nobody destroys
  the cluster, says which members are up at each step of `Provision` and that a
  slot belongs to a container or to the replica being made; `Wrecking`, while it
  is destroyed and nothing else is under way, that what still exists has a row.
  A container that no row names is the one under cleanup or one whose removal
  failed; this has to hold at each call of the cleanup, as any of them may fail.
* `DumpsSafe`: `RestoreHoldsTheDump`. `DInv` says that rows are good (they name an
  object with their dump) in the catalogue, in every stored meta dump and in the
  one being taken; the last two because a meta-restore brings them back.
* `PruneExact`: `PruneIsExact`. While a prune deletes, each key that is still
  doomed has `Keep` newer dumps, and those not doomed are at most `Keep`. That
  the doomed ones are a number of oldest ones is shown with a counting argument
  over finite sets.
* `CopiesWhole`: `CopiesAreWhole`, from what is so before each step of the clone
  task (`CloneKnows`) and, past each call of the cleanup, what is left for want of
  that call (`LeftServer`, `LeftFiles`, `LeftRepo`).
* `ClustersTyped`, `DumpsTyped`, `CopiesTyped`: the types, with no row of a member
  without its cluster's and no container of a clone without its volume.

### Accounts (`ServicesProofs`)

* `OneAccount`: `OneAccountPerPerson`. Every row that is stored or about to be
  inserted has a normalized address (`Unique`), and the index refuses a second row
  for an address. Each is needed: without the index two first logins that
  both found no account would insert two rows, and without normalization the rows of
  one person would not collide.
* `AdminStays`: `AdminRemains`. The invariant `AInv` says that a request that is
  about to disable someone, decided on a list that still holds, leaves somebody
  else active, and that, before two disables crossed, a table with rows has an
  active administrator. The second is needed for the first: a decision made of a
  list without an active administrator would spare nobody when one is enabled
  before it is carried out.
* `RolesAreFixed`, `TiersHold`: no request changes the role of an account, so a
  session's role is its account's (`Sessions`), and by the route table
  `PrivilegeTiers` holds.
* `ServicesTyped`: `ServicesTypeOK`.

### Only model-checked

* Liveness: `FailsOver`, `TransitionsEnd`, `StatusConverges`, `CatalogConverges`,
  `Terminates`, `JobsKeepRunning`, `StreamServes`, `AlertsSettle`, and of
  `HealthIsTrue` the conjuncts `ReportSettles` and `DrillVolumeGoes`. TLAPS does
  not reason about fairness and `ENABLED`.
* What no theorem covers has no run either: `NothingLeftBehind`,
  `RollbackRevives` and, with restores, `OneServerPerVolume` are not claimed when
  Docker or database calls fail, the process crashes, or handlers overlap.

## Not modelled

* SQL console, dump, exec and log endpoints, query insights, pool statistics and
  the TimescaleDB endpoints: each is one statement or one stream, with no state
  of the control plane. Their routes are in `Access`.
* Generators of text (pgBackRest, PgCat and compose configuration, PostgreSQL
  parameters), cryptography, configuration, logging, migrations.
* The load generator, the other commands of `pgfleet`, the web interface.
* Adoption of an existing data volume, and crashes in the middle of cluster
  operations. A failover that meets a cluster destroy is not composed: `Failover`
  starts from a complete cluster and `ClusterCtl` ends with one.

Every part of the repository, with its status, is in `PROJECT.json` (`components`).
