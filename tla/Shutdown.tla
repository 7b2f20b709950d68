------------------------------ MODULE Shutdown ------------------------------
(***************************************************************************)
(* The life of the control plane's process: main's run() from the start of  *)
(* the scheduler to the closed database pool, the scheduler's job loops     *)
(* (internal/scheduler), the HTTP requests (internal/api/server.go) and the *)
(* background work they hand to api.Async (internal/api/async.go).          *)
(*                                                                          *)
(* A request is POST /instances: it inserts a row in status "provisioning"  *)
(* and leaves the work that ends this status to Async.                      *)
(***************************************************************************)
EXTENDS Integers, FiniteSets

CONSTANTS
    Requests,  \* requests that may come, each once
    Jobs       \* registered jobs

ASSUME FiniteAssumption == IsFiniteSet(Requests) /\ IsFiniteSet(Jobs)

VARIABLES
    main,       \* where run() is
    signalled,  \* SIGTERM or SIGINT came: the root context is done
    stopped,    \* Scheduler.Stop called the scheduler's cancel function
    loop,       \* each job's goroutine: Scheduler.loop
    tick,       \* a tick waits in the job's channel, which holds one
    jobs,       \* the scheduler's wait group
    request,    \* where each request's handler is
    row,        \* status of the request's instance
    task,       \* the goroutine Async started for the request
    closed,     \* Async.closed
    wg,         \* Async's wait group
    pool,       \* the database pool is open
    cut,        \* history: what ended before its work did
    panicked    \* history: requests whose background work panicked

schedVars == <<stopped, loop, tick, jobs>>
apiVars == <<request, row, task, closed, wg, panicked>>
vars == <<main, signalled, schedVars, apiVars, pool, cut>>

Alive == main # "exited"

(* The context the scheduler's jobs run in.                                 *)
Done == signalled \/ stopped

(* Every variable has its type; the wait groups, which panic below zero,    *)
(* count the goroutines that have yet to call Done (scheduler.go:91,113,    *)
(* async.go:46,49).                                                         *)
TypeOK ==
    /\ main \in {"starting", "serving", "shutting", "drain", "draining",
                 "stop", "stopping", "closing", "exiting", "exited"}
    /\ signalled \in BOOLEAN /\ stopped \in BOOLEAN
    /\ loop \in [Jobs -> {"none", "select", "running", "exited"}]
    /\ tick \in [Jobs -> BOOLEAN]
    /\ jobs = Cardinality({j \in Jobs : loop[j] \in {"select", "running"}})
    /\ request \in [Requests -> {"none", "create", "go", "respond", "answered"}]
    /\ row \in [Requests -> {"none", "provisioning", "settled"}]
    /\ task \in [Requests -> {"none", "running", "ended"}]
    /\ closed \in BOOLEAN
    /\ wg = Cardinality({r \in Requests : task[r] = "running"})
    /\ pool \in {"open", "closed"}
    /\ cut \subseteq {"serve", "requests", "tasks"}
    /\ panicked \subseteq Requests

Init ==
    /\ main = "starting" /\ signalled = FALSE /\ stopped = FALSE
    /\ loop = [j \in Jobs |-> "none"] /\ tick = [j \in Jobs |-> FALSE] /\ jobs = 0
    /\ request = [r \in Requests |-> "none"]
    /\ row = [r \in Requests |-> "none"]
    /\ task = [r \in Requests |-> "none"]
    /\ closed = FALSE /\ wg = 0 /\ pool = "open" /\ cut = {} /\ panicked = {}

-----------------------------------------------------------------------------
(* The scheduler.                                                           *)

(* Scheduler.Start: Add, then the goroutine.                                *)
StartJob(j) ==
    /\ main = "starting" /\ loop[j] = "none"
    /\ jobs' = jobs + 1
    /\ loop' = [loop EXCEPT ![j] = "select"]
    /\ UNCHANGED <<main, signalled, stopped, tick, apiVars, pool, cut>>

(* The ticker drops a tick that finds the channel full.                     *)
Ticks(j) ==
    /\ Alive /\ loop[j] \in {"select", "running"} /\ ~tick[j]
    /\ tick' = [tick EXCEPT ![j] = TRUE]
    /\ UNCHANGED <<main, signalled, stopped, loop, jobs, apiVars, pool, cut>>

(* select takes either case when both are ready.                            *)
RunOnce(j) ==
    /\ Alive /\ loop[j] = "select" /\ tick[j]
    /\ tick' = [tick EXCEPT ![j] = FALSE]
    /\ loop' = [loop EXCEPT ![j] = "running"]
    /\ UNCHANGED <<main, signalled, stopped, jobs, apiVars, pool, cut>>

LoopReturns(j) ==
    /\ Alive /\ loop[j] = "select" /\ Done
    /\ loop' = [loop EXCEPT ![j] = "exited"]
    /\ jobs' = jobs - 1
    /\ UNCHANGED <<main, signalled, stopped, tick, apiVars, pool, cut>>

(* Mutant of JobEnds: a panic ends the job's goroutine.                     *)
PanicEndsLoop(j) ==
    /\ Alive /\ loop[j] = "running"
    /\ \/ loop' = [loop EXCEPT ![j] = "select"] /\ UNCHANGED jobs
       \/ loop' = [loop EXCEPT ![j] = "exited"] /\ jobs' = jobs - 1
    /\ UNCHANGED <<main, signalled, stopped, tick, apiVars, pool, cut>>

(* runOnce: a result, an error and a recovered panic are all the same to    *)
(* the loop.                                                                *)
JobEnds(j) ==
    /\ Alive /\ loop[j] = "running"
    /\ loop' = [loop EXCEPT ![j] = "select"]
    /\ UNCHANGED <<main, signalled, stopped, tick, jobs, apiVars, pool, cut>>

-----------------------------------------------------------------------------
(* Requests and background work.                                            *)

(* The server takes connections until Shutdown closes the listener.         *)
Accept(r) ==
    /\ main = "serving" /\ request[r] = "none"
    /\ request' = [request EXCEPT ![r] = "create"]
    /\ UNCHANGED <<main, signalled, schedVars, row, task, closed, wg, panicked, pool, cut>>

(* store.Create; bad input or an error is answered at once.                 *)
CreateRow(r) ==
    /\ Alive /\ request[r] = "create"
    /\ \/ /\ pool = "open"
          /\ row' = [row EXCEPT ![r] = "provisioning"]
          /\ request' = [request EXCEPT ![r] = "go"]
       \/ /\ request' = [request EXCEPT ![r] = "respond"]
          /\ UNCHANGED row
    /\ UNCHANGED <<main, signalled, schedVars, task, closed, wg, panicked, pool, cut>>

(* Mutant of Go: the work is counted by the goroutine itself.               *)
CountsLate(r) ==
    /\ Alive /\ request[r] = "go"
    /\ request' = [request EXCEPT ![r] = "respond"]
    /\ task' = [task EXCEPT ![r] = IF closed THEN "none" ELSE "running"]
    /\ UNCHANGED <<main, signalled, schedVars, row, closed, wg, panicked, pool, cut>>

(* Async.Go, atomic under its mutex.                                        *)
Go(r) ==
    /\ Alive /\ request[r] = "go"
    /\ request' = [request EXCEPT ![r] = "respond"]
    /\ IF closed THEN UNCHANGED <<task, wg>>
       ELSE task' = [task EXCEPT ![r] = "running"] /\ wg' = wg + 1
    /\ UNCHANGED <<main, signalled, schedVars, row, closed, panicked, pool, cut>>

Respond(r) ==
    /\ Alive /\ request[r] = "respond"
    /\ request' = [request EXCEPT ![r] = "answered"]
    /\ UNCHANGED <<main, signalled, schedVars, row, task, closed, wg, panicked, pool, cut>>

(* Provision records how it ended, if the pool still takes the write (that  *)
(* a database in trouble may lose it is part of InstanceOps).               *)
TaskSettles(r) ==
    /\ Alive /\ task[r] = "running"
    /\ row' = IF pool = "open" THEN [row EXCEPT ![r] = "settled"] ELSE row
    /\ task' = [task EXCEPT ![r] = "ended"] /\ wg' = wg - 1
    /\ UNCHANGED <<main, signalled, schedVars, request, closed, panicked, pool, cut>>

(* A panic of the work is recovered and counted all the same.               *)
TaskPanics(r) ==
    /\ Alive /\ task[r] = "running"
    /\ task' = [task EXCEPT ![r] = "ended"] /\ wg' = wg - 1
    /\ panicked' = panicked \cup {r}
    /\ UNCHANGED <<main, signalled, schedVars, request, row, closed, pool, cut>>

-----------------------------------------------------------------------------
(* run().                                                                   *)

Serves ==
    /\ main = "starting" /\ \A j \in Jobs : loop[j] # "none"
    /\ main' = "serving"
    /\ UNCHANGED <<signalled, schedVars, apiVars, pool, cut>>

Signal ==
    /\ Alive /\ ~signalled
    /\ signalled' = TRUE
    /\ UNCHANGED <<main, schedVars, apiVars, pool, cut>>

(* Serve: the listener breaks, and Serve returns with requests in flight.   *)
ServeFails ==
    /\ main = "serving"
    /\ main' = "drain" /\ cut' = cut \cup {"serve"}
    /\ UNCHANGED <<signalled, schedVars, apiVars, pool>>

ShutdownBegins ==
    /\ main = "serving" /\ signalled
    /\ main' = "shutting"
    /\ UNCHANGED <<signalled, schedVars, apiVars, pool, cut>>

InFlight == {r \in Requests : request[r] \in {"create", "go", "respond"}}

(* Mutant of ShutdownEnds: the server is closed, not shut down.             *)
ServerClosed ==
    /\ main = "shutting"
    /\ main' = "drain"
    /\ UNCHANGED <<signalled, schedVars, apiVars, pool, cut>>

(* srv.Shutdown waits for the requests in flight, for shutdownTimeout.      *)
ShutdownEnds ==
    /\ main = "shutting"
    /\ main' = "drain"
    /\ cut' = IF InFlight = {} THEN cut ELSE cut \cup {"requests"}
    /\ UNCHANGED <<signalled, schedVars, apiVars, pool>>

(* Async.Wait: no work is added from here on ...                            *)
DrainBegins ==
    /\ main = "drain"
    /\ main' = "draining" /\ closed' = TRUE
    /\ UNCHANGED <<signalled, schedVars, request, row, task, wg, panicked, pool, cut>>

(* Mutant of DrainEnds: no timeout.                                         *)
DrainWaits ==
    /\ main = "draining" /\ wg = 0
    /\ main' = "stop"
    /\ UNCHANGED <<signalled, schedVars, apiVars, pool, cut>>

(* ... and what was added is waited for, for asyncDrainTimeout.             *)
DrainEnds ==
    /\ main = "draining"
    /\ main' = "stop"
    /\ cut' = IF wg = 0 THEN cut ELSE cut \cup {"tasks"}
    /\ UNCHANGED <<signalled, schedVars, apiVars, pool>>

(* Scheduler.Stop, deferred: cancel ...                                     *)
StopCancels ==
    /\ main = "stop"
    /\ main' = "stopping" /\ stopped' = TRUE
    /\ UNCHANGED <<signalled, loop, tick, jobs, apiVars, pool, cut>>

(* Mutant of StopWaits: Stop only cancels.                                  *)
StopReturns ==
    /\ main = "stopping"
    /\ main' = "closing"
    /\ UNCHANGED <<signalled, schedVars, apiVars, pool, cut>>

(* ... and wait for the loops, without a bound.                             *)
StopWaits ==
    /\ main = "stopping" /\ jobs = 0
    /\ main' = "closing"
    /\ UNCHANGED <<signalled, schedVars, apiVars, pool, cut>>

ClosePool ==
    /\ main = "closing"
    /\ main' = "exiting" /\ pool' = "closed"
    /\ UNCHANGED <<signalled, schedVars, apiVars, cut>>

Exit ==
    /\ main = "exiting"
    /\ main' = "exited"
    /\ UNCHANGED <<signalled, schedVars, apiVars, pool, cut>>

-----------------------------------------------------------------------------
Main ==
    \/ \E j \in Jobs : StartJob(j)
    \/ Serves \/ ShutdownBegins \/ ShutdownEnds \/ DrainBegins \/ DrainEnds
    \/ StopCancels \/ StopWaits \/ ClosePool \/ Exit

Loop(j) == RunOnce(j) \/ LoopReturns(j) \/ JobEnds(j)

Next ==
    \/ Main \/ Signal \/ ServeFails
    \/ \E j \in Jobs : Ticks(j) \/ Loop(j)
    \/ \E r \in Requests : \/ Accept(r) \/ CreateRow(r) \/ Go(r) \/ Respond(r)
                           \/ TaskSettles(r) \/ TaskPanics(r)

Spec == Init /\ [][Next]_vars

(* main goes on, tickers tick, a job's run ends (most of its calls end with *)
(* the context; an exec ends with the command it reads the output of), and  *)
(* select chooses at random, so it takes ctx.Done() in the end.  Nothing is *)
(* assumed of requests and background work.                                 *)
FairSpec ==
    /\ Spec /\ WF_vars(Main)
    /\ \A j \in Jobs : /\ WF_vars(Ticks(j)) /\ WF_vars(Loop(j))
                       /\ SF_vars(LoopReturns(j))

-----------------------------------------------------------------------------
(* When the pool is closed no job is running and none will run:             *)
(* Scheduler.Stop "waits for their goroutines to exit" (scheduler.go:96)    *)
(* and is deferred after the pool's Close (main.go:100,234).                *)
JobsEndFirst == pool = "closed" => \A j \in Jobs : loop[j] = "exited"

(* A shutdown whose waits did not time out leaves no accepted instance in   *)
(* "provisioning" and no work behind, unless that work panicked: what Async *)
(* is there for (async.go:9-13).                                            *)
CleanExit ==
    pool = "closed" /\ cut = {} =>
        \A r \in Requests : /\ task[r] # "running"
                            /\ row[r] = "provisioning" => r \in panicked

(* After a signal the process ends, even if background work and requests    *)
(* hang for ever (server.go:37-41, async.go:57-70).                         *)
Terminates == signalled ~> main = "exited"

(* Until then every job runs again and again, whatever its runs do: one bad *)
(* run never kills the scheduler (scheduler.go:129-130).                    *)
JobsKeepRunning ==
    \A j \in Jobs : []<>(loop[j] = "running" \/ main \notin {"starting", "serving"} \/ signalled)
=============================================================================
