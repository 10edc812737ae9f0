-------------------------------- MODULE Tasks --------------------------------
(***************************************************************************)
(* Managed tasks and the writer lease of a project: TaskManager of         *)
(* workstation-executor (manager.rs), the launch of a shell tool           *)
(* (tools/process.rs), LeaseManager (leases.rs) and the parts of the       *)
(* service that connect them (lib.rs: project_write_guard, the task event  *)
(* loop, the heartbeat of maintenance_fast, client_access_removed and      *)
(* emergency_stop).                                                        *)
(*                                                                         *)
(* A launch runs in its own thread and hands the task over to a wait       *)
(* thread; the table of tasks, the map of running tasks and the leases     *)
(* have locks of their own.  Projects do not share leases, so there is one *)
(* project, in which every task is a potential writer.                     *)
(*                                                                         *)
(* One tick is the period of the heartbeat (15 seconds); a launch is       *)
(* finished before the tick is over.                                       *)
(***************************************************************************)
EXTENDS Naturals, FiniteSets

CONSTANTS
    Clients,         \* client ids
    TaskIds,         \* pool of task ids, each used at most once
    MaxTasks,        \* max_tasks_per_client
    Ttl,             \* writer_lease_seconds, in ticks
    AllowMultiple,   \* allow_multiple_writers_per_project
    Faults,          \* whether a write or the creation of a thread may fail
    None             \* no owner, or a lease that belongs to no task

ASSUME NoneAssumption == None \notin Clients \cup TaskIds
ASSUME TtlAssumption == Ttl \in Nat /\ Ttl > 1
ASSUME MaxTasksAssumption == MaxTasks \in Nat
ASSUME SettingsAssumption == AllowMultiple \in BOOLEAN /\ Faults \in BOOLEAN

VARIABLES
    stage,       \* progress of the launch, then of the wait thread
    owner,       \* the client that launched the task
    row,         \* durable: status in table tasks
    job,         \* process tree: none, live, or the exit of its root
    running,     \* ids in the map of running tasks
    kill,        \* Running.kill_status
    cancelling,  \* ids with Running.cancel_requested
    grace,       \* ids with a thread that waits to end a cancelled task
    timedOut,    \* ids whose deadline the wait thread has seen
    finished,    \* Finished events the service has not handled yet
    leases,      \* writer leases of the project
    due,         \* the heartbeat of this tick is due
    releasing,   \* clients whose revocation has yet to release their leases
    stopped,     \* history: tasks asked to stop while their tree was live
    revoked,     \* history: tasks whose lease a revocation took away
    broken       \* history: tasks that met a failed write or thread

vars == <<stage, owner, row, job, running, kill, cancelling, grace, timedOut, finished,
          leases, due, releasing, stopped, revoked, broken>>

stopVars  == <<kill, cancelling, grace, timedOut, stopped>>
leaseVars == <<leases, due, releasing, revoked>>

Launching == {"guard", "insert", "spawn", "pid", "register", "watch"}
Stages    == {"new", "wait", "store", "remove", "notify", "done"} \cup Launching

StopReasons == {"killed", "cancelled", "timed_out"}
Terminal    == {"completed", "failed", "launch_failed", "interrupted"} \cup StopReasons

Lease == [client : Clients, task : TaskIds \cup {None}, left : 0..Ttl]

RunningOf(c) == {t \in running : owner[t] = c}

Init ==
    /\ stage = [t \in TaskIds |-> "new"]
    /\ owner = [t \in TaskIds |-> None]
    /\ row = [t \in TaskIds |-> "none"]
    /\ job = [t \in TaskIds |-> "none"]
    /\ kill = [t \in TaskIds |-> "none"]
    /\ running = {} /\ cancelling = {} /\ grace = {} /\ timedOut = {} /\ finished = {}
    /\ leases = {} /\ due = FALSE /\ releasing = {}
    /\ stopped = {} /\ revoked = {} /\ broken = {}

Goto(t, s) == stage' = [stage EXCEPT ![t] = s]

-----------------------------------------------------------------------------
(* Leases.                                                                 *)

Unexpired == {l \in leases : l.left > 0}

\* Mutant: only the lease of a task keeps others out.
BlockedByTask(c) == ~AllowMultiple /\ \E l \in Unexpired : l.client # c /\ l.task # None

\* acquire drops expired leases, also when it refuses.
Blocked(c) == ~AllowMultiple /\ \E l \in Unexpired : l.client # c

Grant(c, t) ==
    leases' = {l \in Unexpired : ~(l.client = c /\ l.task = t)}
                \cup {[client |-> c, task |-> t, left |-> Ttl]}

\* A file or Git tool writes into the project.
DirectWrite(c) ==
    /\ IF Blocked(c) THEN leases' = Unexpired ELSE Grant(c, None)
    /\ UNCHANGED <<stage, owner, row, job, running, stopVars, finished, due, releasing,
                   revoked, broken>>

\* The user interface lists the leases.
ListLeases ==
    /\ leases' = Unexpired
    /\ UNCHANGED <<stage, owner, row, job, running, stopVars, finished, due, releasing,
                   revoked, broken>>

-----------------------------------------------------------------------------
(* Launch.                                                                 *)

\* The limit is checked first, against the tasks that run at that moment.
CheckLimit(t, c) ==
    /\ stage[t] = "new"
    /\ owner' = [owner EXCEPT ![t] = c]
    /\ Goto(t, IF Cardinality(RunningOf(c)) >= MaxTasks THEN "done" ELSE "guard")
    /\ UNCHANGED <<row, job, running, stopVars, finished, leaseVars, broken>>

WriteGuard(t) ==
    /\ stage[t] = "guard"
    /\ IF Blocked(owner[t])
       THEN leases' = Unexpired /\ Goto(t, "done")
       ELSE Grant(owner[t], t) /\ Goto(t, "insert")
    /\ UNCHANGED <<owner, row, job, running, stopVars, finished, due, releasing, revoked,
                   broken>>

InsertRow(t) ==
    /\ stage[t] = "insert"
    /\ row' = [row EXCEPT ![t] = "running"]
    /\ Goto(t, "spawn")
    /\ UNCHANGED <<owner, job, running, stopVars, finished, leaseVars, broken>>

\* The process is created inside its job, or not at all.
Spawn(t) ==
    /\ stage[t] = "spawn"
    /\ job' = [job EXCEPT ![t] = "live"]
    /\ Goto(t, "pid")
    /\ UNCHANGED <<owner, row, running, stopVars, finished, leaseVars, broken>>

\* Mutant: a failed launch leaves its row as it is.
SpawnFailsSilently(t) ==
    /\ stage[t] = "spawn"
    /\ Goto(t, "done")
    /\ UNCHANGED <<owner, row, job, running, stopVars, finished, leaseVars, broken>>

SpawnFails(t) ==
    /\ stage[t] = "spawn"
    /\ row' = [row EXCEPT ![t] = "launch_failed"]
    /\ Goto(t, "done")
    /\ UNCHANGED <<owner, job, running, stopVars, finished, leaseVars, broken>>

StorePid(t) ==
    /\ stage[t] = "pid"
    /\ Goto(t, "register")
    /\ UNCHANGED <<owner, row, job, running, stopVars, finished, leaseVars, broken>>

Register(t) ==
    /\ stage[t] = "register"
    /\ running' = running \cup {t}
    /\ Goto(t, "watch")
    /\ UNCHANGED <<owner, row, job, stopVars, finished, leaseVars, broken>>

\* The reader threads and the wait thread start.
Watch(t) ==
    /\ stage[t] = "watch"
    /\ Goto(t, "wait")
    /\ UNCHANGED <<owner, row, job, running, stopVars, finished, leaseVars, broken>>

Ended(t) == IF job[t] = "live" THEN [job EXCEPT ![t] = "failed"] ELSE job

\* Mutant: the job outlives the launch that could not record its process.
LaunchFailsLeaky(t) ==
    /\ Faults
    /\ stage[t] \in {"insert", "spawn", "pid", "watch"}
    /\ UNCHANGED job
    /\ broken' = broken \cup {t}
    /\ Goto(t, "done")
    /\ UNCHANGED <<owner, row, running, stopVars, finished, leaseVars>>

\* The launch ends with an error: the cache quota or the insert (no row), the
\* record of a failed spawn or the pid (the row stays), a thread (the entry in
\* the map stays too).  The job of a process nobody holds any more is closed.
LaunchFails(t) ==
    /\ Faults
    /\ stage[t] \in {"insert", "spawn", "pid", "watch"}
    /\ job' = IF stage[t] = "pid" THEN Ended(t) ELSE job
    /\ broken' = broken \cup {t}
    /\ Goto(t, "done")
    /\ UNCHANGED <<owner, row, running, stopVars, finished, leaseVars>>

-----------------------------------------------------------------------------
(* Ending a task.                                                          *)

Exit(t, code) ==
    /\ job[t] = "live"
    /\ job' = [job EXCEPT ![t] = code]
    /\ UNCHANGED <<stage, owner, row, running, stopVars, finished, leaseVars, broken>>

\* terminate: the reason is noted first; ending the job may fail.
Terminate(S, reason) ==
    /\ kill' = [t \in TaskIds |-> IF t \in S THEN reason ELSE kill[t]]
    /\ stopped' = stopped \cup {t \in S : job[t] = "live"}
    /\ \E D \in SUBSET S :
         job' = [t \in TaskIds |-> IF t \in D /\ job[t] = "live" THEN "failed" ELSE job[t]]

Kill(t) ==
    /\ t \in running
    /\ Terminate({t}, "killed")
    /\ UNCHANGED <<stage, owner, row, running, cancelling, grace, timedOut, finished,
                   leaseVars, broken>>

\* The first request sends Ctrl+Break and leaves the task three seconds, the
\* second one ends it at once.
Cancel(t) ==
    /\ t \in running
    /\ IF t \in cancelling
       THEN Terminate({t}, "cancelled") /\ UNCHANGED <<cancelling, grace>>
       ELSE /\ cancelling' = cancelling \cup {t}
            /\ grace' = grace \cup {t}
            /\ stopped' = stopped \cup {u \in {t} : job[u] = "live"}
            /\ UNCHANGED <<kill, job>>
    /\ UNCHANGED <<stage, owner, row, running, timedOut, finished, leaseVars, broken>>

\* Once the task has left the map this thread finds nothing to end.
GraceOver(t) ==
    /\ t \in grace
    /\ grace' = grace \ {t}
    /\ Terminate({t}, "cancelled")
    /\ UNCHANGED <<stage, owner, row, running, cancelling, timedOut, finished, leaseVars,
                   broken>>

-----------------------------------------------------------------------------
(* The wait thread.                                                        *)

Deadline(t) ==
    /\ stage[t] = "wait" /\ job[t] = "live" /\ t \notin timedOut
    /\ timedOut' = timedOut \cup {t}
    /\ Terminate({t}, "timed_out")
    /\ UNCHANGED <<stage, owner, row, running, cancelling, grace, finished, leaseVars, broken>>

\* A job that could not be ended is tried again every 200 ms.
Retry(t) ==
    /\ stage[t] = "wait" /\ job[t] = "live" /\ kill[t] # "none"
    /\ job' = Ended(t)
    /\ UNCHANGED <<stage, owner, row, running, stopVars, finished, leaseVars, broken>>

\* The whole tree has ended and the readers have drained.
TreeEnded(t) ==
    /\ stage[t] = "wait" /\ job[t] # "live"
    /\ Goto(t, "store")
    /\ UNCHANGED <<owner, row, job, running, stopVars, finished, leaseVars, broken>>

\* Mutant: a task that ends during its grace period is reported by its exit code.
StatusByExit(t) ==
    IF kill[t] # "none" THEN kill[t] ELSE IF job[t] = "ok" THEN "completed" ELSE "failed"

StatusOf(t) ==
    CASE kill[t] # "none"                           -> kill[t]
      [] kill[t] = "none" /\ t \in cancelling       -> "cancelled"
      [] kill[t] = "none" /\ t \notin cancelling    ->
            IF job[t] = "ok" THEN "completed" ELSE "failed"

\* A write that fails is not tried again: the row stays "running".
StoreStatus(t) ==
    /\ stage[t] = "store"
    /\ \/ row' = [row EXCEPT ![t] = StatusOf(t)] /\ UNCHANGED broken
       \/ Faults /\ broken' = broken \cup {t} /\ UNCHANGED row
    /\ Goto(t, "remove")
    /\ UNCHANGED <<owner, job, running, stopVars, finished, leaseVars>>

\* The entry is dropped, and with it the requests to stop it carries.
Remove(t) ==
    /\ stage[t] = "remove"
    /\ running' = running \ {t}
    /\ kill' = [kill EXCEPT ![t] = "none"]
    /\ cancelling' = cancelling \ {t}
    /\ grace' = grace \ {t}
    /\ timedOut' = timedOut \ {t}
    /\ Goto(t, "notify")
    /\ UNCHANGED <<owner, row, job, finished, leaseVars, stopped, broken>>

Notify(t) ==
    /\ stage[t] = "notify"
    /\ finished' = finished \cup {t}
    /\ Goto(t, "done")
    /\ UNCHANGED <<owner, row, job, running, stopVars, leaseVars, broken>>

-----------------------------------------------------------------------------
(* The service: events, heartbeat, revocation, pruning, restart.           *)

\* The lease of the task is released, unless the event loop has fallen behind
\* and the bounded channel has dropped the event.
HandleFinished(t, lagged) ==
    /\ t \in finished
    /\ finished' = finished \ {t}
    /\ leases' = IF lagged THEN leases ELSE {l \in leases : l.task # t}
    /\ UNCHANGED <<stage, owner, row, job, running, stopVars, due, releasing, revoked, broken>>

\* Mutant: a task that is being cancelled gets no heartbeat.
HeartbeatUncancelled ==
    /\ due' = FALSE
    /\ leases' = {[l EXCEPT !.left = IF l.task \in running \ cancelling THEN Ttl ELSE @] :
                    l \in leases}
    /\ UNCHANGED <<stage, owner, row, job, running, stopVars, finished, releasing, revoked,
                   broken>>

\* Mutant: the heartbeat renews the lease of every task, running or not.
HeartbeatEveryTask ==
    /\ due' = FALSE
    /\ leases' = {[l EXCEPT !.left = IF l.task # None THEN Ttl ELSE @] : l \in leases}
    /\ UNCHANGED <<stage, owner, row, job, running, stopVars, finished, releasing, revoked,
                   broken>>

Heartbeat ==
    /\ due' = FALSE
    /\ leases' = {[l EXCEPT !.left = IF l.task \in running THEN Ttl ELSE @] : l \in leases}
    /\ UNCHANGED <<stage, owner, row, job, running, stopVars, finished, releasing, revoked,
                   broken>>

Tick ==
    /\ ~due
    /\ \A t \in TaskIds : stage[t] \notin Launching
    /\ due' = TRUE
    /\ leases' = {[l EXCEPT !.left = IF @ > 0 THEN @ - 1 ELSE 0] : l \in leases}
    /\ UNCHANGED <<stage, owner, row, job, running, stopVars, finished, releasing, revoked,
                   broken>>

\* client_access_removed, with terminate_tasks_on_revoke set or not.
RemoveClient(c) ==
    /\ \/ Terminate(RunningOf(c), "killed")
       \/ UNCHANGED <<kill, stopped, job>>
    /\ releasing' = releasing \cup {c}
    /\ UNCHANGED <<stage, owner, row, running, cancelling, grace, timedOut, finished, leases,
                   due, revoked, broken>>

\* kill_all of emergency_stop; the leases are cleared after it.
StopAll ==
    /\ Terminate(running, "killed")
    /\ releasing' = Clients
    /\ UNCHANGED <<stage, owner, row, running, cancelling, grace, timedOut, finished, leases,
                   due, revoked, broken>>

ReleaseLeases(c) ==
    /\ c \in releasing
    /\ releasing' = releasing \ {c}
    /\ leases' = {l \in leases : l.client # c}
    /\ revoked' = revoked \cup {t \in TaskIds : owner[t] = c}
    /\ UNCHANGED <<stage, owner, row, job, running, stopVars, finished, due, broken>>

\* Old tasks are deleted once they are not running.
Prune(t) ==
    /\ row[t] \in Terminal
    /\ row' = [row EXCEPT ![t] = "pruned"]
    /\ UNCHANGED <<stage, owner, job, running, stopVars, finished, leaseVars, broken>>

\* Mutant: recovery marks every row of the previous process.
RecoveredAll(s) == IF s = "none" THEN s ELSE "interrupted"

Recovered(s) == IF s = "running" THEN "interrupted" ELSE s

\* The process ends, and its jobs with it; the next one recovers the table.
Restart ==
    /\ stage' = [t \in TaskIds |-> IF stage[t] = "new" THEN "new" ELSE "done"]
    /\ row' = [t \in TaskIds |-> Recovered(row[t])]
    /\ job' = [t \in TaskIds |-> IF job[t] = "live" THEN "failed" ELSE job[t]]
    /\ kill' = [t \in TaskIds |-> "none"]
    /\ running' = {} /\ cancelling' = {} /\ grace' = {} /\ timedOut' = {} /\ finished' = {}
    /\ leases' = {} /\ due' = FALSE /\ releasing' = {}
    /\ UNCHANGED <<owner, stopped, revoked, broken>>

-----------------------------------------------------------------------------
LaunchStep(t) ==
    \/ WriteGuard(t) \/ InsertRow(t) \/ Spawn(t) \/ SpawnFails(t) \/ StorePid(t)
    \/ Register(t) \/ Watch(t) \/ LaunchFails(t)

WaitStep(t) == Retry(t) \/ TreeEnded(t) \/ StoreStatus(t) \/ Remove(t) \/ Notify(t)

Next ==
    \/ \E t \in TaskIds :
         \/ \E c \in Clients : CheckLimit(t, c)
         \/ LaunchStep(t) \/ WaitStep(t) \/ Deadline(t)
         \/ Kill(t) \/ Cancel(t) \/ GraceOver(t)
         \/ \E code \in {"ok", "failed"} : Exit(t, code)
         \/ \E lagged \in BOOLEAN : HandleFinished(t, lagged)
         \/ Prune(t)
    \/ \E c \in Clients : DirectWrite(c) \/ RemoveClient(c) \/ ReleaseLeases(c)
    \/ StopAll \/ ListLeases \/ Heartbeat \/ Tick \/ Restart

Spec == Init /\ [][Next]_vars

\* Launches and wait threads run to their end, deadlines pass, a job that is
\* terminated again and again ends, and the maintenance loop keeps its beat.
Fairness ==
    /\ \A t \in TaskIds : /\ WF_vars(LaunchStep(t))
                          /\ WF_vars(WaitStep(t))
                          /\ WF_vars(Deadline(t))
    /\ WF_vars(due /\ Heartbeat)
    /\ WF_vars(Tick)

FairSpec == Spec /\ Fairness

-----------------------------------------------------------------------------
(* Properties.                                                             *)

\* Every variable has its type.
TypeOK ==
    /\ stage \in [TaskIds -> Stages]
    /\ owner \in [TaskIds -> Clients \cup {None}]
    /\ row \in [TaskIds -> {"none", "running", "pruned"} \cup Terminal]
    /\ job \in [TaskIds -> {"none", "live", "ok", "failed"}]
    /\ kill \in [TaskIds -> {"none"} \cup StopReasons]
    /\ running \in SUBSET TaskIds /\ cancelling \in SUBSET TaskIds
    /\ grace \in SUBSET TaskIds /\ timedOut \in SUBSET TaskIds /\ finished \in SUBSET TaskIds
    /\ leases \in SUBSET Lease /\ due \in BOOLEAN
    /\ releasing \in SUBSET Clients
    /\ stopped \in SUBSET TaskIds /\ revoked \in SUBSET TaskIds /\ broken \in SUBSET TaskIds

\* Unless the user allows several writers, the unexpired leases of a project
\* belong to one client, however acquisitions, heartbeats, expiry and
\* revocations interleave (leases.rs acquire).
SingleWriter ==
    ~AllowMultiple => \A l, m \in Unexpired : l.client = m.client

\* A task whose process tree is alive holds an unexpired writer lease from its
\* launch until the tree has ended, through cancellation, time-outs and lost
\* events; the one exception is a revocation of its client, which releases
\* the lease whether or not it ends the task.
WriterKeepsLease ==
    \A t \in TaskIds : (job[t] = "live" /\ t \notin revoked) =>
        \E l \in Unexpired : l.task = t /\ l.client = owner[t]

\* Every live process tree is in the map of running tasks, where Emergency
\* Stop, revocation and the wait thread find it, or its launch has not
\* finished yet; and a tree in the map that nobody waits for is a known fault.
LiveIsManaged ==
    \A t \in TaskIds : job[t] = "live" =>
        \/ stage[t] \in {"pid", "register"}
        \/ t \in running /\ (stage[t] \in {"watch", "wait"} \/ t \in broken)

\* A task that was asked to stop while its tree was alive is never reported
\* as completed or failed of its own accord (wait_loop).
StopIsReported ==
    \A t \in stopped : row[t] \notin {"completed", "failed"}

\* The status of a finished task is final: no late kill, timer, retry or
\* recovery after a restart replaces it.
TerminalIsFinal ==
    [][\A t \in TaskIds : row[t] \in Terminal => row'[t] \in {row[t], "pruned"}]_vars

\* Every task ends and leaves the map, by itself or at its deadline, unless a
\* write of its launch or of its result failed.
TasksResolve ==
    \A t \in TaskIds :
        row[t] = "running" ~> (row[t] # "running" /\ t \notin running) \/ t \in broken

\* The lease of a task does not outlive it for ever, even when the event that
\* releases it is lost or the launch failed after it was acquired.
LeasesComeFree ==
    \A t \in TaskIds :
        (\E l \in Unexpired : l.task = t) ~> (t \in broken \/ ~\E l \in Unexpired : l.task = t)
=============================================================================
