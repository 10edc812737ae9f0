------------------------------ MODULE Lifecycle ------------------------------
(***************************************************************************)
(* Availability of remote access (lib.rs, state.rs): the server state, the *)
(* MCP listener, the durable Emergency Stop latch and remote-access gate,  *)
(* and the commands of the local user that change them.  Every command is  *)
(* an async function on the shared Core; nothing serialises two commands,  *)
(* only the listener handle has a lock.  The process may stop at any point *)
(* and is then launched again (Core::start).                               *)
(*                                                                         *)
(* Tool calls pass the check of mcp_auth and the availability gate of      *)
(* dispatch, and then run to completion: run_handler spawns the handler,   *)
(* so closing the connection does not end it.  A handler may launch a task.*)
(***************************************************************************)
EXTENDS Naturals, FiniteSets

CONSTANTS
    Ops,     \* commands of the local user that may be in progress at once
    Kinds,   \* the commands the local user gives
    Calls    \* tool calls in flight

ASSUME KindsAssumption ==
    Kinds \subseteq {"stop", "resume", "enable", "pause", "restart", "shutdown"}

VARIABLES
    state,      \* StateMachine.state
    listener,   \* the HTTP handle is present
    lock,       \* the command that holds the lock of the handle, or the empty set
    latch,      \* durable: Emergency Stop latch of the control database
    gate,       \* durable: remote-access gate file says enabled
    blocked,    \* the local MCP gateway refuses to start servers
    damaged,    \* settings could not be loaded
    fault,      \* a fault is shown to the user
    ops,        \* progress of the commands
    calls,      \* progress of the tool calls
    tasks,      \* calls whose managed task is running
    acked       \* history: a stop was acknowledged and nobody resumed since

vars == <<state, listener, lock, latch, gate, blocked, damaged, fault, ops, calls,
          tasks, acked>>

durable  == <<latch, gate>>
callVars == <<calls, tasks>>

States == {"starting", "ready", "paused", "emergency_stopped", "restarting",
           "stopping", "faulted"}

Steps == {"idle", "halt", "block", "kill", "latch", "gate", "close",
          "check", "unlatch", "ungate", "unblock", "listen", "ready",
          "shut", "pausing", "leave", "reopen"}

NoOp == [kind |-> "none", pc |-> "idle", prev |-> "starting", saved |-> TRUE]

\* The first step of each command.
Entry == [stop |-> "halt", resume |-> "unlatch", enable |-> "check", pause |-> "shut",
          restart |-> "leave", shutdown |-> "leave"]

At(o, pc) == ops[o].pc = pc
Goto(o, pc) == ops' = [ops EXCEPT ![o].pc = pc]
Done(o) == ops' = [ops EXCEPT ![o] = NoOp]

\* latch_get(..).unwrap_or(true): an unreadable latch counts as set.
LatchReads == {latch, TRUE}

-----------------------------------------------------------------------------
(* Core::start after recovery.                                             *)

\* Mutant: the gate file is not consulted when the process starts.
StartupIgnoresGate(seen, broken, bound) ==
    IF seen THEN "emergency_stopped"
    ELSE IF broken \/ ~bound THEN "faulted" ELSE "ready"

Startup(seen, broken, bound) ==
    CASE seen                            -> "emergency_stopped"
      [] ~seen /\ broken                 -> "faulted"
      [] ~seen /\ ~broken /\ gate        -> IF bound THEN "ready" ELSE "faulted"
      [] ~seen /\ ~broken /\ ~gate       -> "paused"

Launch(seen, broken, bound) ==
    /\ state' = Startup(seen, broken, bound)
    /\ listener' = (state' = "ready")
    /\ lock' = {}
    /\ blocked' = TRUE
    /\ damaged' = broken
    /\ fault' = (state' = "faulted")
    /\ ops' = [o \in Ops |-> NoOp]
    /\ calls' = [c \in Calls |-> "idle"]
    /\ tasks' = {}

\* The process ends, with its jobs, and starts again.
Relaunch ==
    /\ \E seen \in LatchReads, broken, bound \in BOOLEAN : Launch(seen, broken, bound)
    /\ UNCHANGED <<durable, acked>>

Init ==
    /\ state = "ready" /\ listener = TRUE /\ lock = {}
    /\ latch = FALSE /\ gate = TRUE /\ blocked = TRUE
    /\ damaged = FALSE /\ fault = FALSE
    /\ ops = [o \in Ops |-> NoOp]
    /\ calls = [c \in Calls |-> "idle"]
    /\ tasks = {}
    /\ acked = FALSE

\* The local user gives a command (a change of the network settings while
\* Ready is a restart).
Begin(o, kind) ==
    /\ At(o, "idle")
    /\ state # "stopping"
    /\ ops' = [ops EXCEPT ![o] = [NoOp EXCEPT !.kind = kind, !.pc = Entry[kind]]]
    /\ UNCHANGED <<state, listener, lock, durable, blocked, damaged, fault, callVars, acked>>

\* Saving settings replaces damaged ones and clears their fault.
SaveSettings ==
    /\ damaged
    /\ damaged' = FALSE
    /\ UNCHANGED <<state, listener, lock, durable, blocked, fault, ops, callVars, acked>>

-----------------------------------------------------------------------------
(* emergency_stop                                                          *)

Halt(o) ==
    /\ At(o, "halt")
    /\ state' = "emergency_stopped"
    /\ Goto(o, "block")
    /\ UNCHANGED <<listener, lock, durable, blocked, damaged, fault, callVars, acked>>

Block(o) ==
    /\ At(o, "block")
    /\ blocked' = TRUE
    /\ Goto(o, "kill")
    /\ UNCHANGED <<state, listener, lock, durable, damaged, fault, callVars, acked>>

\* kill_all: of emergency_stop, and of shutdown once the listener is closed.
Kill(o) ==
    /\ At(o, "kill")
    /\ tasks' = {}
    /\ IF ops[o].kind = "stop" THEN Goto(o, "latch") ELSE Done(o)
    /\ UNCHANGED <<state, listener, lock, durable, blocked, damaged, fault, calls, acked>>

\* Either write may fail; the stop goes on.
PersistLatch(o) ==
    /\ At(o, "latch")
    /\ \E ok \in BOOLEAN :
         /\ latch' = (latch \/ ok)
         /\ ops' = [ops EXCEPT ![o].pc = "gate", ![o].saved = ok]
    /\ UNCHANGED <<state, listener, lock, gate, blocked, damaged, fault, callVars, acked>>

PersistGate(o) ==
    /\ At(o, "gate")
    /\ \E ok \in BOOLEAN :
         /\ gate' = (gate /\ ~ok)
         /\ fault' = (fault \/ ~ok \/ ~ops[o].saved)
    /\ Goto(o, "close")
    /\ UNCHANGED <<state, listener, lock, latch, blocked, damaged, callVars, acked>>

\* stop_http, the last step of emergency_stop and pause, the second one of
\* restart_mcp and shutdown.  A stop counts as acknowledged when at least one
\* of its two durable records is in place.
Close(o) ==
    /\ At(o, "close")
    /\ lock = {}
    /\ listener' = FALSE
    /\ CASE ops[o].kind = "restart"  -> Goto(o, "reopen")
         [] ops[o].kind = "shutdown" -> Goto(o, "kill")
         [] OTHER                    -> Done(o)
    /\ acked' = (acked \/ (ops[o].kind = "stop" /\ (latch \/ ~gate)))
    /\ UNCHANGED <<state, lock, durable, blocked, damaged, fault, callVars>>

-----------------------------------------------------------------------------
(* enable_remote_access and resume_remote_access                           *)

CheckLatch(o) ==
    /\ At(o, "check")
    /\ \E seen \in LatchReads : IF seen THEN Done(o) ELSE Goto(o, "unlatch")
    /\ UNCHANGED <<state, listener, lock, durable, blocked, damaged, fault, callVars, acked>>

\* A write that fails, or one of the audit log after it, ends the command.
Abort(o) ==
    /\ ops[o].pc \in {"unlatch", "ungate", "unblock", "shut"}
    /\ Done(o)
    /\ UNCHANGED <<state, listener, lock, durable, blocked, damaged, fault, callVars, acked>>

\* A Resume, or the toggle when no latch is set, ends the acknowledged stop.
ClearLatch(o) ==
    /\ At(o, "unlatch")
    /\ ~damaged
    /\ latch' = FALSE
    /\ acked' = (acked /\ latch /\ ops[o].kind # "resume")
    /\ Goto(o, "ungate")
    /\ UNCHANGED <<state, listener, lock, gate, blocked, damaged, fault, callVars>>

OpenGate(o) ==
    /\ At(o, "ungate")
    /\ gate' = TRUE
    /\ Goto(o, "unblock")
    /\ UNCHANGED <<state, listener, lock, latch, blocked, damaged, fault, callVars, acked>>

Unblock(o) ==
    /\ At(o, "unblock")
    /\ blocked' = FALSE
    /\ Goto(o, "listen")
    /\ UNCHANGED <<state, listener, lock, durable, damaged, fault, callVars, acked>>

\* start_http: an existing handle is enough; a listener that cannot be bound
\* faults a restart and is an error of the other commands.
Listen(o) ==
    /\ At(o, "listen")
    /\ lock = {}
    /\ \/ /\ listener
          /\ Done(o)
          /\ UNCHANGED <<state, listener, lock, fault>>
       \/ /\ ~listener
          /\ listener' = TRUE
          /\ lock' = {o}
          /\ Goto(o, "ready")
          /\ UNCHANGED <<state, fault>>
       \/ /\ ~listener
          /\ IF ops[o].kind = "restart"
             THEN state' = "faulted" /\ fault' = TRUE
             ELSE UNCHANGED <<state, fault>>
          /\ Done(o)
          /\ UNCHANGED <<listener, lock>>
    /\ UNCHANGED <<durable, blocked, damaged, callVars, acked>>

\* Mutant: the lock of the handle is never released.
MarkReadyLocked(o) ==
    /\ At(o, "ready")
    /\ state' = "ready"
    /\ fault' = FALSE
    /\ Done(o)
    /\ UNCHANGED <<listener, lock, durable, blocked, damaged, callVars, acked>>

\* Still under the lock of the handle.
MarkReady(o) ==
    /\ At(o, "ready")
    /\ state' = "ready"
    /\ fault' = FALSE
    /\ lock' = {}
    /\ Done(o)
    /\ UNCHANGED <<listener, durable, blocked, damaged, callVars, acked>>

-----------------------------------------------------------------------------
(* pause_remote_access, restart_mcp and shutdown                           *)

ShutGate(o) ==
    /\ At(o, "shut")
    /\ gate' = FALSE
    /\ Goto(o, "pausing")
    /\ UNCHANGED <<state, listener, lock, latch, blocked, damaged, fault, callVars, acked>>

Pause(o) ==
    /\ At(o, "pausing")
    /\ state' = "paused"
    /\ Goto(o, "close")
    /\ UNCHANGED <<listener, lock, durable, blocked, damaged, fault, callVars, acked>>

Leave(o) ==
    /\ At(o, "leave")
    /\ state' = IF ops[o].kind = "restart" THEN "restarting" ELSE "stopping"
    /\ ops' = [ops EXCEPT ![o].pc = "close", ![o].prev = state]
    /\ UNCHANGED <<listener, lock, durable, blocked, damaged, fault, callVars, acked>>

\* Mutant: a restart forgets that the server was stopped when it began.
ReopenByLatchOnly(o) ==
    /\ At(o, "reopen")
    /\ \E seen \in LatchReads :
         \/ seen /\ state' = "emergency_stopped" /\ Done(o)
         \/ ~seen /\ Goto(o, "listen") /\ UNCHANGED state
    /\ UNCHANGED <<listener, lock, durable, blocked, damaged, fault, callVars, acked>>

\* Damaged settings are the defaults, in which setup is not complete.
Reopen(o) ==
    /\ At(o, "reopen")
    /\ \E seen \in LatchReads :
         LET stopped == ops[o].prev = "emergency_stopped" \/ seen
             wanted  == ops[o].prev = "ready" \/ (gate /\ ~damaged)
         IN  \/ stopped /\ state' = "emergency_stopped" /\ Done(o)
             \/ ~stopped /\ wanted /\ Goto(o, "listen") /\ UNCHANGED state
             \/ ~stopped /\ ~wanted /\ state' = "paused" /\ Done(o)
    /\ UNCHANGED <<listener, lock, durable, blocked, damaged, fault, callVars, acked>>

-----------------------------------------------------------------------------
(* Tool calls and the tasks they launch.                                   *)

Arrive(c) ==
    /\ calls[c] = "idle"
    /\ listener /\ state = "ready"
    /\ calls' = [calls EXCEPT ![c] = "arrived"]
    /\ UNCHANGED <<state, listener, lock, durable, blocked, damaged, fault, ops, tasks, acked>>

Admit(c) ==
    /\ calls[c] = "arrived"
    /\ calls' = [calls EXCEPT ![c] = IF state = "ready" THEN "admitted" ELSE "idle"]
    /\ UNCHANGED <<state, listener, lock, durable, blocked, damaged, fault, ops, tasks, acked>>

Finish(c, launched) ==
    /\ calls[c] = "admitted"
    /\ calls' = [calls EXCEPT ![c] = "idle"]
    /\ tasks' = IF launched THEN tasks \cup {c} ELSE tasks
    /\ UNCHANGED <<state, listener, lock, durable, blocked, damaged, fault, ops, acked>>

TaskExit(c) ==
    /\ c \in tasks
    /\ tasks' = tasks \ {c}
    /\ UNCHANGED <<state, listener, lock, durable, blocked, damaged, fault, ops, calls, acked>>

-----------------------------------------------------------------------------
Progress(o) ==
    \/ Halt(o) \/ Block(o) \/ Kill(o) \/ PersistLatch(o) \/ PersistGate(o) \/ Close(o)
    \/ CheckLatch(o) \/ Abort(o) \/ ClearLatch(o) \/ OpenGate(o) \/ Unblock(o)
    \/ Listen(o) \/ MarkReady(o)
    \/ ShutGate(o) \/ Pause(o) \/ Leave(o) \/ Reopen(o)

Next ==
    \/ \E o \in Ops : Progress(o) \/ \E kind \in Kinds : Begin(o, kind)
    \/ \E c \in Calls : \/ Arrive(c) \/ Admit(c) \/ TaskExit(c)
                        \/ \E launched \in BOOLEAN : Finish(c, launched)
    \/ SaveSettings
    \/ Relaunch

Spec == Init /\ [][Next]_vars

FairSpec == Spec /\ \A o \in Ops : WF_vars(Progress(o))

-----------------------------------------------------------------------------
(* Properties.                                                             *)

\* Every variable has its type.
TypeOK ==
    /\ state \in States
    /\ listener \in BOOLEAN /\ lock \in SUBSET Ops
    /\ latch \in BOOLEAN /\ gate \in BOOLEAN /\ blocked \in BOOLEAN
    /\ damaged \in BOOLEAN /\ fault \in BOOLEAN /\ acked \in BOOLEAN
    /\ ops \in [Ops -> [kind : {"none", "stop", "resume", "enable", "pause", "restart",
                                "shutdown"},
                        pc : Steps, prev : States, saved : BOOLEAN]]
    /\ calls \in [Calls -> {"idle", "arrived", "admitted"}]
    /\ tasks \in SUBSET Calls

Quiet == \A o \in Ops : At(o, "idle")

\* Between commands the listener is up exactly when the server is Ready, and a
\* Ready server has an enabled gate and no latch: whatever command failed half
\* way and wherever the process stopped (module docs of state.rs).
OpenIffReady ==
    Quiet => /\ listener <=> (state = "ready")
             /\ state = "ready" => gate /\ ~latch

\* Once a stop is acknowledged nothing is admitted and the gateway stays
\* blocked, through restarts, relaunches, failed writes, pauses and the remote
\* access toggle, until the local user resumes ("Only an explicit local Resume
\* clears it", state.rs).
StopHolds ==
    acked => /\ state # "ready"
             /\ blocked
             /\ Quiet => ~listener

\* Every command ends: none waits for ever on the lock of the listener handle.
CommandsFinish == \A o \in Ops : ~At(o, "idle") ~> At(o, "idle")

\* "Restart never clears Emergency Stop" (lib.rs): with all commands finished,
\* a latched server is not accepting calls.
RestartKeepsStop == (Quiet /\ latch) => state # "ready"

\* "Emergency Stop always terminates managed agent tasks" (plan.md): with the
\* stop finished and no call in flight, no task is running.
StopEndsTasks ==
    (Quiet /\ state = "emergency_stopped" /\ \A c \in Calls : calls[c] = "idle") =>
        tasks = {}
=============================================================================
