--------------------------- MODULE LifecycleProofs ---------------------------
(***************************************************************************)
(* Proofs about module Lifecycle.  Types and the lock of the listener      *)
(* handle are in order for any number of commands in progress.  That the   *)
(* listener follows the state, and that an acknowledged stop holds, is     *)
(* proved for commands given one at a time (OneCommand): lib.rs serialises *)
(* nothing, and with two commands it is false (run lifecycle_restart).     *)
(*                                                                         *)
(* The invariant says what each step of a command leaves in disorder       *)
(* (StepOK), which lasts until a later step of the same command repairs    *)
(* it, and that an acknowledged stop has a durable record that the next    *)
(* launch will find (StopRecorded).                                        *)
(***************************************************************************)
EXTENDS Lifecycle, TLAPS

\* Whatever is in progress is one command.
OneCommand == \A o, p \in Ops : o = p

OpType == [kind : {"none", "stop", "resume", "enable", "pause", "restart", "shutdown"},
           pc : Steps, prev : States, saved : BOOLEAN]

\* The command that is about to report Ready, and nobody else, holds the lock.
LockInv ==
    /\ \A o \in Ops : o \in lock <=> ops[o].pc = "ready"
    /\ \A o, p \in lock : o = p

\* The listener follows the state, and Ready is what the durable records say.
Settled == /\ listener <=> (state = "ready")
           /\ state = "ready" => gate /\ ~latch

\* The steps at which each command can be.
Fits(p) ==
    \/ p.kind = "none" /\ p.pc = "idle"
    \/ p.kind = "stop" /\ p.pc \in {"halt", "block", "kill", "latch", "gate", "close"}
    \/ p.kind = "resume" /\ p.pc \in {"unlatch", "ungate", "unblock", "listen", "ready"}
    \/ p.kind = "enable" /\ p.pc \in {"check", "unlatch", "ungate", "unblock", "listen", "ready"}
    \/ p.kind = "pause" /\ p.pc \in {"shut", "pausing", "close"}
    \/ p.kind = "restart" /\ p.pc \in {"leave", "close", "reopen", "listen", "ready"}
    \/ p.kind = "shutdown" /\ p.pc \in {"leave", "close", "kill"}

\* What is known while command record p is in progress.
StepOK(p) ==
    /\ Fits(p)
    /\ p.pc \in {"idle", "halt", "check", "unlatch", "ungate", "unblock", "shut", "leave"} =>
          Settled
    /\ p.pc = "listen" /\ p.kind # "restart" => Settled
    /\ p.pc \in {"unlatch", "ungate"} /\ p.kind = "enable" => ~latch
    /\ p.pc \in {"ungate", "unblock", "listen", "ready"} => ~latch /\ ~acked
    /\ p.pc \in {"unblock", "listen", "ready"} => gate
    /\ p.kind = "stop" /\ p.pc # "halt" => state = "emergency_stopped"
    /\ p.kind = "stop" /\ p.pc \notin {"halt", "block"} => blocked
    /\ p.kind = "pause" /\ p.pc = "close" => state = "paused"
    /\ p.kind = "shutdown" /\ p.pc # "leave" => state = "stopping"
    /\ p.kind = "restart" /\ p.pc # "leave" => state = "restarting"
    /\ p.kind = "restart" /\ p.pc \in {"close", "reopen"} /\ p.prev = "ready" => gate /\ ~latch
    /\ p.kind = "restart" /\ p.pc \in {"reopen", "listen"} => ~listener
    /\ p.kind = "shutdown" /\ p.pc = "kill" => ~listener
    /\ p.pc = "ready" => listener

\* An acknowledged stop is in force, and recorded for the next launch.
StopRecorded == acked => state # "ready" /\ blocked /\ (latch \/ ~gate)

\* The inductive invariant of one command at a time.
IInv == TypeOK /\ OpenIffReady /\ StopRecorded /\ \A o \in Ops : StepOK(ops[o])

-----------------------------------------------------------------------------
(* Records of commands.                                                    *)

\* No command.
LEMMA NoOpFacts == NoOp \in OpType /\ NoOp.pc = "idle" /\ NoOp.kind = "none"
  BY DEF NoOp, OpType, Steps, States

\* The types of the variables, with the names used here.
LEMMA Types ==
    ASSUME TypeOK
    PROVE  /\ ops \in [Ops -> OpType] /\ lock \subseteq Ops
           /\ state \in States /\ listener \in BOOLEAN /\ latch \in BOOLEAN /\ gate \in BOOLEAN
           /\ blocked \in BOOLEAN /\ damaged \in BOOLEAN /\ fault \in BOOLEAN /\ acked \in BOOLEAN
           /\ calls \in [Calls -> {"idle", "arrived", "admitted"}] /\ tasks \subseteq Calls
  BY DEF TypeOK, OpType

\* What a step may make of the record of its command: put it at step s, put it
\* at another step and note something, or end it.
Becomes(o, q) == ops' = [ops EXCEPT ![o] = q]

LEMMA GotoFacts ==
    ASSUME NEW o \in Ops, ops \in [Ops -> OpType], NEW s \in Steps, Goto(o, s)
    PROVE  \E q \in OpType : /\ Becomes(o, q)
                             /\ q.pc = s /\ q.kind = ops[o].kind /\ q.prev = ops[o].prev
                             /\ q.saved = ops[o].saved
<1> DEFINE q == [ops[o] EXCEPT !.pc = s]
<1>1. ops[o] \in OpType
  OBVIOUS
<1>2. /\ q \in OpType /\ q.pc = s /\ q.kind = ops[o].kind /\ q.prev = ops[o].prev
      /\ q.saved = ops[o].saved
  BY <1>1 DEF OpType
<1>3. ops' = [ops EXCEPT ![o] = q]
  BY DEF Goto
<1> HIDE DEF q
<1> QED
  BY <1>2, <1>3 DEF Becomes

LEMMA DoneFacts ==
    ASSUME NEW o \in Ops, Done(o)
    PROVE  \E q \in OpType : Becomes(o, q) /\ q.pc = "idle" /\ q.kind = "none"
  BY NoOpFacts DEF Done, Becomes

LEMMA BeginFacts ==
    ASSUME NEW o \in Ops, NEW kind \in Kinds, Begin(o, kind)
    PROVE  \E q \in OpType :
              /\ Becomes(o, q) /\ q.kind = kind
              /\ \/ kind = "stop" /\ q.pc = "halt"
                 \/ kind = "resume" /\ q.pc = "unlatch"
                 \/ kind = "enable" /\ q.pc = "check"
                 \/ kind = "pause" /\ q.pc = "shut"
                 \/ kind \in {"restart", "shutdown"} /\ q.pc = "leave"
<1>1. kind \in {"stop", "resume", "enable", "pause", "restart", "shutdown"}
  BY KindsAssumption
<1>2. PICK s : s = Entry[kind]
  OBVIOUS
<1>3. /\ \/ kind = "stop" /\ s = "halt"
         \/ kind = "resume" /\ s = "unlatch"
         \/ kind = "enable" /\ s = "check"
         \/ kind = "pause" /\ s = "shut"
         \/ kind \in {"restart", "shutdown"} /\ s = "leave"
      /\ s \in Steps
  BY <1>1, <1>2 DEF Entry, Steps
<1> DEFINE q == [NoOp EXCEPT !.kind = kind, !.pc = s]
<1>4. q \in OpType /\ q.kind = kind /\ q.pc = s
  BY <1>1, <1>3, NoOpFacts DEF OpType
<1>5. ops' = [ops EXCEPT ![o] = q]
  BY <1>2 DEF Begin
<1> HIDE DEF q
<1> QED
  BY <1>3, <1>4, <1>5 DEF Becomes

LEMMA PersistLatchFacts ==
    ASSUME NEW o \in Ops, TypeOK, PersistLatch(o)
    PROVE  /\ latch' \in BOOLEAN
           /\ \E q \in OpType : Becomes(o, q) /\ q.pc = "gate" /\ q.kind = ops[o].kind
<1>1. PICK ok \in BOOLEAN : /\ latch' = (latch \/ ok)
                            /\ ops' = [ops EXCEPT ![o].pc = "gate", ![o].saved = ok]
  BY DEF PersistLatch
<1> DEFINE q == [ops[o] EXCEPT !.pc = "gate", !.saved = ok]
<1>2. ops[o] \in OpType /\ latch \in BOOLEAN
  BY Types
<1>3. q \in OpType /\ q.pc = "gate" /\ q.kind = ops[o].kind
  BY <1>2 DEF OpType, Steps
<1>4. ops' = [ops EXCEPT ![o] = q]
  BY <1>1
<1> HIDE DEF q
<1> QED
  BY <1>1, <1>2, <1>3, <1>4 DEF Becomes

LEMMA LeaveFacts ==
    ASSUME NEW o \in Ops, TypeOK, Leave(o)
    PROVE  \E q \in OpType : Becomes(o, q) /\ q.pc = "close" /\ q.kind = ops[o].kind /\ q.prev = state
<1> DEFINE q == [ops[o] EXCEPT !.pc = "close", !.prev = state]
<1>1. ops[o] \in OpType /\ state \in States
  BY Types
<1>2. q \in OpType /\ q.pc = "close" /\ q.kind = ops[o].kind /\ q.prev = state
  BY <1>1 DEF OpType, Steps
<1>3. ops' = [ops EXCEPT ![o] = q]
  BY DEF Leave
<1> HIDE DEF q
<1> QED
  BY <1>2, <1>3 DEF Becomes

-----------------------------------------------------------------------------
(* What one step of one command needs to show.                             *)

\* Everything but the progress of the commands and the lock has its type.
Typed == /\ state \in States /\ listener \in BOOLEAN /\ latch \in BOOLEAN /\ gate \in BOOLEAN
         /\ blocked \in BOOLEAN /\ damaged \in BOOLEAN /\ fault \in BOOLEAN /\ acked \in BOOLEAN
         /\ calls \in [Calls -> {"idle", "arrived", "admitted"}] /\ tasks \subseteq Calls

\* Only the record of the command that takes the step changes.
LEMMA BecomesFacts ==
    ASSUME TypeOK, NEW o \in Ops, NEW q \in OpType, Becomes(o, q)
    PROVE  /\ ops' \in [Ops -> OpType] /\ ops'[o] = q
           /\ \A p \in Ops \ {o} : ops'[p] = ops[p]
  BY Types DEF Becomes

\* The invariants that hold for any number of commands.
Common == TypeOK /\ LockInv

\* A step that leaves the lock alone.
LEMMA CommonStep ==
    ASSUME Common, NEW o \in Ops, NEW q \in OpType, Becomes(o, q), Typed', lock' = lock,
           ops[o].pc # "ready", q.pc # "ready"
    PROVE  Common'
<1>1. /\ ops' \in [Ops -> OpType] /\ ops'[o] = q
      /\ \A p \in Ops \ {o} : ops'[p] = ops[p]
  BY BecomesFacts DEF Common
<1>2. TypeOK'
  BY <1>1 DEF Common, TypeOK, Typed, OpType
<1>3. LockInv'
  BY <1>1 DEF Common, LockInv
<1> QED
  BY <1>2, <1>3 DEF Common

\* With one command, its record is all there is to look at.
LEMMA AloneStep ==
    ASSUME OneCommand, TypeOK', NEW o \in Ops, StepOK(ops[o])', StopRecorded'
    PROVE  IInv'
<1>1. \A p \in Ops : p = o
  BY DEF OneCommand
<1>2. ASSUME Quiet' PROVE Settled'
  BY <1>2 DEF Quiet, At, StepOK
<1>3. OpenIffReady'
  BY <1>2 DEF OpenIffReady, Settled
<1> QED
  BY <1>1, <1>3 DEF IInv

\* Both together.
LEMMA Concludes ==
    ASSUME Common, NEW o \in Ops, NEW q \in OpType, Becomes(o, q), Typed', lock' = lock,
           ops[o].pc # "ready", q.pc # "ready", IInv => StepOK(q)' /\ StopRecorded'
    PROVE  Common' /\ (OneCommand /\ IInv => IInv')
<1>1. Common'
  BY CommonStep
<1>2. ASSUME OneCommand, IInv PROVE IInv'
  BY <1>1, <1>2, BecomesFacts, AloneStep DEF Common
<1> QED
  BY <1>1, <1>2

-----------------------------------------------------------------------------
(* emergency_stop                                                          *)

\* The state changes first.
LEMMA HaltStep ==
    ASSUME Common, NEW o \in Ops, Halt(o)
    PROVE  Common' /\ (OneCommand /\ IInv => IInv')
<1>1. /\ ops[o].pc = "halt" /\ state' = "emergency_stopped" /\ Goto(o, "block")
      /\ UNCHANGED <<listener, lock, latch, gate, blocked, damaged, fault, calls, tasks, acked>>
  BY DEF Halt, At, durable, callVars
<1>2. PICK q \in OpType : Becomes(o, q) /\ q.pc = "block" /\ q.kind = ops[o].kind
  BY <1>1, GotoFacts, Types DEF Common, Steps
<1>3. Typed'
  BY <1>1, Types DEF Common, Typed, States
<1>4. IInv => StepOK(q)' /\ StopRecorded'
  BY <1>1, <1>2 DEF IInv, StepOK, Fits, StopRecorded
<1> QED
  BY <1>1, <1>2, <1>3, <1>4, Concludes

\* Then the local MCP gateway is blocked.
LEMMA BlockStep ==
    ASSUME Common, NEW o \in Ops, Block(o)
    PROVE  Common' /\ (OneCommand /\ IInv => IInv')
<1>1. /\ ops[o].pc = "block" /\ blocked' = TRUE /\ Goto(o, "kill")
      /\ UNCHANGED <<state, listener, lock, latch, gate, damaged, fault, calls, tasks, acked>>
  BY DEF Block, At, durable, callVars
<1>2. PICK q \in OpType : Becomes(o, q) /\ q.pc = "kill" /\ q.kind = ops[o].kind
  BY <1>1, GotoFacts, Types DEF Common, Steps
<1>3. Typed'
  BY <1>1, Types DEF Common, Typed
<1>4. IInv => StepOK(q)' /\ StopRecorded'
  BY <1>1, <1>2 DEF IInv, StepOK, Fits, StopRecorded
<1> QED
  BY <1>1, <1>2, <1>3, <1>4, Concludes

\* Then every task is killed; that ends a shutdown.
LEMMA KillStep ==
    ASSUME Common, NEW o \in Ops, Kill(o)
    PROVE  Common' /\ (OneCommand /\ IInv => IInv')
<1>1. /\ ops[o].pc = "kill" /\ tasks' = {}
      /\ IF ops[o].kind = "stop" THEN Goto(o, "latch") ELSE Done(o)
      /\ UNCHANGED <<state, listener, lock, latch, gate, blocked, damaged, fault, calls, acked>>
  BY DEF Kill, At, durable
<1>2. PICK q \in OpType :
         /\ Becomes(o, q)
         /\ \/ ops[o].kind = "stop" /\ q.pc = "latch" /\ q.kind = ops[o].kind
            \/ ops[o].kind # "stop" /\ q.pc = "idle" /\ q.kind = "none"
  <2>1. CASE ops[o].kind = "stop"
    BY <1>1, <2>1, GotoFacts, Types DEF Common, Steps
  <2>2. CASE ops[o].kind # "stop"
    BY <1>1, <2>2, DoneFacts
  <2> QED
    BY <2>1, <2>2
<1>3. Typed'
  BY <1>1, Types DEF Common, Typed
<1>4. IInv => StepOK(q)' /\ StopRecorded'
  BY <1>1, <1>2, Types DEF Common, IInv, StepOK, Fits, StopRecorded, Settled
<1> QED
  BY <1>1, <1>2, <1>3, <1>4, Concludes

\* The latch is written, or not.
LEMMA PersistLatchStep ==
    ASSUME Common, NEW o \in Ops, PersistLatch(o)
    PROVE  Common' /\ (OneCommand /\ IInv => IInv')
<1>1. /\ ops[o].pc = "latch"
      /\ UNCHANGED <<state, listener, lock, gate, blocked, damaged, fault, calls, tasks, acked>>
  BY DEF PersistLatch, At, callVars
<1>2. PICK q \in OpType : Becomes(o, q) /\ q.pc = "gate" /\ q.kind = ops[o].kind
  BY PersistLatchFacts DEF Common
<1>3. Typed' /\ (latch => latch')
  BY <1>1, PersistLatchFacts, Types DEF Common, Typed, PersistLatch
<1>4. IInv => StepOK(q)' /\ StopRecorded'
  BY <1>1, <1>2, <1>3 DEF IInv, StepOK, Fits, StopRecorded
<1> QED
  BY <1>1, <1>2, <1>3, <1>4, Concludes

\* The gate is shut, or not.
LEMMA PersistGateStep ==
    ASSUME Common, NEW o \in Ops, PersistGate(o)
    PROVE  Common' /\ (OneCommand /\ IInv => IInv')
<1>1. /\ ops[o].pc = "gate" /\ Goto(o, "close")
      /\ UNCHANGED <<state, listener, lock, latch, blocked, damaged, calls, tasks, acked>>
  BY DEF PersistGate, At, callVars
<1>2. PICK q \in OpType : Becomes(o, q) /\ q.pc = "close" /\ q.kind = ops[o].kind
  BY <1>1, GotoFacts, Types DEF Common, Steps
<1>3. Typed' /\ (gate' => gate)
  BY <1>1, Types DEF Common, Typed, PersistGate
<1>4. IInv => StepOK(q)' /\ StopRecorded'
  BY <1>1, <1>2, <1>3 DEF IInv, StepOK, Fits, StopRecorded
<1> QED
  BY <1>1, <1>2, <1>3, <1>4, Concludes

\* The listener is closed; a stop that is recorded is acknowledged.
LEMMA CloseStep ==
    ASSUME Common, NEW o \in Ops, Close(o)
    PROVE  Common' /\ (OneCommand /\ IInv => IInv')
<1>1. /\ ops[o].pc = "close" /\ listener' = FALSE
      /\ acked' = (acked \/ (ops[o].kind = "stop" /\ (latch \/ ~gate)))
      /\ UNCHANGED <<state, lock, latch, gate, blocked, damaged, fault, calls, tasks>>
  BY DEF Close, At, durable, callVars
<1>2. PICK q \in OpType :
         /\ Becomes(o, q)
         /\ \/ /\ ops[o].kind = "restart" /\ q.pc = "reopen" /\ q.kind = ops[o].kind
               /\ q.prev = ops[o].prev
            \/ ops[o].kind = "shutdown" /\ q.pc = "kill" /\ q.kind = ops[o].kind
            \/ ops[o].kind \notin {"restart", "shutdown"} /\ q.pc = "idle" /\ q.kind = "none"
  <2>1. CASE ops[o].kind = "restart"
    <3>1. Goto(o, "reopen")
      BY <2>1 DEF Close
    <3> QED
      BY <2>1, <3>1, GotoFacts, Types DEF Common, Steps
  <2>2. CASE ops[o].kind = "shutdown"
    <3>1. Goto(o, "kill")
      BY <2>2 DEF Close
    <3> QED
      BY <2>2, <3>1, GotoFacts, Types DEF Common, Steps
  <2>3. CASE ops[o].kind \notin {"restart", "shutdown"}
    <3>1. Done(o)
      BY <2>3 DEF Close
    <3> QED
      BY <2>3, <3>1, DoneFacts
  <2> QED
    BY <2>1, <2>2, <2>3
<1>3. Typed'
  BY <1>1, Types DEF Common, Typed
<1>4. IInv => StepOK(q)' /\ StopRecorded'
  BY <1>1, <1>2, Types DEF Common, IInv, StepOK, Fits, StopRecorded, Settled
<1> QED
  BY <1>1, <1>2, <1>3, <1>4, Concludes

-----------------------------------------------------------------------------
(* enable_remote_access and resume_remote_access                           *)

\* The toggle goes on only without a latch.
LEMMA CheckLatchStep ==
    ASSUME Common, NEW o \in Ops, CheckLatch(o)
    PROVE  Common' /\ (OneCommand /\ IInv => IInv')
<1>1. /\ ops[o].pc = "check"
      /\ UNCHANGED <<state, listener, lock, latch, gate, blocked, damaged, fault, calls, tasks,
                     acked>>
      /\ Done(o) \/ (~latch /\ Goto(o, "unlatch"))
  <2>1. PICK seen \in LatchReads : IF seen THEN Done(o) ELSE Goto(o, "unlatch")
    BY DEF CheckLatch
  <2>2. ~seen => ~latch
    BY Types DEF Common, LatchReads
  <2>3. Done(o) \/ (~latch /\ Goto(o, "unlatch"))
    BY <2>1, <2>2
  <2> QED
    BY <2>3 DEF CheckLatch, At, durable, callVars
<1>2. PICK q \in OpType :
         /\ Becomes(o, q)
         /\ \/ ~latch /\ q.pc = "unlatch" /\ q.kind = ops[o].kind
            \/ q.pc = "idle" /\ q.kind = "none"
  <2>1. CASE Done(o)
    BY <2>1, DoneFacts
  <2>2. CASE ~latch /\ Goto(o, "unlatch")
    BY <2>2, GotoFacts, Types DEF Common, Steps
  <2> QED
    BY <1>1, <2>1, <2>2
<1>3. Typed'
  BY <1>1, Types DEF Common, Typed
<1>4. IInv => StepOK(q)' /\ StopRecorded'
  BY <1>1, <1>2 DEF IInv, StepOK, Fits, StopRecorded, Settled
<1> QED
  BY <1>1, <1>2, <1>3, <1>4, Concludes

\* A command that gives up leaves a settled server.
LEMMA AbortStep ==
    ASSUME Common, NEW o \in Ops, Abort(o)
    PROVE  Common' /\ (OneCommand /\ IInv => IInv')
<1>1. /\ ops[o].pc \in {"unlatch", "ungate", "unblock", "shut"} /\ Done(o)
      /\ UNCHANGED <<state, listener, lock, latch, gate, blocked, damaged, fault, calls, tasks,
                     acked>>
  BY DEF Abort, durable, callVars
<1>2. PICK q \in OpType : Becomes(o, q) /\ q.pc = "idle" /\ q.kind = "none"
  BY <1>1, DoneFacts
<1>3. Typed'
  BY <1>1, Types DEF Common, Typed
<1>4. IInv => StepOK(q)' /\ StopRecorded'
  BY <1>1, <1>2 DEF IInv, StepOK, Fits, StopRecorded, Settled
<1> QED
  BY <1>1, <1>2, <1>3, <1>4, Concludes

\* Clearing the latch ends the acknowledged stop.
LEMMA ClearLatchStep ==
    ASSUME Common, NEW o \in Ops, ClearLatch(o)
    PROVE  Common' /\ (OneCommand /\ IInv => IInv')
<1>1. /\ ops[o].pc = "unlatch" /\ latch' = FALSE /\ Goto(o, "ungate")
      /\ acked' = (acked /\ latch /\ ops[o].kind # "resume")
      /\ UNCHANGED <<state, listener, lock, gate, blocked, damaged, fault, calls, tasks>>
  BY DEF ClearLatch, At, callVars
<1>2. PICK q \in OpType : Becomes(o, q) /\ q.pc = "ungate" /\ q.kind = ops[o].kind
  BY <1>1, GotoFacts, Types DEF Common, Steps
<1>3. Typed'
  BY <1>1, Types DEF Common, Typed
<1>4. IInv => StepOK(q)' /\ StopRecorded'
  <2> SUFFICES ASSUME IInv PROVE StepOK(q)' /\ StopRecorded'
    OBVIOUS
  <2>1. ops[o].kind \in {"resume", "enable"} /\ (ops[o].kind = "enable" => ~latch) /\ Settled
    BY <1>1 DEF IInv, StepOK, Fits
  <2>2. acked' = FALSE
    BY <1>1, <2>1
  <2>3. Settled'
    BY <1>1, <2>1 DEF Settled
  <2> QED
    BY <1>1, <1>2, <2>1, <2>2, <2>3 DEF StepOK, Fits, StopRecorded
<1> QED
  BY <1>1, <1>2, <1>3, <1>4, Concludes

\* The gate opens.
LEMMA OpenGateStep ==
    ASSUME Common, NEW o \in Ops, OpenGate(o)
    PROVE  Common' /\ (OneCommand /\ IInv => IInv')
<1>1. /\ ops[o].pc = "ungate" /\ gate' = TRUE /\ Goto(o, "unblock")
      /\ UNCHANGED <<state, listener, lock, latch, blocked, damaged, fault, calls, tasks, acked>>
  BY DEF OpenGate, At, callVars
<1>2. PICK q \in OpType : Becomes(o, q) /\ q.pc = "unblock" /\ q.kind = ops[o].kind
  BY <1>1, GotoFacts, Types DEF Common, Steps
<1>3. Typed'
  BY <1>1, Types DEF Common, Typed
<1>4. IInv => StepOK(q)' /\ StopRecorded'
  BY <1>1, <1>2 DEF IInv, StepOK, Fits, StopRecorded, Settled
<1> QED
  BY <1>1, <1>2, <1>3, <1>4, Concludes

\* The gateway may start servers again.
LEMMA UnblockStep ==
    ASSUME Common, NEW o \in Ops, Unblock(o)
    PROVE  Common' /\ (OneCommand /\ IInv => IInv')
<1>1. /\ ops[o].pc = "unblock" /\ blocked' = FALSE /\ Goto(o, "listen")
      /\ UNCHANGED <<state, listener, lock, latch, gate, damaged, fault, calls, tasks, acked>>
  BY DEF Unblock, At, durable, callVars
<1>2. PICK q \in OpType : Becomes(o, q) /\ q.pc = "listen" /\ q.kind = ops[o].kind
  BY <1>1, GotoFacts, Types DEF Common, Steps
<1>3. Typed'
  BY <1>1, Types DEF Common, Typed
<1>4. IInv => StepOK(q)' /\ StopRecorded'
  BY <1>1, <1>2 DEF IInv, StepOK, Fits, StopRecorded, Settled
<1> QED
  BY <1>1, <1>2, <1>3, <1>4, Concludes

\* start_http finds a listener, binds one under the lock, or fails.
LEMMA ListenStep ==
    ASSUME Common, NEW o \in Ops, Listen(o)
    PROVE  Common' /\ (OneCommand /\ IInv => IInv')
<1>1. /\ ops[o].pc = "listen" /\ lock = {}
      /\ UNCHANGED <<latch, gate, blocked, damaged, calls, tasks, acked>>
  BY DEF Listen, At, durable, callVars
<1>2. CASE listener /\ Done(o) /\ UNCHANGED <<state, listener, lock, fault>>
  <2>1. PICK q \in OpType : Becomes(o, q) /\ q.pc = "idle" /\ q.kind = "none"
    BY <1>2, DoneFacts
  <2>2. Typed'
    BY <1>1, <1>2, Types DEF Common, Typed
  <2>3. IInv => StepOK(q)' /\ StopRecorded'
    BY <1>1, <1>2, <2>1 DEF IInv, StepOK, Fits, StopRecorded, Settled
  <2> QED
    BY <1>1, <1>2, <2>1, <2>2, <2>3, Concludes
<1>3. CASE /\ ~listener /\ listener' = TRUE /\ lock' = {o} /\ Goto(o, "ready")
           /\ UNCHANGED <<state, fault>>
  <2>1. PICK q \in OpType : Becomes(o, q) /\ q.pc = "ready" /\ q.kind = ops[o].kind
    BY <1>3, GotoFacts, Types DEF Common, Steps
  <2>2. /\ ops' \in [Ops -> OpType] /\ ops'[o] = q
        /\ \A p \in Ops \ {o} : ops'[p] = ops[p]
    BY <2>1, BecomesFacts DEF Common
  <2>3. TypeOK'
    BY <1>1, <1>3, <2>2 DEF Common, TypeOK, OpType
  <2>4. LockInv'
    BY <1>1, <1>3, <2>1, <2>2 DEF Common, LockInv
  <2>5. ASSUME OneCommand, IInv PROVE IInv'
    <3>1. StepOK(q)' /\ StopRecorded'
      BY <1>1, <1>3, <2>1, <2>5 DEF IInv, StepOK, Fits, StopRecorded
    <3> QED
      BY <2>2, <2>3, <2>5, <3>1, AloneStep
  <2> QED
    BY <2>3, <2>4, <2>5 DEF Common
<1>4. CASE /\ ~listener /\ Done(o) /\ UNCHANGED <<listener, lock>>
           /\ IF ops[o].kind = "restart" THEN state' = "faulted" /\ fault' = TRUE
                                         ELSE UNCHANGED <<state, fault>>
  <2>1. PICK q \in OpType : Becomes(o, q) /\ q.pc = "idle" /\ q.kind = "none"
    BY <1>4, DoneFacts
  <2>2. /\ \/ ops[o].kind = "restart" /\ state' = "faulted"
           \/ ops[o].kind # "restart" /\ state' = state
        /\ Typed'
    BY <1>1, <1>4, Types DEF Common, Typed, States
  <2>3. IInv => StepOK(q)' /\ StopRecorded'
    BY <1>1, <1>4, <2>1, <2>2 DEF IInv, StepOK, Fits, StopRecorded, Settled
  <2> QED
    BY <1>1, <1>4, <2>1, <2>2, <2>3, Concludes
<1> QED
  BY <1>2, <1>3, <1>4 DEF Listen

\* The listener is bound, so the server is Ready; the lock is released.
LEMMA MarkReadyStep ==
    ASSUME Common, NEW o \in Ops, MarkReady(o)
    PROVE  Common' /\ (OneCommand /\ IInv => IInv')
<1>1. /\ ops[o].pc = "ready" /\ state' = "ready" /\ fault' = FALSE /\ lock' = {} /\ Done(o)
      /\ UNCHANGED <<listener, latch, gate, blocked, damaged, calls, tasks, acked>>
  BY DEF MarkReady, At, durable, callVars
<1>2. PICK q \in OpType : Becomes(o, q) /\ q.pc = "idle" /\ q.kind = "none"
  BY <1>1, DoneFacts
<1>3. /\ ops' \in [Ops -> OpType] /\ ops'[o] = q
      /\ \A p \in Ops \ {o} : ops'[p] = ops[p]
  BY <1>2, BecomesFacts DEF Common
<1>4. TypeOK'
  BY <1>1, <1>3 DEF Common, TypeOK, OpType, States
<1>5. LockInv'
  <2>1. \A p \in Ops \ {o} : ops[p].pc # "ready"
    BY <1>1, Types DEF Common, LockInv
  <2> QED
    BY <1>1, <1>2, <1>3, <2>1 DEF LockInv
<1>6. ASSUME OneCommand, IInv PROVE IInv'
  <2>1. StepOK(q)' /\ StopRecorded'
    BY <1>1, <1>2, <1>6 DEF IInv, StepOK, Fits, StopRecorded, Settled
  <2> QED
    BY <1>3, <1>4, <1>6, <2>1, AloneStep
<1> QED
  BY <1>4, <1>5, <1>6 DEF Common

-----------------------------------------------------------------------------
(* pause_remote_access, restart_mcp and shutdown                           *)

\* The gate is shut before the state changes.
LEMMA ShutGateStep ==
    ASSUME Common, NEW o \in Ops, ShutGate(o)
    PROVE  Common' /\ (OneCommand /\ IInv => IInv')
<1>1. /\ ops[o].pc = "shut" /\ gate' = FALSE /\ Goto(o, "pausing")
      /\ UNCHANGED <<state, listener, lock, latch, blocked, damaged, fault, calls, tasks, acked>>
  BY DEF ShutGate, At, callVars
<1>2. PICK q \in OpType : Becomes(o, q) /\ q.pc = "pausing" /\ q.kind = ops[o].kind
  BY <1>1, GotoFacts, Types DEF Common, Steps
<1>3. Typed'
  BY <1>1, Types DEF Common, Typed
<1>4. IInv => StepOK(q)' /\ StopRecorded'
  BY <1>1, <1>2 DEF IInv, StepOK, Fits, StopRecorded, Settled
<1> QED
  BY <1>1, <1>2, <1>3, <1>4, Concludes

\* Paused, with the listener still to close.
LEMMA PauseStep ==
    ASSUME Common, NEW o \in Ops, Pause(o)
    PROVE  Common' /\ (OneCommand /\ IInv => IInv')
<1>1. /\ ops[o].pc = "pausing" /\ state' = "paused" /\ Goto(o, "close")
      /\ UNCHANGED <<listener, lock, latch, gate, blocked, damaged, fault, calls, tasks, acked>>
  BY DEF Pause, At, durable, callVars
<1>2. PICK q \in OpType : Becomes(o, q) /\ q.pc = "close" /\ q.kind = ops[o].kind
  BY <1>1, GotoFacts, Types DEF Common, Steps
<1>3. Typed'
  BY <1>1, Types DEF Common, Typed, States
<1>4. IInv => StepOK(q)' /\ StopRecorded'
  BY <1>1, <1>2 DEF IInv, StepOK, Fits, StopRecorded, Settled
<1> QED
  BY <1>1, <1>2, <1>3, <1>4, Concludes

\* A restart remembers the state it leaves.
LEMMA LeaveStep ==
    ASSUME Common, NEW o \in Ops, Leave(o)
    PROVE  Common' /\ (OneCommand /\ IInv => IInv')
<1>1. /\ ops[o].pc = "leave"
      /\ \/ ops[o].kind = "restart" /\ state' = "restarting"
         \/ ops[o].kind # "restart" /\ state' = "stopping"
      /\ UNCHANGED <<listener, lock, latch, gate, blocked, damaged, fault, calls, tasks, acked>>
  BY DEF Leave, At, durable, callVars
<1>2. PICK q \in OpType :
         Becomes(o, q) /\ q.pc = "close" /\ q.kind = ops[o].kind /\ q.prev = state
  BY LeaveFacts DEF Common
<1>3. Typed'
  BY <1>1, Types DEF Common, Typed, States
<1>4. IInv => StepOK(q)' /\ StopRecorded'
  BY <1>1, <1>2 DEF IInv, StepOK, Fits, StopRecorded, Settled
<1> QED
  BY <1>1, <1>2, <1>3, <1>4, Concludes

\* It goes on to listen only without a latch, and if the gate is open.
LEMMA ReopenStep ==
    ASSUME Common, NEW o \in Ops, Reopen(o)
    PROVE  Common' /\ (OneCommand /\ IInv => IInv')
<1>1. /\ ops[o].pc = "reopen"
      /\ UNCHANGED <<listener, lock, latch, gate, blocked, damaged, fault, calls, tasks, acked>>
  BY DEF Reopen, At, durable, callVars
<1>2. \/ state' \in {"emergency_stopped", "paused"} /\ Done(o)
      \/ /\ ~latch /\ Goto(o, "listen") /\ UNCHANGED state
         /\ ops[o].prev = "ready" \/ gate
  <2>1. PICK seen \in LatchReads :
           LET stopped == ops[o].prev = "emergency_stopped" \/ seen
               wanted  == ops[o].prev = "ready" \/ (gate /\ ~damaged)
           IN  \/ stopped /\ state' = "emergency_stopped" /\ Done(o)
               \/ ~stopped /\ wanted /\ Goto(o, "listen") /\ UNCHANGED state
               \/ ~stopped /\ ~wanted /\ state' = "paused" /\ Done(o)
    BY DEF Reopen
  <2>2. ~seen => ~latch
    BY Types DEF Common, LatchReads
  <2> QED
    BY <2>1, <2>2
<1>3. CASE state' \in {"emergency_stopped", "paused"} /\ Done(o)
  <2>1. PICK q \in OpType : Becomes(o, q) /\ q.pc = "idle" /\ q.kind = "none"
    BY <1>3, DoneFacts
  <2>2. Typed'
    BY <1>1, <1>3, Types DEF Common, Typed, States
  <2>3. IInv => StepOK(q)' /\ StopRecorded'
    BY <1>1, <1>3, <2>1, Types DEF Common, IInv, StepOK, Fits, StopRecorded, Settled
  <2> QED
    BY <1>1, <2>1, <2>2, <2>3, Concludes
<1>4. CASE /\ ~latch /\ Goto(o, "listen") /\ UNCHANGED state
           /\ ops[o].prev = "ready" \/ gate
  <2>1. PICK q \in OpType : Becomes(o, q) /\ q.pc = "listen" /\ q.kind = ops[o].kind
    BY <1>4, GotoFacts, Types DEF Common, Steps
  <2>2. Typed'
    BY <1>1, <1>4, Types DEF Common, Typed
  <2>3. IInv => StepOK(q)' /\ StopRecorded'
    BY <1>1, <1>4, <2>1 DEF IInv, StepOK, Fits, StopRecorded
  <2> QED
    BY <1>1, <2>1, <2>2, <2>3, Concludes
<1> QED
  BY <1>2, <1>3, <1>4

-----------------------------------------------------------------------------
(* Commands given, calls, and the next launch.                             *)

\* A command starts on a settled server.
LEMMA BeginStep ==
    ASSUME Common, NEW o \in Ops, NEW kind \in Kinds, Begin(o, kind)
    PROVE  Common' /\ (OneCommand /\ IInv => IInv')
<1>1. /\ ops[o].pc = "idle"
      /\ UNCHANGED <<state, listener, lock, latch, gate, blocked, damaged, fault, calls, tasks,
                     acked>>
  BY DEF Begin, At, durable, callVars
<1>2. PICK q \in OpType :
         /\ Becomes(o, q) /\ q.kind = kind
         /\ \/ kind = "stop" /\ q.pc = "halt"
            \/ kind = "resume" /\ q.pc = "unlatch"
            \/ kind = "enable" /\ q.pc = "check"
            \/ kind = "pause" /\ q.pc = "shut"
            \/ kind \in {"restart", "shutdown"} /\ q.pc = "leave"
  BY BeginFacts
<1>3. Typed'
  BY <1>1, Types DEF Common, Typed
<1>4. IInv => StepOK(q)' /\ StopRecorded'
  BY <1>1, <1>2 DEF IInv, StepOK, Fits, StopRecorded, Settled
<1> QED
  BY <1>1, <1>2, <1>3, <1>4, Concludes

\* Calls, tasks and settings touch nothing of this.
LEMMA OutsideStep ==
    ASSUME Common, UNCHANGED <<state, listener, lock, latch, gate, blocked, ops, acked>>,
           damaged' \in BOOLEAN, fault' \in BOOLEAN,
           calls' \in [Calls -> {"idle", "arrived", "admitted"}], tasks' \subseteq Calls
    PROVE  Common' /\ (IInv => IInv')
<1>1. TypeOK'
  BY DEF Common, TypeOK
<1>2. LockInv'
  BY DEF Common, LockInv
<1>3. ASSUME IInv PROVE IInv'
  <2>1. StopRecorded' /\ OpenIffReady'
    BY <1>3 DEF IInv, StopRecorded, OpenIffReady, Quiet, At
  <2>2. ASSUME NEW o \in Ops PROVE StepOK(ops[o])'
    <3>1. StepOK(ops[o]) /\ ops'[o] = ops[o]
      BY <1>3 DEF IInv
    <3> QED
      BY <3>1 DEF StepOK, Settled
  <2> QED
    BY <1>1, <2>1, <2>2 DEF IInv
<1> QED
  BY <1>1, <1>2, <1>3 DEF Common

\* A tool call takes a step.
LEMMA CallStep ==
    ASSUME Common, NEW c \in Calls,
           Arrive(c) \/ Admit(c) \/ TaskExit(c) \/ \E launched \in BOOLEAN : Finish(c, launched)
    PROVE  Common' /\ (IInv => IInv')
<1>1. /\ UNCHANGED <<state, listener, lock, latch, gate, blocked, damaged, fault, ops, acked>>
      /\ calls' \in [Calls -> {"idle", "arrived", "admitted"}] /\ tasks' \subseteq Calls
  BY Types DEF Common, Arrive, Admit, TaskExit, Finish, durable
<1> QED
  BY <1>1, OutsideStep, Types DEF Common

\* A launch makes the server Ready only with an open gate and a latch that was
\* read as clear, and nobody holds the lock.
LEMMA RelaunchStep ==
    ASSUME Common, Relaunch
    PROVE  Common' /\ (IInv => IInv')
<1>1. PICK seen \in LatchReads, broken \in BOOLEAN, bound \in BOOLEAN :
         Launch(seen, broken, bound)
  BY DEF Relaunch
<1>2. UNCHANGED <<latch, gate, acked>>
  BY DEF Relaunch, durable
<1>3. seen \in BOOLEAN /\ (latch => seen)
  <2>1. latch \in BOOLEAN
    BY Types DEF Common
  <2>2. seen = latch \/ seen = TRUE
    BY DEF LatchReads
  <2>3. seen \in BOOLEAN
    BY <2>1, <2>2
  <2>4. latch => seen
    BY <2>1, <2>2, Zenon
  <2> QED
    BY <2>3, <2>4
<1>4. /\ state' = Startup(seen, broken, bound) /\ listener' = (state' = "ready") /\ lock' = {}
      /\ blocked' = TRUE /\ damaged' = broken /\ fault' = (state' = "faulted")
      /\ ops' = [o \in Ops |-> NoOp] /\ calls' = [c \in Calls |-> "idle"] /\ tasks' = {}
  BY <1>1 DEF Launch
<1>5. /\ state' \in {"emergency_stopped", "faulted", "ready", "paused"}
      /\ state' = "ready" => gate /\ ~seen
  BY <1>3, <1>4, Types DEF Common, Startup
<1>6. ops' \in [Ops -> OpType] /\ \A o \in Ops : ops'[o] = NoOp
  BY <1>4, NoOpFacts
<1>7. TypeOK'
  <2>1. /\ state' \in States /\ listener' \in BOOLEAN /\ fault' \in BOOLEAN /\ damaged' \in BOOLEAN
        /\ lock' \in SUBSET Ops /\ blocked' \in BOOLEAN /\ tasks' \in SUBSET Calls
        /\ calls' \in [Calls -> {"idle", "arrived", "admitted"}]
    BY <1>4, <1>5 DEF States
  <2> QED
    BY <1>2, <1>6, <2>1 DEF Common, TypeOK, OpType
<1>8. LockInv'
  BY <1>4, <1>6, NoOpFacts DEF LockInv
<1>9. ASSUME IInv PROVE IInv'
  <2>1. Settled'
    BY <1>2, <1>3, <1>4, <1>5 DEF Settled
  <2>2. OpenIffReady'
    BY <2>1 DEF OpenIffReady, Settled
  <2>3. StopRecorded'
    BY <1>2, <1>3, <1>4, <1>5, <1>9 DEF IInv, StopRecorded
  <2>4. ASSUME NEW o \in Ops PROVE StepOK(ops[o])'
    BY <1>6, <2>1, NoOpFacts DEF StepOK, Fits
  <2> QED
    BY <1>7, <2>2, <2>3, <2>4 DEF IInv
<1> QED
  BY <1>7, <1>8, <1>9 DEF Common

-----------------------------------------------------------------------------
(* The theorems.                                                           *)

LEMMA InitAll == Init => Common /\ IInv
<1> SUFFICES ASSUME Init PROVE Common /\ IInv
  OBVIOUS
<1>1. ops \in [Ops -> OpType] /\ \A o \in Ops : ops[o] = NoOp
  BY NoOpFacts DEF Init
<1>2. TypeOK
  BY <1>1 DEF Init, TypeOK, OpType, States
<1>3. LockInv
  BY <1>1, NoOpFacts DEF Init, LockInv
<1>4. Settled /\ OpenIffReady /\ StopRecorded
  BY DEF Init, Settled, OpenIffReady, StopRecorded
<1>5. ASSUME NEW o \in Ops PROVE StepOK(ops[o])
  BY <1>1, <1>4, NoOpFacts DEF StepOK, Fits
<1> QED
  BY <1>2, <1>3, <1>4, <1>5 DEF Common, IInv

LEMMA NextAll ==
    ASSUME Common, [Next]_vars
    PROVE  Common' /\ (OneCommand /\ IInv => IInv')
<1>1. ASSUME NEW o \in Ops, Progress(o) PROVE Common' /\ (OneCommand /\ IInv => IInv')
  <2>1. CASE Halt(o) \/ Block(o) \/ Kill(o) \/ PersistLatch(o) \/ PersistGate(o) \/ Close(o)
    BY <2>1, HaltStep, BlockStep, KillStep, PersistLatchStep, PersistGateStep, CloseStep
  <2>2. CASE \/ CheckLatch(o) \/ Abort(o) \/ ClearLatch(o) \/ OpenGate(o) \/ Unblock(o)
             \/ Listen(o) \/ MarkReady(o)
    BY <2>2, CheckLatchStep, AbortStep, ClearLatchStep, OpenGateStep, UnblockStep, ListenStep,
       MarkReadyStep
  <2>3. CASE ShutGate(o) \/ Pause(o) \/ Leave(o) \/ Reopen(o)
    BY <2>3, ShutGateStep, PauseStep, LeaveStep, ReopenStep
  <2> QED
    BY <1>1, <2>1, <2>2, <2>3 DEF Progress
<1>2. ASSUME NEW o \in Ops, NEW kind \in Kinds, Begin(o, kind)
      PROVE  Common' /\ (OneCommand /\ IInv => IInv')
  BY <1>2, BeginStep
<1>3. ASSUME NEW c \in Calls,
             Arrive(c) \/ Admit(c) \/ TaskExit(c) \/ \E launched \in BOOLEAN : Finish(c, launched)
      PROVE  Common' /\ (OneCommand /\ IInv => IInv')
  BY <1>3, CallStep
<1>4. CASE SaveSettings
  <2>1. /\ UNCHANGED <<state, listener, lock, latch, gate, blocked, fault, ops, calls, tasks, acked>>
        /\ damaged' \in BOOLEAN
    BY <1>4 DEF SaveSettings, durable, callVars
  <2> QED
    BY <2>1, OutsideStep, Types DEF Common
<1>5. CASE Relaunch
  BY <1>5, RelaunchStep
<1>6. CASE UNCHANGED vars
  <2>1. UNCHANGED <<state, listener, lock, latch, gate, blocked, damaged, fault, ops, calls, tasks,
                    acked>>
    BY <1>6 DEF vars
  <2> QED
    BY <2>1, OutsideStep, Types DEF Common
<1> QED
  BY <1>1, <1>2, <1>3, <1>4, <1>5, <1>6 DEF Next

\* What holds for any number of commands in progress.
THEOREM CommonInvariance == Spec => []Common
<1>1. Init => Common
  BY InitAll
<1>2. Common /\ [Next]_vars => Common'
  BY NextAll
<1> QED
  BY <1>1, <1>2, PTL DEF Spec

\* The shared Core (state.rs, lib.rs) keeps its types, for any number of
\* commands in progress at once.
THEOREM TypeCorrect == Spec => []TypeOK
<1>1. Common => TypeOK
  BY DEF Common
<1> QED
  BY <1>1, CommonInvariance, PTL

\* start_http holds the lock of the handle from binding the listener to
\* reporting Ready, one command at a time and never past its end: nobody waits
\* for a lock that no command in progress will release.
THEOREM LockIsReleased == Spec => []LockInv
<1>1. Common => LockInv
  BY DEF Common
<1> QED
  BY <1>1, CommonInvariance, PTL

\* The inductive invariant of commands given one at a time.
THEOREM Invariance == ASSUME OneCommand PROVE Spec => [](Common /\ IInv)
<1>1. Init => Common /\ IInv
  BY InitAll
<1>2. (Common /\ IInv) /\ [Next]_vars => (Common /\ IInv)'
  BY NextAll
<1> QED
  BY <1>1, <1>2, PTL DEF Spec

\* With commands given one at a time, between commands the listener is up
\* exactly when the server is Ready and then the gate is open and no latch set,
\* whichever write failed and wherever the process was cut off (Core::start).
THEOREM ListenerFollowsState == ASSUME OneCommand PROVE Spec => []OpenIffReady
<1>1. IInv => OpenIffReady
  BY DEF IInv
<1> QED
  BY <1>1, Invariance, PTL

\* With commands given one at a time, an Emergency Stop that was acknowledged
\* stays in force through failures, restarts of the MCP server and relaunches
\* of the process, until a Resume.
THEOREM StopIsKept == ASSUME OneCommand PROVE Spec => []StopHolds
<1>1. IInv => StopHolds
  BY DEF IInv, StopRecorded, OpenIffReady, StopHolds
<1> QED
  BY <1>1, Invariance, PTL

\* "Restart never clears Emergency Stop" (lib.rs) is true of commands given one
\* at a time: what breaks it is a second command during the restart.
THEOREM RestartAloneKeepsStop == ASSUME OneCommand PROVE Spec => []RestartKeepsStop
<1>1. IInv => RestartKeepsStop
  BY DEF IInv, OpenIffReady, RestartKeepsStop
<1> QED
  BY <1>1, Invariance, PTL
=============================================================================
