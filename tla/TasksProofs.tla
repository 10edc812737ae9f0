----------------------------- MODULE TasksProofs -----------------------------
(***************************************************************************)
(* Proofs about module Tasks, for any number of clients and tasks, any     *)
(* lease of at least two ticks and both settings of AllowMultiple.         *)
(*                                                                         *)
(* The properties need what the stage of a task says about the rest of its *)
(* state (StageInv), that a task keeps a request to stop until its status  *)
(* is stored (StopInv), that all leases, the expired ones included, belong *)
(* to one client (HolderInv), and how much of its lease a task has left    *)
(* before and after a heartbeat (LeaseInv).                                *)
(***************************************************************************)
EXTENDS Tasks, TLAPS

Early    == {"new", "guard", "insert", "spawn", "pid", "register"}
Watched  == {"watch", "wait", "store", "remove"}
Unstored == {"watch", "wait", "store"}

\* The stage of a task determines whether it is in the map, whether its tree
\* may be alive, and whether its row may be final.
StageOK(t) ==
    /\ stage[t] # "new" => owner[t] \in Clients
    /\ stage[t] \in {"new", "guard", "insert"} => row[t] = "none"
    /\ stage[t] \in Early => t \notin running
    /\ stage[t] \in Watched => t \in running
    /\ stage[t] \in {"spawn", "pid", "register", "watch", "wait", "store"} => row[t] = "running"
    /\ stage[t] \in {"new", "guard", "insert", "spawn", "store", "remove", "notify"} =>
          job[t] # "live"
    /\ t \in running => stage[t] # "notify" /\ (stage[t] = "done" => t \in broken)
    /\ t \in finished => stage[t] = "done" /\ t \notin running
    /\ t \in grace => t \in running
    /\ (stage[t] = "done" /\ job[t] = "live") => t \in running
    /\ job[t] = "live" => row[t] = "running"

StageInv == \A t \in TaskIds : StageOK(t)

\* A stopped task has reached the map, and carries the request until its
\* status is stored.
StopOK(t) ==
    t \in stopped =>
        /\ stage[t] \notin Early
        /\ stage[t] \in Unstored => kill[t] # "none" \/ t \in cancelling
        /\ row[t] \notin {"completed", "failed"}

StopInv == \A t \in TaskIds : StopOK(t)

\* All leases, expired or not, belong to one client.
HolderInv == ~AllowMultiple => \A l, m \in leases : l.client = m.client

\* The tasks that a lease protects: past the guard and not yet out of the map.
Protected(t) == stage[t] \in {"insert", "spawn", "pid", "register", "watch"} \/ t \in running

\* Right after a heartbeat, and during its launch, a task has two ticks left; a
\* running task whose heartbeat is due has at least one.
LeaseOK(t) ==
    (Protected(t) /\ t \notin revoked) =>
        \E l \in leases : /\ l.task = t
                          /\ l.client = owner[t]
                          /\ l.left >= IF due /\ t \in running THEN 1 ELSE 2

LeaseInv == \A t \in TaskIds : LeaseOK(t)

IInv == TypeOK /\ StageInv /\ StopInv /\ HolderInv /\ LeaseInv

-----------------------------------------------------------------------------
\* What terminate does to the tasks it is called for, and to the others.
LEMMA TerminateFacts ==
    ASSUME TypeOK, NEW S \in SUBSET TaskIds, NEW reason \in StopReasons,
           Terminate(S, reason)
    PROVE  /\ kill' \in [TaskIds -> {"none"} \cup StopReasons]
           /\ job' \in [TaskIds -> {"none", "live", "ok", "failed"}]
           /\ stopped' \in SUBSET TaskIds
           /\ \A t \in TaskIds :
                /\ job'[t] = "live" => job[t] = "live"
                /\ t \in S => kill'[t] # "none"
                /\ t \notin S => kill'[t] = kill[t] /\ job'[t] = job[t]
                /\ t \in stopped' => t \in stopped \/ (t \in S /\ job[t] = "live")
  BY DEF Terminate, TypeOK, StopReasons

\* Leases granted by acquire.
LEMMA GrantFacts ==
    ASSUME TypeOK, NEW c \in Clients, NEW t \in TaskIds \cup {None}, Grant(c, t)
    PROVE  /\ leases' \in SUBSET Lease
           /\ \A l \in leases' : l \in Unexpired \/ l = [client |-> c, task |-> t, left |-> Ttl]
           /\ [client |-> c, task |-> t, left |-> Ttl] \in leases'
           /\ \A l \in Unexpired : l.task # t => l \in leases'
  BY TtlAssumption DEF Grant, TypeOK, Lease, Unexpired

\* Every step preserves the type invariant.
LEMMA TypeStep == ASSUME IInv, Next PROVE TypeOK'
<1>1. ASSUME NEW t \in TaskIds, NEW c \in Clients, CheckLimit(t, c) PROVE TypeOK'
  BY <1>1 DEF IInv, TypeOK, CheckLimit, Goto, Terminal, StopReasons, Stages, Launching,
     stopVars, leaseVars
<1>2. ASSUME NEW t \in TaskIds, WriteGuard(t) PROVE TypeOK'
  <2>1. owner[t] \in Clients
    BY <1>2 DEF IInv, StageInv, StageOK, WriteGuard
  <2>2. CASE Blocked(owner[t])
    BY <1>2, <2>1, <2>2 DEF IInv, TypeOK, WriteGuard, Unexpired, Goto, Terminal,
       StopReasons, Stages, Launching, stopVars, leaseVars
  <2>3. CASE ~Blocked(owner[t])
    <3>1. Grant(owner[t], t)
      BY <1>2, <2>3 DEF WriteGuard
    <3> QED
      BY <1>2, <2>1, <3>1, GrantFacts DEF IInv, TypeOK, WriteGuard, Goto, Terminal,
         StopReasons, Stages, Launching, stopVars, leaseVars
  <2> QED
    BY <2>2, <2>3
<1>3. ASSUME NEW t \in TaskIds, InsertRow(t) PROVE TypeOK'
  BY <1>3 DEF IInv, TypeOK, InsertRow, Goto, Terminal, StopReasons, Stages, Launching,
     stopVars, leaseVars
<1>4. ASSUME NEW t \in TaskIds, Spawn(t) PROVE TypeOK'
  BY <1>4 DEF IInv, TypeOK, Spawn, Goto, Terminal, StopReasons, Stages, Launching,
     stopVars, leaseVars
<1>5. ASSUME NEW t \in TaskIds, SpawnFails(t) PROVE TypeOK'
  BY <1>5 DEF IInv, TypeOK, SpawnFails, Goto, Terminal, StopReasons, Stages, Launching,
     stopVars, leaseVars
<1>6. ASSUME NEW t \in TaskIds, StorePid(t) PROVE TypeOK'
  BY <1>6 DEF IInv, TypeOK, StorePid, Goto, Terminal, StopReasons, Stages, Launching,
     stopVars, leaseVars
<1>7. ASSUME NEW t \in TaskIds, Register(t) PROVE TypeOK'
  BY <1>7 DEF IInv, TypeOK, Register, Goto, Terminal, StopReasons, Stages, Launching,
     stopVars, leaseVars
<1>8. ASSUME NEW t \in TaskIds, Watch(t) PROVE TypeOK'
  BY <1>8 DEF IInv, TypeOK, Watch, Goto, Terminal, StopReasons, Stages, Launching,
     stopVars, leaseVars
<1>9. ASSUME NEW t \in TaskIds, LaunchFails(t) PROVE TypeOK'
  BY <1>9 DEF IInv, TypeOK, LaunchFails, Goto, Ended, Terminal, StopReasons, Stages,
     Launching, stopVars, leaseVars
<1>10. ASSUME NEW t \in TaskIds, Retry(t) PROVE TypeOK'
  BY <1>10 DEF IInv, TypeOK, Retry, Goto, Ended, Terminal, StopReasons, Stages, Launching,
     stopVars, leaseVars
<1>11. ASSUME NEW t \in TaskIds, TreeEnded(t) PROVE TypeOK'
  BY <1>11 DEF IInv, TypeOK, TreeEnded, Goto, Terminal, StopReasons, Stages, Launching,
     stopVars, leaseVars
<1>12. ASSUME NEW t \in TaskIds, StoreStatus(t) PROVE TypeOK'
  BY <1>12 DEF IInv, TypeOK, StoreStatus, Goto, StatusOf, Terminal, StopReasons, Stages,
     Launching, stopVars, leaseVars
<1>13. ASSUME NEW t \in TaskIds, Remove(t) PROVE TypeOK'
  BY <1>13 DEF IInv, TypeOK, Remove, Goto, Terminal, StopReasons, Stages, Launching,
     stopVars, leaseVars
<1>14. ASSUME NEW t \in TaskIds, Notify(t) PROVE TypeOK'
  BY <1>14 DEF IInv, TypeOK, Notify, Goto, Terminal, StopReasons, Stages, Launching,
     stopVars, leaseVars
<1>15. ASSUME NEW t \in TaskIds, Deadline(t) PROVE TypeOK'
  <2>1. Terminate({t}, "timed_out") /\ {t} \in SUBSET TaskIds /\ "timed_out" \in StopReasons
    BY <1>15 DEF Deadline, IInv, TypeOK, StopReasons
  <2> QED
    BY <1>15, <2>1, TerminateFacts DEF Deadline, IInv, TypeOK, leaseVars
<1>16. ASSUME NEW t \in TaskIds, Kill(t) PROVE TypeOK'
  <2>1. Terminate({t}, "killed") /\ {t} \in SUBSET TaskIds /\ "killed" \in StopReasons
    BY <1>16 DEF Kill, IInv, TypeOK, StopReasons
  <2> QED
    BY <1>16, <2>1, TerminateFacts DEF Kill, IInv, TypeOK, leaseVars
<1>17. ASSUME NEW t \in TaskIds, Cancel(t) PROVE TypeOK'
  <2>1. CASE t \in cancelling
    <3>1. Terminate({t}, "cancelled") /\ "cancelled" \in StopReasons
      BY <1>17, <2>1 DEF Cancel, StopReasons
    <3> QED
      BY <1>17, <2>1, <3>1, TerminateFacts DEF Cancel, IInv, TypeOK, leaseVars
  <2>2. CASE t \notin cancelling
    BY <1>17, <2>2 DEF Cancel, IInv, TypeOK, leaseVars
  <2> QED
    BY <2>1, <2>2
<1>18. ASSUME NEW t \in TaskIds, GraceOver(t) PROVE TypeOK'
  <2>1. Terminate({t}, "cancelled") /\ {t} \in SUBSET TaskIds /\ "cancelled" \in StopReasons
    BY <1>18 DEF GraceOver, IInv, TypeOK, StopReasons
  <2> QED
    BY <1>18, <2>1, TerminateFacts DEF GraceOver, IInv, TypeOK, leaseVars
<1>19. ASSUME NEW t \in TaskIds, NEW code \in {"ok", "failed"}, Exit(t, code) PROVE TypeOK'
  BY <1>19 DEF IInv, TypeOK, Exit, Goto, Terminal, StopReasons, Stages, Launching,
     stopVars, leaseVars
<1>20. ASSUME NEW t \in TaskIds, NEW lagged \in BOOLEAN, HandleFinished(t, lagged)
       PROVE TypeOK'
  BY <1>20 DEF IInv, TypeOK, HandleFinished, Goto, Terminal, StopReasons, Stages,
     Launching, stopVars, leaseVars
<1>21. ASSUME NEW t \in TaskIds, Prune(t) PROVE TypeOK'
  BY <1>21 DEF IInv, TypeOK, Prune, Goto, Terminal, StopReasons, Stages, Launching,
     stopVars, leaseVars
<1>22. ASSUME NEW c \in Clients, DirectWrite(c) PROVE TypeOK'
  <2>1. c \in Clients
    BY <1>22 DEF IInv, StageInv, StageOK, DirectWrite
  <2>2. CASE Blocked(c)
    BY <1>22, <2>1, <2>2 DEF IInv, TypeOK, DirectWrite, Unexpired, Goto, Terminal,
       StopReasons, Stages, Launching, stopVars, leaseVars
  <2>3. CASE ~Blocked(c)
    <3>1. Grant(c, None)
      BY <1>22, <2>3 DEF DirectWrite
    <3> QED
      BY <1>22, <2>1, <3>1, GrantFacts DEF IInv, TypeOK, DirectWrite, Goto, Terminal,
         StopReasons, Stages, Launching, stopVars, leaseVars
  <2> QED
    BY <2>2, <2>3
<1>23. ASSUME NEW c \in Clients, RemoveClient(c) PROVE TypeOK'
  <2>1. CASE Terminate(RunningOf(c), "killed")
    <3>1. RunningOf(c) \in SUBSET TaskIds /\ "killed" \in StopReasons
      BY DEF RunningOf, IInv, TypeOK, StopReasons
    <3> QED
      BY <1>23, <2>1, <3>1, TerminateFacts DEF RemoveClient, IInv, TypeOK
  <2>2. CASE UNCHANGED <<kill, stopped, job>>
    BY <1>23, <2>2 DEF RemoveClient, IInv, TypeOK
  <2> QED
    BY <1>23, <2>1, <2>2 DEF RemoveClient
<1>24. ASSUME NEW c \in Clients, ReleaseLeases(c) PROVE TypeOK'
  BY <1>24 DEF IInv, TypeOK, ReleaseLeases, Goto, Terminal, StopReasons, Stages,
     Launching, stopVars, leaseVars
<1>25. ASSUME StopAll PROVE TypeOK'
  <2>1. Terminate(running, "killed") /\ running \in SUBSET TaskIds /\ "killed" \in StopReasons
    BY <1>25 DEF StopAll, IInv, TypeOK, StopReasons
  <2> QED
    BY <1>25, <2>1, TerminateFacts DEF StopAll, IInv, TypeOK, leaseVars
<1>26. ASSUME ListLeases PROVE TypeOK'
  BY <1>26 DEF IInv, TypeOK, ListLeases, Goto, Unexpired, Terminal, StopReasons, Stages,
     Launching, stopVars, leaseVars
<1>27. ASSUME Heartbeat PROVE TypeOK'
  <2>1. leases' \in SUBSET Lease
    BY <1>27, TtlAssumption DEF Heartbeat, IInv, TypeOK, Lease
  <2> QED
    BY <1>27, <2>1 DEF Heartbeat, IInv, TypeOK, stopVars
<1>28. ASSUME Tick PROVE TypeOK'
  <2>1. leases' \in SUBSET Lease
    BY <1>28, TtlAssumption DEF Tick, IInv, TypeOK, Lease
  <2> QED
    BY <1>28, <2>1 DEF Tick, IInv, TypeOK, stopVars
<1>29. ASSUME Restart PROVE TypeOK'
  BY <1>29 DEF IInv, TypeOK, Restart, Goto, Recovered, Terminal, StopReasons, Stages,
     Launching, stopVars, leaseVars
<1> QED
  BY <1>1, <1>2, <1>3, <1>4, <1>5, <1>6, <1>7, <1>8, <1>9, <1>10, <1>11, <1>12, <1>13,
     <1>14,
     <1>15, <1>16, <1>17, <1>18, <1>19, <1>20, <1>21, <1>22, <1>23, <1>24, <1>25, <1>26, <1>27, <1>28, <1>29
     DEF Next, LaunchStep, WaitStep

\* Every step preserves what the stage of a task says about its state.
LEMMA StageStep == ASSUME IInv, Next PROVE StageInv'
<1> SUFFICES ASSUME NEW u \in TaskIds PROVE StageOK(u)'
  BY DEF StageInv
<1>1. ASSUME NEW t \in TaskIds, NEW c \in Clients, CheckLimit(t, c) PROVE StageOK(u)'
  BY <1>1, NoneAssumption DEF CheckLimit, Goto, stopVars, StopReasons, IInv, TypeOK,
     StageInv, StageOK, Early, Watched, Terminal, leaseVars
<1>2. ASSUME NEW t \in TaskIds, WriteGuard(t) PROVE StageOK(u)'
  BY <1>2, NoneAssumption DEF WriteGuard, Goto, stopVars, StopReasons, IInv, TypeOK,
     StageInv, StageOK, Early, Watched, Terminal, leaseVars
<1>3. ASSUME NEW t \in TaskIds, InsertRow(t) PROVE StageOK(u)'
  BY <1>3, NoneAssumption DEF InsertRow, Goto, stopVars, StopReasons, IInv, TypeOK,
     StageInv, StageOK, Early, Watched, Terminal, leaseVars
<1>4. ASSUME NEW t \in TaskIds, Spawn(t) PROVE StageOK(u)'
  BY <1>4, NoneAssumption DEF Spawn, Goto, stopVars, StopReasons, IInv, TypeOK, StageInv,
     StageOK, Early, Watched, Terminal, leaseVars
<1>5. ASSUME NEW t \in TaskIds, SpawnFails(t) PROVE StageOK(u)'
  BY <1>5, NoneAssumption DEF SpawnFails, Goto, stopVars, StopReasons, IInv, TypeOK,
     StageInv, StageOK, Early, Watched, Terminal, leaseVars
<1>6. ASSUME NEW t \in TaskIds, StorePid(t) PROVE StageOK(u)'
  BY <1>6, NoneAssumption DEF StorePid, Goto, stopVars, StopReasons, IInv, TypeOK,
     StageInv, StageOK, Early, Watched, Terminal, leaseVars
<1>7. ASSUME NEW t \in TaskIds, Register(t) PROVE StageOK(u)'
  BY <1>7, NoneAssumption DEF Register, Goto, stopVars, StopReasons, IInv, TypeOK,
     StageInv, StageOK, Early, Watched, Terminal, leaseVars
<1>8. ASSUME NEW t \in TaskIds, Watch(t) PROVE StageOK(u)'
  BY <1>8, NoneAssumption DEF Watch, Goto, stopVars, StopReasons, IInv, TypeOK, StageInv,
     StageOK, Early, Watched, Terminal, leaseVars
<1>9. ASSUME NEW t \in TaskIds, LaunchFails(t) PROVE StageOK(u)'
  BY <1>9, NoneAssumption DEF LaunchFails, Ended, Goto, stopVars, StopReasons, IInv,
     TypeOK, StageInv, StageOK, Early, Watched, Terminal, leaseVars
<1>10. ASSUME NEW t \in TaskIds, Retry(t) PROVE StageOK(u)'
  BY <1>10, NoneAssumption DEF Retry, Ended, Goto, stopVars, StopReasons, IInv, TypeOK,
     StageInv, StageOK, Early, Watched, Terminal, leaseVars
<1>11. ASSUME NEW t \in TaskIds, TreeEnded(t) PROVE StageOK(u)'
  BY <1>11, NoneAssumption DEF TreeEnded, Goto, stopVars, StopReasons, IInv, TypeOK,
     StageInv, StageOK, Early, Watched, Terminal, leaseVars
<1>12. ASSUME NEW t \in TaskIds, StoreStatus(t) PROVE StageOK(u)'
  BY <1>12, NoneAssumption DEF StoreStatus, StatusOf, Goto, stopVars, StopReasons, IInv,
     TypeOK, StageInv, StageOK, Early, Watched, Terminal, leaseVars
<1>13. ASSUME NEW t \in TaskIds, Remove(t) PROVE StageOK(u)'
  BY <1>13, NoneAssumption DEF Remove, Goto, stopVars, StopReasons, IInv, TypeOK,
     StageInv, StageOK, Early, Watched, Terminal, leaseVars
<1>14. ASSUME NEW t \in TaskIds, Notify(t) PROVE StageOK(u)'
  BY <1>14, NoneAssumption DEF Notify, Goto, stopVars, StopReasons, IInv, TypeOK,
     StageInv, StageOK, Early, Watched, Terminal, leaseVars
<1>15. ASSUME NEW t \in TaskIds, Deadline(t) PROVE StageOK(u)'
  <2>1. Terminate({t}, "timed_out") /\ {t} \in SUBSET TaskIds /\ "timed_out" \in StopReasons
    BY <1>15 DEF Deadline, IInv, TypeOK, StopReasons
  <2> QED
    BY <1>15, <2>1, TerminateFacts DEF Deadline, IInv, TypeOK, StageInv, StageOK, Early,
       Watched, Terminal, leaseVars
<1>16. ASSUME NEW t \in TaskIds, Kill(t) PROVE StageOK(u)'
  <2>1. Terminate({t}, "killed") /\ {t} \in SUBSET TaskIds /\ "killed" \in StopReasons
    BY <1>16 DEF Kill, IInv, TypeOK, StopReasons
  <2> QED
    BY <1>16, <2>1, TerminateFacts DEF Kill, IInv, TypeOK, StageInv, StageOK, Early,
       Watched, Terminal, leaseVars
<1>17. ASSUME NEW t \in TaskIds, Cancel(t) PROVE StageOK(u)'
  <2>1. CASE t \in cancelling
    <3>1. Terminate({t}, "cancelled") /\ "cancelled" \in StopReasons
      BY <1>17, <2>1 DEF Cancel, StopReasons
    <3> QED
      BY <1>17, <2>1, <3>1, TerminateFacts DEF Cancel, IInv, TypeOK, StageInv, StageOK,
         Early, Watched, Terminal, leaseVars
  <2>2. CASE t \notin cancelling
    BY <1>17, <2>2 DEF Cancel, IInv, TypeOK, StageInv, StageOK, Early, Watched, Terminal,
       leaseVars
  <2> QED
    BY <2>1, <2>2
<1>18. ASSUME NEW t \in TaskIds, GraceOver(t) PROVE StageOK(u)'
  <2>1. Terminate({t}, "cancelled") /\ {t} \in SUBSET TaskIds /\ "cancelled" \in StopReasons
    BY <1>18 DEF GraceOver, IInv, TypeOK, StopReasons
  <2> QED
    BY <1>18, <2>1, TerminateFacts DEF GraceOver, IInv, TypeOK, StageInv, StageOK, Early,
       Watched, Terminal, leaseVars
<1>19. ASSUME NEW t \in TaskIds, NEW code \in {"ok", "failed"}, Exit(t, code)
       PROVE StageOK(u)'
  BY <1>19, NoneAssumption DEF Exit, Goto, stopVars, StopReasons, IInv, TypeOK, StageInv,
     StageOK, Early, Watched, Terminal, leaseVars
<1>20. ASSUME NEW t \in TaskIds, NEW lagged \in BOOLEAN, HandleFinished(t, lagged)
       PROVE StageOK(u)'
  BY <1>20, NoneAssumption DEF HandleFinished, Goto, stopVars, StopReasons, IInv, TypeOK,
     StageInv, StageOK, Early, Watched, Terminal, leaseVars
<1>21. ASSUME NEW t \in TaskIds, Prune(t) PROVE StageOK(u)'
  BY <1>21, NoneAssumption DEF Prune, Goto, stopVars, StopReasons, IInv, TypeOK, StageInv,
     StageOK, Early, Watched, Terminal, leaseVars
<1>22. ASSUME NEW c \in Clients, DirectWrite(c) PROVE StageOK(u)'
  BY <1>22, NoneAssumption DEF DirectWrite, Goto, stopVars, StopReasons, IInv, TypeOK,
     StageInv, StageOK, Early, Watched, Terminal, leaseVars
<1>23. ASSUME NEW c \in Clients, RemoveClient(c) PROVE StageOK(u)'
  <2>1. CASE Terminate(RunningOf(c), "killed")
    <3>1. RunningOf(c) \in SUBSET TaskIds /\ "killed" \in StopReasons /\ RunningOf(c) \subseteq running
      BY DEF RunningOf, IInv, TypeOK, StopReasons
    <3> QED
      BY <1>23, <2>1, <3>1, TerminateFacts DEF RemoveClient, IInv, TypeOK, StageInv,
         StageOK, Early, Watched, Terminal, leaseVars
  <2>2. CASE UNCHANGED <<kill, stopped, job>>
    BY <1>23, <2>2 DEF RemoveClient, IInv, TypeOK, StageInv, StageOK, Early, Watched,
       Terminal, leaseVars
  <2> QED
    BY <1>23, <2>1, <2>2 DEF RemoveClient
<1>24. ASSUME NEW c \in Clients, ReleaseLeases(c) PROVE StageOK(u)'
  BY <1>24, NoneAssumption DEF ReleaseLeases, Goto, stopVars, StopReasons, IInv, TypeOK,
     StageInv, StageOK, Early, Watched, Terminal, leaseVars
<1>25. ASSUME StopAll PROVE StageOK(u)'
  <2>1. Terminate(running, "killed") /\ running \in SUBSET TaskIds /\ "killed" \in StopReasons
    BY <1>25 DEF StopAll, IInv, TypeOK, StopReasons
  <2> QED
    BY <1>25, <2>1, TerminateFacts DEF StopAll, IInv, TypeOK, StageInv, StageOK, Early,
       Watched, Terminal, leaseVars
<1>26. ASSUME ListLeases PROVE StageOK(u)'
  BY <1>26, NoneAssumption DEF ListLeases, Unexpired, Goto, stopVars, StopReasons, IInv,
     TypeOK, StageInv, StageOK, Early, Watched, Terminal, leaseVars
<1>27. ASSUME Heartbeat PROVE StageOK(u)'
  BY <1>27, NoneAssumption DEF Heartbeat, Goto, stopVars, StopReasons, IInv, TypeOK,
     StageInv, StageOK, Early, Watched, Terminal, leaseVars
<1>28. ASSUME Tick PROVE StageOK(u)'
  BY <1>28, NoneAssumption DEF Tick, Goto, stopVars, StopReasons, IInv, TypeOK, StageInv,
     StageOK, Early, Watched, Terminal, leaseVars
<1>29. ASSUME Restart PROVE StageOK(u)'
  BY <1>29, NoneAssumption DEF Restart, Recovered, Goto, stopVars, StopReasons, IInv,
     TypeOK, StageInv, StageOK, Early, Watched, Terminal, leaseVars
<1> QED
  BY <1>1, <1>2, <1>3, <1>4, <1>5, <1>6, <1>7, <1>8, <1>9, <1>10, <1>11, <1>12, <1>13,
     <1>14,
     <1>15, <1>16, <1>17, <1>18, <1>19, <1>20, <1>21, <1>22, <1>23, <1>24, <1>25, <1>26, <1>27, <1>28, <1>29
     DEF Next, LaunchStep, WaitStep

\* Every step preserves that a request to stop is kept until it is reported.
LEMMA StopStep == ASSUME IInv, Next PROVE StopInv'
<1> SUFFICES ASSUME NEW u \in TaskIds PROVE StopOK(u)'
  BY DEF StopInv
<1>1. ASSUME NEW t \in TaskIds, NEW c \in Clients, CheckLimit(t, c) PROVE StopOK(u)'
  BY <1>1 DEF CheckLimit, Goto, stopVars, StopReasons, IInv, TypeOK, StopInv, StopOK,
     StageInv, StageOK, Early, Unstored, Terminal, leaseVars
<1>2. ASSUME NEW t \in TaskIds, WriteGuard(t) PROVE StopOK(u)'
  BY <1>2 DEF WriteGuard, Goto, stopVars, StopReasons, IInv, TypeOK, StopInv, StopOK,
     StageInv, StageOK, Early, Unstored, Terminal, leaseVars
<1>3. ASSUME NEW t \in TaskIds, InsertRow(t) PROVE StopOK(u)'
  BY <1>3 DEF InsertRow, Goto, stopVars, StopReasons, IInv, TypeOK, StopInv, StopOK,
     StageInv, StageOK, Early, Unstored, Terminal, leaseVars
<1>4. ASSUME NEW t \in TaskIds, Spawn(t) PROVE StopOK(u)'
  BY <1>4 DEF Spawn, Goto, stopVars, StopReasons, IInv, TypeOK, StopInv, StopOK, StageInv,
     StageOK, Early, Unstored, Terminal, leaseVars
<1>5. ASSUME NEW t \in TaskIds, SpawnFails(t) PROVE StopOK(u)'
  BY <1>5 DEF SpawnFails, Goto, stopVars, StopReasons, IInv, TypeOK, StopInv, StopOK,
     StageInv, StageOK, Early, Unstored, Terminal, leaseVars
<1>6. ASSUME NEW t \in TaskIds, StorePid(t) PROVE StopOK(u)'
  BY <1>6 DEF StorePid, Goto, stopVars, StopReasons, IInv, TypeOK, StopInv, StopOK,
     StageInv, StageOK, Early, Unstored, Terminal, leaseVars
<1>7. ASSUME NEW t \in TaskIds, Register(t) PROVE StopOK(u)'
  BY <1>7 DEF Register, Goto, stopVars, StopReasons, IInv, TypeOK, StopInv, StopOK,
     StageInv, StageOK, Early, Unstored, Terminal, leaseVars
<1>8. ASSUME NEW t \in TaskIds, Watch(t) PROVE StopOK(u)'
  BY <1>8 DEF Watch, Goto, stopVars, StopReasons, IInv, TypeOK, StopInv, StopOK, StageInv,
     StageOK, Early, Unstored, Terminal, leaseVars
<1>9. ASSUME NEW t \in TaskIds, LaunchFails(t) PROVE StopOK(u)'
  BY <1>9 DEF LaunchFails, Ended, Goto, stopVars, StopReasons, IInv, TypeOK, StopInv,
     StopOK, StageInv, StageOK, Early, Unstored, Terminal, leaseVars
<1>10. ASSUME NEW t \in TaskIds, Retry(t) PROVE StopOK(u)'
  BY <1>10 DEF Retry, Ended, Goto, stopVars, StopReasons, IInv, TypeOK, StopInv, StopOK,
     StageInv, StageOK, Early, Unstored, Terminal, leaseVars
<1>11. ASSUME NEW t \in TaskIds, TreeEnded(t) PROVE StopOK(u)'
  BY <1>11 DEF TreeEnded, Goto, stopVars, StopReasons, IInv, TypeOK, StopInv, StopOK,
     StageInv, StageOK, Early, Unstored, Terminal, leaseVars
<1>12. ASSUME NEW t \in TaskIds, StoreStatus(t) PROVE StopOK(u)'
  BY <1>12 DEF StoreStatus, StatusOf, Goto, stopVars, StopReasons, IInv, TypeOK, StopInv,
     StopOK, StageInv, StageOK, Early, Unstored, Terminal, leaseVars
<1>13. ASSUME NEW t \in TaskIds, Remove(t) PROVE StopOK(u)'
  BY <1>13 DEF Remove, Goto, stopVars, StopReasons, IInv, TypeOK, StopInv, StopOK,
     StageInv, StageOK, Early, Unstored, Terminal, leaseVars
<1>14. ASSUME NEW t \in TaskIds, Notify(t) PROVE StopOK(u)'
  BY <1>14 DEF Notify, Goto, stopVars, StopReasons, IInv, TypeOK, StopInv, StopOK,
     StageInv, StageOK, Early, Unstored, Terminal, leaseVars
<1>15. ASSUME NEW t \in TaskIds, Deadline(t) PROVE StopOK(u)'
  <2>1. Terminate({t}, "timed_out") /\ "timed_out" \in StopReasons
    BY <1>15 DEF Deadline, StopReasons
  <2>2. /\ u = t => kill'[u] # "none"
        /\ u # t => kill'[u] = kill[u]
        /\ u \in stopped' => u \in stopped \/ (u = t /\ job[u] = "live")
    BY <2>1 DEF Terminate, IInv, TypeOK
  <2>3. UNCHANGED <<stage, row, cancelling>> /\ t \in running
    BY <1>15 DEF Deadline, IInv, StageInv, StageOK, Watched
  <2> QED
    BY <2>2, <2>3 DEF IInv, StopInv, StopOK, StageInv, StageOK, Early, Unstored
<1>16. ASSUME NEW t \in TaskIds, Kill(t) PROVE StopOK(u)'
  <2>1. Terminate({t}, "killed") /\ "killed" \in StopReasons
    BY <1>16 DEF Kill, StopReasons
  <2>2. /\ u = t => kill'[u] # "none"
        /\ u # t => kill'[u] = kill[u]
        /\ u \in stopped' => u \in stopped \/ (u = t /\ job[u] = "live")
    BY <2>1 DEF Terminate, IInv, TypeOK
  <2>3. UNCHANGED <<stage, row, cancelling>> /\ t \in running
    BY <1>16 DEF Kill, IInv, StageInv, StageOK, Watched
  <2> QED
    BY <2>2, <2>3 DEF IInv, StopInv, StopOK, StageInv, StageOK, Early, Unstored
<1>17. ASSUME NEW t \in TaskIds, Cancel(t) PROVE StopOK(u)'
  <2>1. CASE t \in cancelling
    <3>1. Terminate({t}, "cancelled") /\ "cancelled" \in StopReasons
      BY <1>17, <2>1 DEF Cancel, StopReasons
    <3>2. /\ u = t => kill'[u] # "none"
          /\ u # t => kill'[u] = kill[u]
          /\ u \in stopped' => u \in stopped \/ (u = t /\ job[u] = "live")
      BY <3>1 DEF Terminate, IInv, TypeOK
    <3>3. UNCHANGED <<stage, row, cancelling>> /\ t \in running
      BY <1>17, <2>1 DEF Cancel
    <3> QED
      BY <3>2, <3>3 DEF IInv, StopInv, StopOK, StageInv, StageOK, Early, Unstored
  <2>2. CASE t \notin cancelling
    BY <1>17, <2>2 DEF Cancel, IInv, TypeOK, StopInv, StopOK, StageInv, StageOK, Early,
       Unstored, Terminal, leaseVars
  <2> QED
    BY <2>1, <2>2
<1>18. ASSUME NEW t \in TaskIds, GraceOver(t) PROVE StopOK(u)'
  <2>1. Terminate({t}, "cancelled") /\ "cancelled" \in StopReasons
    BY <1>18 DEF GraceOver, StopReasons
  <2>2. /\ u = t => kill'[u] # "none"
        /\ u # t => kill'[u] = kill[u]
        /\ u \in stopped' => u \in stopped \/ (u = t /\ job[u] = "live")
    BY <2>1 DEF Terminate, IInv, TypeOK
  <2>3. UNCHANGED <<stage, row, cancelling>> /\ t \in running
    BY <1>18 DEF GraceOver, IInv, StageInv, StageOK, Watched
  <2> QED
    BY <2>2, <2>3 DEF IInv, StopInv, StopOK, StageInv, StageOK, Early, Unstored
<1>19. ASSUME NEW t \in TaskIds, NEW code \in {"ok", "failed"}, Exit(t, code)
       PROVE StopOK(u)'
  BY <1>19 DEF Exit, Goto, stopVars, StopReasons, IInv, TypeOK, StopInv, StopOK, StageInv,
     StageOK, Early, Unstored, Terminal, leaseVars
<1>20. ASSUME NEW t \in TaskIds, NEW lagged \in BOOLEAN, HandleFinished(t, lagged)
       PROVE StopOK(u)'
  BY <1>20 DEF HandleFinished, Goto, stopVars, StopReasons, IInv, TypeOK, StopInv, StopOK,
     StageInv, StageOK, Early, Unstored, Terminal, leaseVars
<1>21. ASSUME NEW t \in TaskIds, Prune(t) PROVE StopOK(u)'
  BY <1>21 DEF Prune, Goto, stopVars, StopReasons, IInv, TypeOK, StopInv, StopOK,
     StageInv, StageOK, Early, Unstored, Terminal, leaseVars
<1>22. ASSUME NEW c \in Clients, DirectWrite(c) PROVE StopOK(u)'
  BY <1>22 DEF DirectWrite, Goto, stopVars, StopReasons, IInv, TypeOK, StopInv, StopOK,
     StageInv, StageOK, Early, Unstored, Terminal, leaseVars
<1>23. ASSUME NEW c \in Clients, RemoveClient(c) PROVE StopOK(u)'
  <2>1. CASE Terminate(RunningOf(c), "killed")
    <3>1. RunningOf(c) \in SUBSET TaskIds /\ "killed" \in StopReasons /\ RunningOf(c) \subseteq running
      BY DEF RunningOf, IInv, TypeOK, StopReasons
    <3> QED
      BY <1>23, <2>1, <3>1, TerminateFacts DEF RemoveClient, IInv, TypeOK, StopInv,
         StopOK, StageInv, StageOK, Early, Unstored, Terminal, leaseVars
  <2>2. CASE UNCHANGED <<kill, stopped, job>>
    BY <1>23, <2>2 DEF RemoveClient, IInv, TypeOK, StopInv, StopOK, StageInv, StageOK,
       Early, Unstored, Terminal, leaseVars
  <2> QED
    BY <1>23, <2>1, <2>2 DEF RemoveClient
<1>24. ASSUME NEW c \in Clients, ReleaseLeases(c) PROVE StopOK(u)'
  BY <1>24 DEF ReleaseLeases, Goto, stopVars, StopReasons, IInv, TypeOK, StopInv, StopOK,
     StageInv, StageOK, Early, Unstored, Terminal, leaseVars
<1>25. ASSUME StopAll PROVE StopOK(u)'
  <2>1. Terminate(running, "killed") /\ running \in SUBSET TaskIds /\ "killed" \in StopReasons
    BY <1>25 DEF StopAll, IInv, TypeOK, StopReasons
  <2> QED
    BY <1>25, <2>1, TerminateFacts DEF StopAll, IInv, TypeOK, StopInv, StopOK, StageInv,
       StageOK, Early, Unstored, Terminal, leaseVars
<1>26. ASSUME ListLeases PROVE StopOK(u)'
  BY <1>26 DEF ListLeases, Unexpired, Goto, stopVars, StopReasons, IInv, TypeOK, StopInv,
     StopOK, StageInv, StageOK, Early, Unstored, Terminal, leaseVars
<1>27. ASSUME Heartbeat PROVE StopOK(u)'
  BY <1>27 DEF Heartbeat, Goto, stopVars, StopReasons, IInv, TypeOK, StopInv, StopOK,
     StageInv, StageOK, Early, Unstored, Terminal, leaseVars
<1>28. ASSUME Tick PROVE StopOK(u)'
  BY <1>28 DEF Tick, Goto, stopVars, StopReasons, IInv, TypeOK, StopInv, StopOK, StageInv,
     StageOK, Early, Unstored, Terminal, leaseVars
<1>29. ASSUME Restart PROVE StopOK(u)'
  BY <1>29 DEF Restart, Recovered, Goto, stopVars, StopReasons, IInv, TypeOK, StopInv,
     StopOK, StageInv, StageOK, Early, Unstored, Terminal, leaseVars
<1> QED
  BY <1>1, <1>2, <1>3, <1>4, <1>5, <1>6, <1>7, <1>8, <1>9, <1>10, <1>11, <1>12, <1>13,
     <1>14,
     <1>15, <1>16, <1>17, <1>18, <1>19, <1>20, <1>21, <1>22, <1>23, <1>24, <1>25, <1>26, <1>27, <1>28, <1>29
     DEF Next, LaunchStep, WaitStep

\* Every step preserves that the leases belong to one client.
LEMMA HolderStep == ASSUME IInv, Next PROVE HolderInv'
<1>1. ASSUME NEW t \in TaskIds, NEW c \in Clients, CheckLimit(t, c) PROVE HolderInv'
  BY <1>1 DEF IInv, HolderInv, CheckLimit, leaseVars
<1>2. ASSUME NEW t \in TaskIds, WriteGuard(t) PROVE HolderInv'
  <2>1. owner[t] \in Clients
    BY <1>2 DEF IInv, StageInv, StageOK, WriteGuard
  <2>2. CASE Blocked(owner[t])
    BY <1>2, <2>2 DEF IInv, HolderInv, WriteGuard, Unexpired
  <2>3. CASE ~Blocked(owner[t])
    <3>1. Grant(owner[t], t)
      BY <1>2, <2>3 DEF WriteGuard
    <3>2. \A l \in leases' : l \in Unexpired \/ l.client = owner[t]
      BY <3>1 DEF Grant
    <3> QED
      BY <2>3, <3>2 DEF HolderInv, Blocked
  <2> QED
    BY <2>2, <2>3
<1>3. ASSUME NEW t \in TaskIds, InsertRow(t) PROVE HolderInv'
  BY <1>3 DEF IInv, HolderInv, InsertRow, leaseVars
<1>4. ASSUME NEW t \in TaskIds, Spawn(t) PROVE HolderInv'
  BY <1>4 DEF IInv, HolderInv, Spawn, leaseVars
<1>5. ASSUME NEW t \in TaskIds, SpawnFails(t) PROVE HolderInv'
  BY <1>5 DEF IInv, HolderInv, SpawnFails, leaseVars
<1>6. ASSUME NEW t \in TaskIds, StorePid(t) PROVE HolderInv'
  BY <1>6 DEF IInv, HolderInv, StorePid, leaseVars
<1>7. ASSUME NEW t \in TaskIds, Register(t) PROVE HolderInv'
  BY <1>7 DEF IInv, HolderInv, Register, leaseVars
<1>8. ASSUME NEW t \in TaskIds, Watch(t) PROVE HolderInv'
  BY <1>8 DEF IInv, HolderInv, Watch, leaseVars
<1>9. ASSUME NEW t \in TaskIds, LaunchFails(t) PROVE HolderInv'
  BY <1>9 DEF IInv, HolderInv, LaunchFails, leaseVars
<1>10. ASSUME NEW t \in TaskIds, Retry(t) PROVE HolderInv'
  BY <1>10 DEF IInv, HolderInv, Retry, leaseVars
<1>11. ASSUME NEW t \in TaskIds, TreeEnded(t) PROVE HolderInv'
  BY <1>11 DEF IInv, HolderInv, TreeEnded, leaseVars
<1>12. ASSUME NEW t \in TaskIds, StoreStatus(t) PROVE HolderInv'
  BY <1>12 DEF IInv, HolderInv, StoreStatus, leaseVars
<1>13. ASSUME NEW t \in TaskIds, Remove(t) PROVE HolderInv'
  BY <1>13 DEF IInv, HolderInv, Remove, leaseVars
<1>14. ASSUME NEW t \in TaskIds, Notify(t) PROVE HolderInv'
  BY <1>14 DEF IInv, HolderInv, Notify, leaseVars
<1>15. ASSUME NEW t \in TaskIds, Deadline(t) PROVE HolderInv'
  BY <1>15 DEF IInv, HolderInv, Deadline, leaseVars
<1>16. ASSUME NEW t \in TaskIds, Kill(t) PROVE HolderInv'
  BY <1>16 DEF IInv, HolderInv, Kill, leaseVars
<1>17. ASSUME NEW t \in TaskIds, Cancel(t) PROVE HolderInv'
  BY <1>17 DEF IInv, HolderInv, Cancel, leaseVars
<1>18. ASSUME NEW t \in TaskIds, GraceOver(t) PROVE HolderInv'
  BY <1>18 DEF IInv, HolderInv, GraceOver, leaseVars
<1>19. ASSUME NEW t \in TaskIds, NEW code \in {"ok", "failed"}, Exit(t, code)
       PROVE HolderInv'
  BY <1>19 DEF IInv, HolderInv, Exit, leaseVars
<1>20. ASSUME NEW t \in TaskIds, NEW lagged \in BOOLEAN, HandleFinished(t, lagged)
       PROVE HolderInv'
  BY <1>20 DEF IInv, HolderInv, HandleFinished
<1>21. ASSUME NEW t \in TaskIds, Prune(t) PROVE HolderInv'
  BY <1>21 DEF IInv, HolderInv, Prune, leaseVars
<1>22. ASSUME NEW c \in Clients, DirectWrite(c) PROVE HolderInv'
  <2>1. c \in Clients
    BY <1>22 DEF IInv, StageInv, StageOK, DirectWrite
  <2>2. CASE Blocked(c)
    BY <1>22, <2>2 DEF IInv, HolderInv, DirectWrite, Unexpired
  <2>3. CASE ~Blocked(c)
    <3>1. Grant(c, None)
      BY <1>22, <2>3 DEF DirectWrite
    <3>2. \A l \in leases' : l \in Unexpired \/ l.client = c
      BY <3>1 DEF Grant
    <3> QED
      BY <2>3, <3>2 DEF HolderInv, Blocked
  <2> QED
    BY <2>2, <2>3
<1>23. ASSUME NEW c \in Clients, RemoveClient(c) PROVE HolderInv'
  BY <1>23 DEF IInv, HolderInv, RemoveClient, leaseVars
<1>24. ASSUME NEW c \in Clients, ReleaseLeases(c) PROVE HolderInv'
  BY <1>24 DEF IInv, HolderInv, ReleaseLeases
<1>25. ASSUME StopAll PROVE HolderInv'
  BY <1>25 DEF IInv, HolderInv, StopAll, leaseVars
<1>26. ASSUME ListLeases PROVE HolderInv'
  BY <1>26 DEF IInv, HolderInv, ListLeases, Unexpired
<1>27. ASSUME Heartbeat PROVE HolderInv'
  <2>1. ASSUME NEW l \in leases' PROVE \E m \in leases : l.client = m.client
    BY <1>27 DEF Heartbeat, IInv, TypeOK, Lease
  <2> QED
    BY <2>1 DEF IInv, HolderInv
<1>28. ASSUME Tick PROVE HolderInv'
  <2>1. ASSUME NEW l \in leases' PROVE \E m \in leases : l.client = m.client
    BY <1>28 DEF Tick, IInv, TypeOK, Lease
  <2> QED
    BY <2>1 DEF IInv, HolderInv
<1>29. ASSUME Restart PROVE HolderInv'
  BY <1>29 DEF IInv, HolderInv, Restart
<1> QED
  BY <1>1, <1>2, <1>3, <1>4, <1>5, <1>6, <1>7, <1>8, <1>9, <1>10, <1>11, <1>12, <1>13,
     <1>14,
     <1>15, <1>16, <1>17, <1>18, <1>19, <1>20, <1>21, <1>22, <1>23, <1>24, <1>25, <1>26, <1>27, <1>28, <1>29
     DEF Next, LaunchStep, WaitStep

\* Every step preserves the lease of a task that is being launched or runs.
LEMMA LeaseStep == ASSUME IInv, Next PROVE LeaseInv'
<1> SUFFICES ASSUME NEW u \in TaskIds PROVE LeaseOK(u)'
  BY DEF LeaseInv
<1>1. ASSUME NEW t \in TaskIds, NEW c \in Clients, CheckLimit(t, c) PROVE LeaseOK(u)'
  BY <1>1 DEF CheckLimit, Goto, IInv, LeaseInv, LeaseOK, Protected, StageInv, StageOK,
     Early, Watched, TypeOK, leaseVars
<1>2. ASSUME NEW t \in TaskIds, WriteGuard(t) PROVE LeaseOK(u)'
  <2>1. owner[t] \in Clients
    BY <1>2 DEF IInv, StageInv, StageOK, WriteGuard
  <2>2. (Protected(u) /\ u \notin revoked) =>
            \E l \in Unexpired : /\ l.task = u
                                 /\ l.client = owner[u]
                                 /\ l.left >= IF due /\ u \in running THEN 1 ELSE 2
    BY DEF IInv, TypeOK, LeaseInv, LeaseOK, Unexpired, Lease
  <2>3. CASE Blocked(owner[t])
    BY <1>2, <2>2, <2>3 DEF WriteGuard, Goto, LeaseOK, Protected, IInv, TypeOK
  <2>4. CASE ~Blocked(owner[t])
    <3>1. Grant(owner[t], t)
      BY <1>2, <2>4 DEF WriteGuard
    <3>2. /\ [client |-> owner[t], task |-> t, left |-> Ttl] \in leases'
          /\ \A l \in Unexpired : l.task # t => l \in leases'
      BY <2>1, <3>1, GrantFacts DEF IInv
    <3>3. CASE u = t
      BY <1>2, <2>4, <3>2, <3>3, TtlAssumption DEF WriteGuard, LeaseOK
    <3>4. CASE u # t
      BY <1>2, <2>2, <2>4, <3>2, <3>4 DEF WriteGuard, Goto, LeaseOK, Protected, IInv, TypeOK
    <3> QED
      BY <3>3, <3>4
  <2> QED
    BY <2>3, <2>4
<1>3. ASSUME NEW t \in TaskIds, InsertRow(t) PROVE LeaseOK(u)'
  BY <1>3 DEF InsertRow, Goto, IInv, LeaseInv, LeaseOK, Protected, StageInv, StageOK,
     Early, Watched, TypeOK, leaseVars
<1>4. ASSUME NEW t \in TaskIds, Spawn(t) PROVE LeaseOK(u)'
  BY <1>4 DEF Spawn, Goto, IInv, LeaseInv, LeaseOK, Protected, StageInv, StageOK, Early,
     Watched, TypeOK, leaseVars
<1>5. ASSUME NEW t \in TaskIds, SpawnFails(t) PROVE LeaseOK(u)'
  BY <1>5 DEF SpawnFails, Goto, IInv, LeaseInv, LeaseOK, Protected, StageInv, StageOK,
     Early, Watched, TypeOK, leaseVars
<1>6. ASSUME NEW t \in TaskIds, StorePid(t) PROVE LeaseOK(u)'
  BY <1>6 DEF StorePid, Goto, IInv, LeaseInv, LeaseOK, Protected, StageInv, StageOK,
     Early, Watched, TypeOK, leaseVars
<1>7. ASSUME NEW t \in TaskIds, Register(t) PROVE LeaseOK(u)'
  BY <1>7 DEF Register, Goto, IInv, LeaseInv, LeaseOK, Protected, StageInv, StageOK,
     Early, Watched, Lease, TypeOK, leaseVars
<1>8. ASSUME NEW t \in TaskIds, Watch(t) PROVE LeaseOK(u)'
  BY <1>8 DEF Watch, Goto, IInv, LeaseInv, LeaseOK, Protected, StageInv, StageOK, Early,
     Watched, TypeOK, leaseVars
<1>9. ASSUME NEW t \in TaskIds, LaunchFails(t) PROVE LeaseOK(u)'
  BY <1>9 DEF LaunchFails, Goto, IInv, LeaseInv, LeaseOK, Protected, StageInv, StageOK,
     Early, Watched, TypeOK, leaseVars
<1>10. ASSUME NEW t \in TaskIds, Retry(t) PROVE LeaseOK(u)'
  BY <1>10 DEF Retry, Goto, IInv, LeaseInv, LeaseOK, Protected, StageInv, StageOK, Early,
     Watched, TypeOK, leaseVars
<1>11. ASSUME NEW t \in TaskIds, TreeEnded(t) PROVE LeaseOK(u)'
  BY <1>11 DEF TreeEnded, Goto, IInv, LeaseInv, LeaseOK, Protected, StageInv, StageOK,
     Early, Watched, TypeOK, leaseVars
<1>12. ASSUME NEW t \in TaskIds, StoreStatus(t) PROVE LeaseOK(u)'
  BY <1>12 DEF StoreStatus, Goto, IInv, LeaseInv, LeaseOK, Protected, StageInv, StageOK,
     Early, Watched, TypeOK, leaseVars
<1>13. ASSUME NEW t \in TaskIds, Remove(t) PROVE LeaseOK(u)'
  BY <1>13 DEF Remove, Goto, IInv, LeaseInv, LeaseOK, Protected, StageInv, StageOK, Early,
     Watched, TypeOK, leaseVars
<1>14. ASSUME NEW t \in TaskIds, Notify(t) PROVE LeaseOK(u)'
  BY <1>14 DEF Notify, Goto, IInv, LeaseInv, LeaseOK, Protected, StageInv, StageOK, Early,
     Watched, TypeOK, leaseVars
<1>15. ASSUME NEW t \in TaskIds, Deadline(t) PROVE LeaseOK(u)'
  BY <1>15 DEF Deadline, Goto, IInv, LeaseInv, LeaseOK, Protected, StageInv, StageOK,
     Early, Watched, TypeOK, leaseVars
<1>16. ASSUME NEW t \in TaskIds, Kill(t) PROVE LeaseOK(u)'
  BY <1>16 DEF Kill, Goto, IInv, LeaseInv, LeaseOK, Protected, StageInv, StageOK, Early,
     Watched, TypeOK, leaseVars
<1>17. ASSUME NEW t \in TaskIds, Cancel(t) PROVE LeaseOK(u)'
  BY <1>17 DEF Cancel, Goto, IInv, LeaseInv, LeaseOK, Protected, StageInv, StageOK, Early,
     Watched, TypeOK, leaseVars
<1>18. ASSUME NEW t \in TaskIds, GraceOver(t) PROVE LeaseOK(u)'
  BY <1>18 DEF GraceOver, Goto, IInv, LeaseInv, LeaseOK, Protected, StageInv, StageOK,
     Early, Watched, TypeOK, leaseVars
<1>19. ASSUME NEW t \in TaskIds, NEW code \in {"ok", "failed"}, Exit(t, code)
       PROVE LeaseOK(u)'
  BY <1>19 DEF Exit, Goto, IInv, LeaseInv, LeaseOK, Protected, StageInv, StageOK, Early,
     Watched, TypeOK, leaseVars
<1>20. ASSUME NEW t \in TaskIds, NEW lagged \in BOOLEAN, HandleFinished(t, lagged)
       PROVE LeaseOK(u)'
  BY <1>20 DEF HandleFinished, IInv, LeaseInv, LeaseOK, Protected, StageInv, StageOK,
     Early, Watched
<1>21. ASSUME NEW t \in TaskIds, Prune(t) PROVE LeaseOK(u)'
  BY <1>21 DEF Prune, Goto, IInv, LeaseInv, LeaseOK, Protected, StageInv, StageOK, Early,
     Watched, TypeOK, leaseVars
<1>22. ASSUME NEW c \in Clients, DirectWrite(c) PROVE LeaseOK(u)'
  <2>1. c \in Clients
    BY <1>22 DEF IInv, StageInv, StageOK, DirectWrite
  <2>2. (Protected(u) /\ u \notin revoked) =>
            \E l \in Unexpired : /\ l.task = u
                                 /\ l.client = owner[u]
                                 /\ l.left >= IF due /\ u \in running THEN 1 ELSE 2
    BY DEF IInv, TypeOK, LeaseInv, LeaseOK, Unexpired, Lease
  <2>3. CASE Blocked(c)
    BY <1>22, <2>2, <2>3 DEF DirectWrite, Goto, LeaseOK, Protected, IInv, TypeOK
  <2>4. CASE ~Blocked(c)
    <3>1. Grant(c, None)
      BY <1>22, <2>4 DEF DirectWrite
    <3>2. /\ [client |-> c, task |-> None, left |-> Ttl] \in leases'
          /\ \A l \in Unexpired : l.task # None => l \in leases'
      BY <2>1, <3>1, GrantFacts DEF IInv
    <3> QED
      BY <1>22, <2>2, <3>2, NoneAssumption DEF DirectWrite, LeaseOK, Protected
  <2> QED
    BY <2>3, <2>4
<1>23. ASSUME NEW c \in Clients, RemoveClient(c) PROVE LeaseOK(u)'
  BY <1>23 DEF RemoveClient, Goto, IInv, LeaseInv, LeaseOK, Protected, StageInv, StageOK,
     Early, Watched, TypeOK, leaseVars
<1>24. ASSUME NEW c \in Clients, ReleaseLeases(c) PROVE LeaseOK(u)'
  BY <1>24 DEF ReleaseLeases, IInv, TypeOK, LeaseInv, LeaseOK, Protected
<1>25. ASSUME StopAll PROVE LeaseOK(u)'
  BY <1>25 DEF StopAll, Goto, IInv, LeaseInv, LeaseOK, Protected, StageInv, StageOK,
     Early, Watched, TypeOK, leaseVars
<1>26. ASSUME ListLeases PROVE LeaseOK(u)'
  BY <1>26 DEF ListLeases, Unexpired, IInv, TypeOK, Lease, LeaseInv, LeaseOK, Protected
<1>27. ASSUME Heartbeat PROVE LeaseOK(u)'
  <2>1. ASSUME Protected(u), u \notin revoked
        PROVE  \E l \in leases' : l.task = u /\ l.client = owner[u] /\ l.left >= 2
    <3>1. PICK l \in leases : /\ l.task = u /\ l.client = owner[u]
                              /\ l.left >= IF due /\ u \in running THEN 1 ELSE 2
      BY <2>1 DEF IInv, LeaseInv, LeaseOK
    <3> DEFINE m == [l EXCEPT !.left = IF l.task \in running THEN Ttl ELSE @]
    <3>2. m \in leases' /\ m.task = u /\ m.client = owner[u]
      BY <1>27, <3>1 DEF Heartbeat, IInv, TypeOK, Lease
    <3>3. m.left >= 2
      BY <3>1, TtlAssumption DEF IInv, TypeOK, Lease
    <3> QED
      BY <3>2, <3>3
  <2> QED
    BY <1>27, <2>1 DEF Heartbeat, LeaseOK, Protected
<1>28. ASSUME Tick PROVE LeaseOK(u)'
  <2>1. ASSUME Protected(u), u \notin revoked
        PROVE  \E l \in leases' : l.task = u /\ l.client = owner[u] /\ l.left >= 1
    <3>1. PICK l \in leases : l.task = u /\ l.client = owner[u] /\ l.left >= 2
      BY <1>28, <2>1 DEF Tick, IInv, LeaseInv, LeaseOK
    <3> DEFINE m == [l EXCEPT !.left = IF @ > 0 THEN @ - 1 ELSE 0]
    <3>2. m \in leases' /\ m.task = u /\ m.client = owner[u]
      BY <1>28, <3>1 DEF Tick, IInv, TypeOK, Lease
    <3>3. m.left >= 1
      BY <3>1 DEF IInv, TypeOK, Lease
    <3> QED
      BY <3>2, <3>3
  <2> QED
    BY <1>28, <2>1 DEF Tick, LeaseOK, Protected, Launching
<1>29. ASSUME Restart PROVE LeaseOK(u)'
  BY <1>29 DEF Restart, LeaseOK, Protected
<1> QED
  BY <1>1, <1>2, <1>3, <1>4, <1>5, <1>6, <1>7, <1>8, <1>9, <1>10, <1>11, <1>12, <1>13,
     <1>14,
     <1>15, <1>16, <1>17, <1>18, <1>19, <1>20, <1>21, <1>22, <1>23, <1>24, <1>25, <1>26, <1>27, <1>28, <1>29
     DEF Next, LaunchStep, WaitStep

\* The initial state satisfies the invariant.
LEMMA InitInv == Init => IInv
  BY SettingsAssumption DEF Init, IInv, TypeOK, Stages, StageInv, StageOK, StopInv, StopOK,
     HolderInv, LeaseInv, LeaseOK, Protected, Early, Watched

\* The invariant is inductive.
LEMMA StepInv == IInv /\ [Next]_vars => IInv'
<1> SUFFICES ASSUME IInv, [Next]_vars PROVE IInv'
  OBVIOUS
<1>1. CASE Next
  BY <1>1, TypeStep, StageStep, StopStep, HolderStep, LeaseStep DEF IInv
<1>2. CASE UNCHANGED vars
  BY <1>2 DEF vars, IInv, TypeOK, StageInv, StageOK, StopInv, StopOK, HolderInv, LeaseInv,
     LeaseOK, Protected
<1> QED
  BY <1>1, <1>2

\* Every reachable state satisfies the invariant.
THEOREM Invariant == Spec => []IInv
  BY InitInv, StepInv, PTL DEF Spec

\* Type correctness of the task manager and the leases.
THEOREM TypeCorrect == Spec => []TypeOK
<1>1. IInv => TypeOK
  BY DEF IInv
<1> QED
  BY <1>1, Invariant, PTL

\* At most one client holds unexpired writer leases of the project: acquire
\* leaves leases of one client only, so a heartbeat has none of another client
\* to bring back.
THEOREM OneWriter == Spec => []SingleWriter
<1>1. IInv => SingleWriter
  BY DEF IInv, HolderInv, SingleWriter, Unexpired
<1> QED
  BY <1>1, Invariant, PTL

\* A live task holds its lease until its tree has ended, unless its client
\* has been revoked.
THEOREM LiveTaskHoldsLease == Spec => []WriterKeepsLease
<1>1. IInv => WriterKeepsLease
  <2> SUFFICES ASSUME IInv, NEW t \in TaskIds, job[t] = "live", t \notin revoked
               PROVE  \E l \in Unexpired : l.task = t /\ l.client = owner[t]
    BY DEF WriterKeepsLease
  <2>1. Protected(t)
    BY DEF IInv, StageInv, StageOK, Protected, Watched, TypeOK, Stages, Launching
  <2> QED
    BY <2>1 DEF IInv, TypeOK, Lease, LeaseInv, LeaseOK, Unexpired
<1> QED
  BY <1>1, Invariant, PTL

\* Emergency Stop and revocation find every live process tree in the map,
\* except those of launches in progress.
THEOREM LiveTreesManaged == Spec => []LiveIsManaged
<1>1. IInv => LiveIsManaged
  BY DEF IInv, StageInv, StageOK, LiveIsManaged, Watched, TypeOK, Stages, Launching
<1> QED
  BY <1>1, Invariant, PTL

\* A task that was stopped is not reported as completed or failed.
THEOREM StopsReported == Spec => []StopIsReported
<1>1. IInv => StopIsReported
  BY DEF IInv, TypeOK, StopInv, StopOK, StopIsReported
<1> QED
  BY <1>1, Invariant, PTL

\* Final statuses stay, whatever kill, timer or restart comes late.
THEOREM StatusesFinal == Spec => TerminalIsFinal
<1> DEFINE Keeps == \A t \in TaskIds : row[t] \in Terminal => row'[t] \in {row[t], "pruned"}
<1>1. IInv /\ [Next]_vars => [Keeps]_vars
  <2> SUFFICES ASSUME IInv, Next, NEW u \in TaskIds, row[u] \in Terminal
               PROVE  row'[u] \in {row[u], "pruned"}
    OBVIOUS
  <2>1. CASE UNCHANGED row
    BY <2>1
  <2>2. ASSUME NEW t \in TaskIds, InsertRow(t) \/ SpawnFails(t) \/ StoreStatus(t) \/ Prune(t)
        PROVE  row'[u] \in {row[u], "pruned"}
    BY <2>2 DEF InsertRow, SpawnFails, StoreStatus, Prune, IInv, TypeOK, StageInv, StageOK,
       Terminal, StopReasons
  <2>3. CASE Restart
    BY <2>3 DEF Restart, Recovered, IInv, TypeOK, Terminal, StopReasons
  <2> QED
    BY <2>1, <2>2, <2>3 DEF Next, LaunchStep, WaitStep, CheckLimit, WriteGuard, Spawn,
       StorePid,
       Register, Watch, LaunchFails, Retry, TreeEnded, Remove, Notify, Deadline, Kill, Cancel,
       GraceOver, Exit, HandleFinished, DirectWrite, RemoveClient, ReleaseLeases, StopAll,
       ListLeases, Heartbeat, Tick
<1> QED
  BY <1>1, Invariant, PTL DEF Spec, TerminalIsFinal
=============================================================================
