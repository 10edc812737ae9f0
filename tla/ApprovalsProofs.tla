--------------------------- MODULE ApprovalsProofs ---------------------------
(***************************************************************************)
(* Proofs about module Approvals, for every value of its constants.        *)
(*                                                                         *)
(* None of the properties is inductive by itself.  The invariant Inv adds  *)
(* what the code keeps true between its transactions: which call holds     *)
(* which execution, where a session came from, and that an approval that a *)
(* call is about to resume was closed by every invalidation that finished  *)
(* after the call was admitted.                                            *)
(***************************************************************************)
EXTENDS Approvals, TLAPS

Admitted == {"flush", "request", "insert", "resume", "begin"}
Naming   == {"flush", "resume", "begin"}
Holding  == {"forget", "run", "complete"}

\* A call carries the credential and the session it was admitted with.
CallAdmitted(c) ==
    c.pc \in Admitted =>
        /\ c.cred \in Credentials
        /\ c.session \in SessionIds
        /\ home[c.session] = c.cred

\* A call that names an approval names a row that exists.
CallNamesRow(c) ==
    /\ c.pc \in {"resume", "begin", "store"} => c.approval \in ApprovalIds
    /\ (c.pc \in Naming /\ c.approval # None) => approvals[c.approval].status # "none"

\* A call past dispatch holds the execution of its approval, and where it
\* stands tells how often the operation has run.
CallHolds(c) ==
    c.pc \in Holding =>
        /\ c.approval \in ApprovalIds
        /\ c.execution \in ExecutionIds
        /\ approvals[c.approval].execution = c.execution
        /\ executions[c.execution].status = "dispatched"
        /\ executions[c.execution].approval = c.approval
        /\ c.pc \in {"forget", "run"} => ran[c.approval] = 0
        /\ c.pc = "complete" => /\ c.outcome \in {"completed", "failed"}
                                /\ c.outcome = "completed" => ran[c.approval] = 1

\* A resume finds its approval closed once the invalidation that followed the
\* end of its session has completed, and likewise for its policy revision.
CallRevoked(c) ==
    /\ (/\ c.pc \in Naming
        /\ c.approval # None
        /\ approvals[c.approval].session = c.session
        /\ c.session \in purged) => approvals[c.approval].status \notin Open
    /\ (/\ c.pc = "begin"
        /\ approvals[c.approval].revision = c.revision
        /\ c.revision < settled) => approvals[c.approval].status \notin Open

CallOK(c) == CallAdmitted(c) /\ CallNamesRow(c) /\ CallHolds(c) /\ CallRevoked(c)

\* No two calls hold the same execution.
HoldersDiffer ==
    \A j, k \in Calls :
        (j # k /\ calls[j].pc \in Holding /\ calls[k].pc \in Holding) =>
            calls[j].execution # calls[k].execution

\* The execution id of a row, its execution record and the consent.
RowOK(a) ==
    /\ approvals[a].status \in {"none", "pending"} => approvals[a].execution = None
    /\ approvals[a].status \in Allowed => a \in consented
    /\ approvals[a].execution # None =>
          /\ a \in consented
          /\ executions[approvals[a].execution].approval = a
          /\ executions[approvals[a].execution].status # "none"
    /\ ran[a] # 0 => approvals[a].execution # None
    /\ ran[a] \in {0, 1}

\* A row belongs to the client its session was opened for.
RowHome(a) ==
    approvals[a].status # "none" =>
        /\ approvals[a].session \in SessionIds
        /\ home[approvals[a].session] # None
        /\ approvals[a].client = ClientOf[home[approvals[a].session]]

\* A record that says completed is of an operation that ran.
CompletedRan ==
    \A e \in ExecutionIds : executions[e].status = "completed" =>
        executions[e].approval \in ApprovalIds /\ ran[executions[e].approval] = 1

\* Active sessions know their credential; an invalidated session is not active.
SessionsOK ==
    /\ \A cr \in Credentials : active[cr] # None => home[active[cr]] = cr
    /\ \A s \in purged : home[s] # None /\ \A cr \in Credentials : active[cr] # s
    /\ settled <= revision

Inv ==
    /\ TypeOK
    /\ \A k \in Calls : CallOK(calls[k])
    /\ HoldersDiffer
    /\ \A a \in ApprovalIds : RowOK(a) /\ RowHome(a)
    /\ CompletedRan
    /\ SessionsOK

-----------------------------------------------------------------------------
\* An idle call satisfies every part of the invariant about calls.
LEMMA IdleOK == Idle \in Call /\ CallOK(Idle)
  BY DEF Idle, Call, CallOK, CallAdmitted, CallNamesRow, CallHolds, CallRevoked,
         Admitted, Naming, Holding

\* A step of one call that changes nothing another part of Inv looks at.
LEMMA CallStep ==
    ASSUME Inv, NEW k \in Calls, NEW r \in Call, CallOK(r),
           r.pc \in Holding => calls[k].pc \in Holding /\ r.execution = calls[k].execution,
           calls' = [calls EXCEPT ![k] = r],
           ops' \in SUBSET ApprovalIds,
           UNCHANGED <<approvals, executions, sessionVars, policyVars, purges, dropping,
                       historyVars>>
    PROVE  Inv'
<1>1. TypeOK'
  BY DEF Inv, TypeOK, sessionVars, policyVars, historyVars
<1>2. ASSUME NEW j \in Calls PROVE CallOK(calls[j])'
  <2>1. calls'[j] = IF j = k THEN r ELSE calls[j]
    BY DEF Inv, TypeOK
  <2> QED
    BY <2>1 DEF Inv, CallOK, CallAdmitted, CallNamesRow, CallHolds, CallRevoked,
                sessionVars, policyVars, historyVars
<1>3. HoldersDiffer'
  BY DEF Inv, TypeOK, HoldersDiffer
<1>4. \A a \in ApprovalIds : RowOK(a)' /\ RowHome(a)'
  BY DEF Inv, RowOK, RowHome, sessionVars, historyVars
<1>5. CompletedRan' /\ SessionsOK'
  BY DEF Inv, CompletedRan, SessionsOK, sessionVars, policyVars, historyVars
<1> QED
  BY <1>1, <1>2, <1>3, <1>4, <1>5 DEF Inv


\* The steps of a call that only move the call.
LEMMA CallActions ==
    ASSUME Inv, NEW k \in Calls,
           \/ \E cr \in Credentials, t \in Known \cup {None} : JoinSession(k, cr, t)
           \/ RequestApproval(k) \/ StoreSnapshot(k) \/ ReadContext(k) \/ RefuseResume(k)
           \/ RefuseScope(k) \/ ForgetSnapshot(k) \/ AbandonOperation(k) \/ FailedAccess(k)
    PROVE  Inv'
<1> USE DEF sessionVars, policyVars, historyVars
<1> DEFINE Frame == UNCHANGED <<approvals, executions, sessionVars, policyVars, purges,
                                dropping, historyVars>>
<1>1. calls[k] \in Call /\ revision \in Nat /\ CallOK(calls[k]) /\ ops \in SUBSET ApprovalIds
      /\ settled \in Nat /\ settled <= revision
  BY DEF Inv, TypeOK, SessionsOK
<1>2. ASSUME NEW cr \in Credentials, NEW t \in Known \cup {None}, JoinSession(k, cr, t)
      PROVE  Inv'
  <2> DEFINE r == [Idle EXCEPT !.pc = FirstStep(t), !.cred = cr, !.session = active[cr],
                               !.approval = t]
  <2>1. /\ active[cr] \in SessionIds
        /\ t \in ApprovalIds \cup {None}
        /\ home[active[cr]] = cr
        /\ active[cr] \notin purged
    BY <1>2 DEF JoinSession, Known, Inv, TypeOK, SessionsOK
  <2>2. r \in Call
    BY <2>1 DEF Call, Idle, FirstStep
  <2>3. /\ r.pc = FirstStep(t) /\ r.cred = cr /\ r.session = active[cr]
        /\ r.approval = t
    BY DEF Idle
  <2>4. t # None => approvals[t].status # "none"
    BY DEF Known
  <2>5. calls' = [calls EXCEPT ![k] = r] /\ Frame /\ ops' = ops
    BY <1>2 DEF JoinSession
  <2> HIDE DEF r
  <2>6. CallOK(r)
    BY <2>1, <2>3, <2>4
       DEF CallOK, CallAdmitted, CallNamesRow, CallHolds, CallRevoked, FirstStep,
           Admitted, Naming, Holding
  <2>7. r.pc \notin Holding
    BY <2>3 DEF Holding, FirstStep
  <2> QED
    BY <1>1, <2>2, <2>5, <2>6, <2>7, CallStep
<1>3. ASSUME RequestApproval(k) PROVE Inv'
  <2> DEFINE r == [calls[k] EXCEPT !.pc = "insert", !.revision = revision]
  <2>1. r \in Call /\ r.pc = "insert" /\ r.cred = calls[k].cred /\ r.session = calls[k].session
    BY <1>1 DEF Call
  <2>2. calls' = [calls EXCEPT ![k] = r] /\ Frame /\ ops' = ops
    BY <1>3 DEF RequestApproval
  <2> HIDE DEF r
  <2>3. CallOK(r) /\ r.pc \notin Holding
    BY <1>1, <1>3, <2>1 DEF RequestApproval, CallOK, CallAdmitted, CallNamesRow, CallHolds,
                            CallRevoked, Admitted, Naming, Holding
  <2> QED
    BY <1>1, <2>1, <2>2, <2>3, CallStep
<1>4. ASSUME ReadContext(k) PROVE Inv'
  <2> DEFINE late == approvals[calls[k].approval].left < 0
  <2> DEFINE present == calls[k].approval \in ops
  <2> DEFINE r == [calls[k] EXCEPT !.pc = "begin", !.revision = revision,
                                   !.snapshot = present, !.late = late]
  <2>1. r \in Call /\ r.pc = "begin" /\ r.cred = calls[k].cred /\ r.session = calls[k].session
        /\ r.approval = calls[k].approval /\ r.revision = revision
    <3>1. late \in BOOLEAN /\ present \in BOOLEAN
      OBVIOUS
    <3> HIDE DEF late, present
    <3>2. r = [calls[k] EXCEPT !.pc = "begin", !.revision = revision,
                               !.snapshot = present, !.late = late]
      OBVIOUS
    <3>3. calls[k] \in Call /\ revision \in Nat
      BY <1>1
    <3> HIDE DEF r
    <3> QED
      BY <3>1, <3>2, <3>3, ZenonT(60) DEF Call
  <2>2. calls' = [calls EXCEPT ![k] = r] /\ Frame /\ ops' = ops
    BY <1>4 DEF ReadContext
  <2> HIDE DEF r
  <2>3. CallOK(r) /\ r.pc \notin Holding
    BY <1>1, <1>4, <2>1 DEF ReadContext, CallOK, CallAdmitted, CallNamesRow, CallHolds,
                            CallRevoked, Admitted, Naming, Holding
  <2> QED
    BY <1>1, <2>1, <2>2, <2>3, CallStep
<1>5. ASSUME ForgetSnapshot(k) PROVE Inv'
  <2> DEFINE r == [calls[k] EXCEPT !.pc = "run"]
  <2>1. r \in Call /\ r.pc = "run" /\ r.approval = calls[k].approval
        /\ r.execution = calls[k].execution
    BY <1>1 DEF Call
  <2>2. calls' = [calls EXCEPT ![k] = r] /\ Frame /\ ops' \in SUBSET ApprovalIds
    BY <1>1, <1>5 DEF ForgetSnapshot
  <2> HIDE DEF r
  <2>3. CallOK(r) /\ calls[k].pc \in Holding
    BY <1>1, <1>5, <2>1 DEF ForgetSnapshot, CallOK, CallAdmitted, CallNamesRow, CallHolds,
                            CallRevoked, Admitted, Naming, Holding
  <2> QED
    BY <1>1, <2>1, <2>2, <2>3, CallStep
<1>6. ASSUME AbandonOperation(k) PROVE Inv'
  <2> DEFINE r == [calls[k] EXCEPT !.pc = "complete", !.outcome = "failed"]
  <2>1. r \in Call /\ r.pc = "complete" /\ r.approval = calls[k].approval
        /\ r.execution = calls[k].execution /\ r.outcome = "failed"
    BY <1>1 DEF Call
  <2>2. calls' = [calls EXCEPT ![k] = r] /\ Frame /\ ops' = ops
    BY <1>6 DEF AbandonOperation
  <2> HIDE DEF r
  <2>3. CallOK(r) /\ calls[k].pc \in Holding
    BY <1>1, <1>6, <2>1 DEF AbandonOperation, CallOK, CallAdmitted, CallNamesRow, CallHolds,
                            CallRevoked, Admitted, Naming, Holding
  <2> QED
    BY <1>1, <2>1, <2>2, <2>3, CallStep
<1>7. ASSUME StoreSnapshot(k) \/ RefuseResume(k) \/ RefuseScope(k) PROVE Inv'
  <2>1. calls' = [calls EXCEPT ![k] = Idle] /\ Frame
    BY <1>7 DEF StoreSnapshot, RefuseResume, RefuseScope
  <2>2. ops' \in SUBSET ApprovalIds
    BY <1>1, <1>7 DEF StoreSnapshot, RefuseResume, RefuseScope, CallOK, CallNamesRow
  <2>3. Idle.pc \notin Holding
    BY DEF Idle, Holding
  <2> QED
    BY <2>1, <2>2, <2>3, IdleOK, CallStep
<1>8. ASSUME FailedAccess(k) PROVE Inv'
  <2>1. Idle.pc \notin Holding
    BY DEF Idle, Holding
  <2>2. calls' = [calls EXCEPT ![k] = Idle] /\ Frame /\ ops' = ops
    BY <1>8 DEF FailedAccess
  <2> QED
    BY <1>1, <2>1, <2>2, IdleOK, CallStep
<1> QED
  BY <1>2, <1>3, <1>4, <1>5, <1>6, <1>7, <1>8

-----------------------------------------------------------------------------
\* Open rows are closed: refusal, expiry, invalidation.  Sessions and the
\* revision count as invalidated only when all their open rows are closed.
LEMMA CloseStep ==
    ASSUME Inv, NEW H \in SUBSET ApprovalIds, NEW st \in Closed,
           \A a \in H : approvals[a].status \in Open,
           approvals' = SetStatus(H, st),
           UNCHANGED <<executions, sessionVars, revision, ran, consented>>,
           calls' \in [Calls -> Call],
           \A k \in Calls :
              \/ calls'[k] = calls[k]
              \/ calls'[k] = Idle
              \/ /\ calls[k].pc = "flush"
                 /\ calls'[k].pc = FirstStep(calls[k].approval)
                 /\ calls'[k].cred = calls[k].cred
                 /\ calls'[k].session = calls[k].session
                 /\ calls'[k].approval = calls[k].approval,
           ops' \in SUBSET ApprovalIds,
           dropping' \in SUBSET ApprovalIds,
           purges' \in SUBSET purges,
           settings' \in {"idle", "invalidate"},
           purged' \in SUBSET SessionIds,
           \A s \in purged' :
              \/ s \in purged
              \/ /\ home[s] # None
                 /\ \A cr \in Credentials : active[cr] # s
                 /\ \A a \in ApprovalIds :
                      (approvals[a].status \in Open /\ approvals[a].session = s) => a \in H,
           \/ settled' = settled
           \/ /\ settled' = revision
              /\ \A a \in ApprovalIds : approvals[a].status \in Open => a \in H
    PROVE  Inv'
<1> USE DEF sessionVars
<1>1. ASSUME NEW a \in ApprovalIds
      PROVE  /\ approvals'[a] \in Row
             /\ approvals'[a].status = IF a \in H THEN st ELSE approvals[a].status
             /\ approvals'[a].client = approvals[a].client
             /\ approvals'[a].session = approvals[a].session
             /\ approvals'[a].revision = approvals[a].revision
             /\ approvals'[a].execution = approvals[a].execution
  <2>1. approvals[a] \in Row
    BY DEF Inv, TypeOK
  <2>2. approvals'[a] = IF a \in H THEN [approvals[a] EXCEPT !.status = st] ELSE approvals[a]
    BY DEF SetStatus
  <2> QED
    BY <2>1, <2>2 DEF Row
<1>2. TypeOK'
  <2>1. approvals' \in [ApprovalIds -> Row]
    BY <1>1 DEF SetStatus
  <2> QED
    BY <2>1 DEF Inv, TypeOK
<1>3. ASSUME NEW k \in Calls PROVE CallOK(calls[k])'
  <2>1. CallOK(calls[k]) /\ calls[k] \in Call /\ calls'[k] \in Call
    BY DEF Inv, TypeOK
  <2>2. Idle.pc = "idle"
    BY DEF Idle
  <2>3. CallAdmitted(calls[k])'
    BY <2>1, <2>2 DEF CallOK, CallAdmitted, Admitted, FirstStep
  <2>4. CallNamesRow(calls[k])'
    BY <2>1, <2>2, <1>1, NoneIsNoId DEF CallOK, CallNamesRow, Naming, FirstStep, Open, Closed, Allowed, Call
  <2>5. CallHolds(calls[k])'
    BY <2>1, <2>2, <1>1 DEF CallOK, CallHolds, Holding, FirstStep
  <2>6. CallRevoked(calls[k])'
    BY <2>1, <2>2, <1>1, NoneIsNoId
       DEF CallOK, CallRevoked, CallNamesRow, Naming, FirstStep, Open, Closed, Allowed, Call
  <2> QED
    BY <2>3, <2>4, <2>5, <2>6 DEF CallOK
<1>4. HoldersDiffer'
  BY DEF Inv, HoldersDiffer, Holding, Idle, FirstStep
<1>5. \A a \in ApprovalIds : RowOK(a)' /\ RowHome(a)'
  BY <1>1 DEF Inv, RowOK, RowHome, Open, Closed, Allowed
<1>6. CompletedRan'
  BY DEF Inv, CompletedRan
<1>7. SessionsOK'
  BY DEF Inv, TypeOK, SessionsOK
<1> QED
  BY <1>2, <1>3, <1>4, <1>5, <1>6, <1>7 DEF Inv

\* invalidate closes every open row of the sessions it covers.
LEMMA InvalidateCovers ==
    ASSUME Inv, NEW p, NEW s \in Covered(p), NEW a \in ApprovalIds,
           approvals[a].status \in Open, approvals[a].session = s
    PROVE  Matches(p, a)
  BY DEF Inv, RowHome, Covered, Matches, Open, Allowed

\* Every transaction that closes rows: refusals, late decisions and resumes,
\* invalidate and expire_sweep.
LEMMA CloseActions ==
    ASSUME Inv,
           \/ \E a \in ApprovalIds : Deny(a) \/ DecideLate(a)
           \/ \E k \in Calls : FlushExpired(k) \/ VoidResume(k) \/ FailedFlush(k)
           \/ \E p \in purges : Invalidate(p)
           \/ ExpireSweep \/ InvalidateForPolicy \/ FailedInvalidation
    PROVE  Inv'
<1> USE DEF sessionVars, policyVars, historyVars
<1>0. /\ calls \in [Calls -> Call] /\ approvals \in [ApprovalIds -> Row]
      /\ ops \in SUBSET ApprovalIds /\ dropping \in SUBSET ApprovalIds
      /\ purged \in SUBSET SessionIds /\ settings \in {"idle", "invalidate"}
  BY DEF Inv, TypeOK
<1>1. ASSUME NEW a \in ApprovalIds, Deny(a) \/ DecideLate(a) PROVE Inv'
  <2> DEFINE H == {a}
  <2>1. PICK st \in {"denied", "expired"} : approvals' = [approvals EXCEPT ![a].status = st]
    BY <1>1 DEF Deny, DecideLate
  <2>2. approvals' = SetStatus(H, st)
    BY <1>0, <2>1 DEF SetStatus
  <2>3. st \in Closed /\ approvals[a].status \in Open
    BY <1>1 DEF Closed, Open, Deny, DecideLate, Decidable
  <2>4. /\ UNCHANGED <<executions, sessionVars, policyVars, ran, consented, calls, ops,
                       purges, purged, settled>>
        /\ dropping' \in SUBSET ApprovalIds
    BY <1>0, <1>1 DEF Deny, DecideLate
  <2> QED
    BY <1>0, <2>2, <2>3, <2>4, CloseStep
<1>2. ASSUME NEW k \in Calls, VoidResume(k) PROVE Inv'
  <2> DEFINE H == {calls[k].approval}
  <2> DEFINE st == Verdict(k)
  <2>1. CallOK(calls[k])
    BY DEF Inv
  <2>2. H \in SUBSET ApprovalIds /\ \A a \in H : approvals[a].status \in Open
    BY <1>2, <2>1 DEF VoidResume, Resumable, CallOK, CallNamesRow, Open
  <2>3. st \in Closed
    BY <1>2 DEF VoidResume, Verdict, Closed
  <2>4. approvals' = SetStatus(H, st)
    BY <1>0, <1>2, <2>2 DEF SetStatus, VoidResume
  <2>5. /\ UNCHANGED <<executions, sessionVars, policyVars, ran, consented, ops, dropping,
                       purges, purged, settled>>
        /\ calls' \in [Calls -> Call]
        /\ \A j \in Calls : calls'[j] \in {calls[j], Idle}
    BY <1>0, <1>2, IdleOK DEF VoidResume
  <2> HIDE DEF H, st
  <2> QED
    BY <1>0, <2>2, <2>3, <2>4, <2>5, CloseStep
<1>3. ASSUME ExpireSweep PROVE Inv'
  <2> DEFINE H == {a \in ApprovalIds : /\ approvals[a].status \in {"pending", "allowed_once"}
                                       /\ approvals[a].left < 0}
  <2>1. H \in SUBSET ApprovalIds /\ \A a \in H : approvals[a].status \in Open
    BY DEF Open, Allowed
  <2>2. approvals' = SetStatus(H, "expired") /\ dropping' = dropping \cup H
    BY <1>3 DEF ExpireSweep
  <2> HIDE DEF H
  <2>3. "expired" \in Closed /\ dropping' \in SUBSET ApprovalIds
    BY <1>0, <2>1, <2>2 DEF Closed
  <2>4. UNCHANGED <<executions, sessionVars, policyVars, ran, consented, calls, ops,
                    purges, purged, settled>>
    BY <1>3 DEF ExpireSweep
  <2> QED
    BY <1>0, <2>1, <2>2, <2>3, <2>4, CloseStep
<1>4. ASSUME NEW p, InvalidateRows(p)
      PROVE  LET H == {a \in ApprovalIds : Matches(p, a)}
             IN  /\ H \in SUBSET ApprovalIds /\ \A a \in H : approvals[a].status \in Open
                 /\ approvals' = SetStatus(H, "invalidated")
                 /\ dropping' \in SUBSET ApprovalIds
                 /\ purged' \in SUBSET SessionIds
                 /\ \A s \in purged' :
                      \/ s \in purged
                      \/ /\ home[s] # None
                         /\ \A cr \in Credentials : active[cr] # s
                         /\ \A a \in ApprovalIds :
                              (approvals[a].status \in Open /\ approvals[a].session = s) => a \in H
  <2> DEFINE H == {a \in ApprovalIds : Matches(p, a)}
  <2>1. \A s \in Covered(p) : \A a \in ApprovalIds :
            (approvals[a].status \in Open /\ approvals[a].session = s) => a \in H
    BY InvalidateCovers
  <2>2. \A a \in H : approvals[a].status \in Open
    BY DEF Matches
  <2>3. /\ approvals' = SetStatus(H, "invalidated") /\ dropping' = dropping \cup H
        /\ purged' = purged \cup Covered(p)
    BY <1>4 DEF InvalidateRows
  <2>4. \A s \in Covered(p) : s \in SessionIds /\ home[s] # None
                              /\ \A cr \in Credentials : active[cr] # s
    BY DEF Covered
  <2> QED
    BY <1>0, <2>1, <2>2, <2>3, <2>4
<1>5. "invalidated" \in Closed
  BY DEF Closed
<1>6. ASSUME NEW p \in purges, Invalidate(p) PROVE Inv'
  <2>1. /\ UNCHANGED <<executions, sessionVars, policyVars, ran, consented, calls, ops, settled>>
        /\ purges' \in SUBSET purges
        /\ InvalidateRows(p)
    BY <1>6 DEF Invalidate
  <2> QED
    BY <1>0, <1>4, <1>5, <2>1, CloseStep
<1>7. ASSUME InvalidateForPolicy PROVE Inv'
  <2> DEFINE p == [client |-> NoFilter, session |-> NoFilter]
  <2>1. /\ UNCHANGED <<executions, sessionVars, revision, ran, consented, calls, ops, purges>>
        /\ settings' = "idle" /\ settled' = revision
        /\ InvalidateRows(p)
    BY <1>7 DEF InvalidateForPolicy
  <2>2. \A a \in ApprovalIds : approvals[a].status \in Open => Matches(p, a)
    BY DEF Matches
  <2> HIDE DEF p
  <2> QED
    BY <1>0, <1>4, <1>5, <2>1, <2>2, CloseStep
<1>8. ASSUME NEW k \in Calls, FlushExpired(k) PROVE Inv'
  <2> DEFINE p == [client |-> NoFilter, session |-> calls[k].owed]
  <2> DEFINE r == [calls[k] EXCEPT !.pc = FirstStep(calls[k].approval), !.owed = None]
  <2>1. calls[k] \in Call
    BY <1>0
  <2>2. r \in Call /\ r.pc = FirstStep(calls[k].approval) /\ r.cred = calls[k].cred
        /\ r.session = calls[k].session /\ r.approval = calls[k].approval
    BY <2>1 DEF Call, FirstStep
  <2>3. /\ UNCHANGED <<executions, sessionVars, policyVars, ran, consented, ops, purges, settled>>
        /\ calls[k].pc = "flush"
        /\ calls' = [calls EXCEPT ![k] = r]
        /\ InvalidateRows(p)
    BY <1>8 DEF FlushExpired
  <2> HIDE DEF p, r
  <2>4. calls' \in [Calls -> Call] /\ \A j \in Calls : calls'[j] = IF j = k THEN r ELSE calls[j]
    BY <1>0, <2>2, <2>3
  <2>5. PICK H \in SUBSET ApprovalIds :
              /\ \A a \in H : approvals[a].status \in Open
              /\ approvals' = SetStatus(H, "invalidated")
              /\ dropping' \in SUBSET ApprovalIds
              /\ purged' \in SUBSET SessionIds
              /\ \A s \in purged' :
                   \/ s \in purged
                   \/ /\ home[s] # None
                      /\ \A cr \in Credentials : active[cr] # s
                      /\ \A a \in ApprovalIds :
                           (approvals[a].status \in Open /\ approvals[a].session = s) => a \in H
    BY <1>4, <2>3
  <2>6. \A j \in Calls :
          \/ calls'[j] = calls[j]
          \/ /\ calls[j].pc = "flush"
             /\ calls'[j].pc = FirstStep(calls[j].approval)
             /\ calls'[j].cred = calls[j].cred
             /\ calls'[j].session = calls[j].session
             /\ calls'[j].approval = calls[j].approval
    BY <2>2, <2>3, <2>4
  <2> QED
    BY <1>0, <1>5, <2>3, <2>4, <2>5, <2>6, CloseStep
<1>9. ASSUME NEW p, PartlyInvalidate(p)
      PROVE  \E H \in SUBSET ApprovalIds :
                 /\ \A a \in H : approvals[a].status \in Open
                 /\ approvals' = SetStatus(H, "invalidated")
  BY <1>9 DEF PartlyInvalidate, Matches
<1>10. ASSUME FailedInvalidation PROVE Inv'
  <2>1. PICK p : PartlyInvalidate(p)
    BY <1>10 DEF FailedInvalidation
  <2>2. PICK H \in SUBSET ApprovalIds : /\ \A a \in H : approvals[a].status \in Open
                                        /\ approvals' = SetStatus(H, "invalidated")
    BY <1>9, <2>1
  <2>3. /\ UNCHANGED <<executions, sessionVars, revision, calls, ops, dropping, historyVars>>
        /\ purges' \in SUBSET purges /\ settings' \in {"idle", "invalidate"}
    BY <1>0, <1>10 DEF FailedInvalidation
  <2> QED
    BY <1>0, <1>5, <2>2, <2>3, CloseStep
<1>11. ASSUME NEW k \in Calls, FailedFlush(k) PROVE Inv'
  <2> DEFINE r == [calls[k] EXCEPT !.pc = FirstStep(calls[k].approval), !.owed = None]
  <2>1. calls[k] \in Call
    BY <1>0
  <2>2. r \in Call /\ r.pc = FirstStep(calls[k].approval) /\ r.cred = calls[k].cred
        /\ r.session = calls[k].session /\ r.approval = calls[k].approval
    BY <2>1 DEF Call, FirstStep
  <2>3. /\ UNCHANGED <<executions, sessionVars, policyVars, ops, purges, dropping, historyVars>>
        /\ calls[k].pc = "flush"
        /\ calls' = [calls EXCEPT ![k] = r]
    BY <1>11 DEF FailedFlush
  <2> HIDE DEF r
  <2>4. calls' \in [Calls -> Call] /\ \A j \in Calls : calls'[j] = IF j = k THEN r ELSE calls[j]
    BY <1>0, <2>2, <2>3
  <2>5. PICK H \in SUBSET ApprovalIds : /\ \A a \in H : approvals[a].status \in Open
                                        /\ approvals' = SetStatus(H, "invalidated")
    BY <1>9, <1>11 DEF FailedFlush
  <2>6. \A j \in Calls :
          \/ calls'[j] = calls[j]
          \/ /\ calls[j].pc = "flush"
             /\ calls'[j].pc = FirstStep(calls[j].approval)
             /\ calls'[j].cred = calls[j].cred
             /\ calls'[j].session = calls[j].session
             /\ calls'[j].approval = calls[j].approval
    BY <2>2, <2>3, <2>4
  <2> QED
    BY <1>0, <1>5, <2>3, <2>4, <2>5, <2>6, CloseStep
<1> QED
  BY <1>1, <1>2, <1>3, <1>6, <1>7, <1>8, <1>10, <1>11

-----------------------------------------------------------------------------
\* Steps that end sessions, raise the revision or drop snapshots.
LEMMA FrameStep ==
    ASSUME Inv,
           UNCHANGED <<approvals, executions, home, calls, historyVars>>,
           active' \in [Credentials -> SessionIds \cup {None}],
           \A cr \in Credentials : active'[cr] \in {None, active[cr]},
           purges' \in SUBSET Purge,
           settings' \in {"idle", "invalidate"},
           revision' \in Nat, revision <= revision',
           ops' \in SUBSET ApprovalIds, dropping' \in SUBSET ApprovalIds
    PROVE  Inv'
<1> USE DEF historyVars
<1>1. TypeOK'
  BY DEF Inv, TypeOK
<1>2. \A k \in Calls : CallOK(calls[k])'
  BY DEF Inv, CallOK, CallAdmitted, CallNamesRow, CallHolds, CallRevoked
<1>3. HoldersDiffer' /\ CompletedRan'
  BY DEF Inv, HoldersDiffer, CompletedRan
<1>4. \A a \in ApprovalIds : RowOK(a)' /\ RowHome(a)'
  BY DEF Inv, RowOK, RowHome
<1>5. SessionsOK'
  BY NoneIsNoId DEF Inv, TypeOK, SessionsOK
<1> QED
  BY <1>1, <1>2, <1>3, <1>4, <1>5 DEF Inv

\* The operations that revoke, up to their invalidation.
LEMMA FrameActions ==
    ASSUME Inv, \/ Revocation \/ UpdateSettings
                \/ \E a \in ApprovalIds : DropSnapshot(a)
    PROVE  Inv'
<1> USE DEF sessionVars, policyVars, historyVars
<1>0. /\ active \in [Credentials -> SessionIds \cup {None}] /\ purges \in SUBSET Purge
      /\ settings \in {"idle", "invalidate"} /\ revision \in Nat
      /\ ops \in SUBSET ApprovalIds /\ dropping \in SUBSET ApprovalIds
  BY DEF Inv, TypeOK
<1>1. ASSUME NEW crs, NEW owed \in SUBSET Purge, EndSessions(crs, owed) PROVE Inv'
  <2>1. /\ active' \in [Credentials -> SessionIds \cup {None}]
        /\ \A cr \in Credentials : active'[cr] \in {None, active[cr]}
        /\ purges' \in SUBSET Purge
        /\ UNCHANGED <<approvals, executions, ops, home, policyVars, dropping, calls, historyVars>>
    BY <1>0, <1>1 DEF EndSessions
  <2> QED
    BY <1>0, <2>1, FrameStep
<1>2. ASSUME Revocation PROVE Inv'
  <2>1. ASSUME NEW cr \in Credentials, EndSession(cr) PROVE Inv'
    <3> DEFINE owed == {[client |-> NoFilter, session |-> active[cr]]}
    <3>1. owed \in SUBSET Purge /\ EndSessions({cr}, owed)
      BY <1>0, <2>1 DEF EndSession, Purge
    <3> QED
      BY <1>1, <3>1
  <2>2. ASSUME NEW cr \in Credentials, EndCredential(cr) PROVE Inv'
    BY <1>1, <2>2 DEF EndCredential
  <2>3. ASSUME NEW cr \in Credentials, RevokeCredential(cr) PROVE Inv'
    <3> DEFINE owed == {[client |-> ClientOf[cr], session |-> NoFilter]}
    <3>1. owed \in SUBSET Purge /\ EndSessions({cr}, owed)
      BY <2>3, ClientOfType DEF RevokeCredential, Purge
    <3> QED
      BY <1>1, <3>1
  <2>4. ASSUME NEW c \in Clients, RemoveClient(c) PROVE Inv'
    <3> DEFINE owed == {[client |-> c, session |-> NoFilter]}
    <3>1. owed \in SUBSET Purge
          /\ EndSessions({cr \in Credentials : ClientOf[cr] = c}, owed)
      BY <2>4 DEF RemoveClient, Purge
    <3> QED
      BY <1>1, <3>1
  <2>5. ASSUME InvalidateAll PROVE Inv'
    <3> DEFINE owed == {[client |-> NoFilter, session |-> NoFilter]}
    <3>1. owed \in SUBSET Purge /\ EndSessions(Credentials, owed)
      BY <2>5 DEF InvalidateAll, Purge
    <3> QED
      BY <1>1, <3>1
  <2> QED
    BY <1>2, <2>1, <2>2, <2>3, <2>4, <2>5 DEF Revocation
<1>3. ASSUME UpdateSettings PROVE Inv'
  <2>1. /\ revision' \in Nat /\ revision <= revision' /\ settings' \in {"idle", "invalidate"}
        /\ UNCHANGED <<approvals, executions, ops, sessionVars, purges, dropping, calls, historyVars>>
    BY <1>0, <1>3 DEF UpdateSettings
  <2> QED
    BY <1>0, <2>1, FrameStep
<1>4. ASSUME NEW a \in ApprovalIds, DropSnapshot(a) PROVE Inv'
  <2>1. /\ ops' \in SUBSET ApprovalIds /\ dropping' \in SUBSET ApprovalIds
        /\ UNCHANGED <<approvals, executions, sessionVars, policyVars, purges, calls, historyVars>>
    BY <1>0, <1>4 DEF DropSnapshot
  <2> QED
    BY <1>0, <2>1, FrameStep
<1> QED
  BY <1>2, <1>3, <1>4

\* Time passes.
LEMMA TickStep == Inv /\ Tick => Inv'
<1> SUFFICES ASSUME Inv, Tick PROVE Inv'
  OBVIOUS
<1> USE DEF sessionVars, policyVars, historyVars
<1>1. ASSUME NEW a \in ApprovalIds
      PROVE  /\ approvals'[a] \in Row
             /\ approvals'[a].status = approvals[a].status
             /\ approvals'[a].client = approvals[a].client
             /\ approvals'[a].session = approvals[a].session
             /\ approvals'[a].revision = approvals[a].revision
             /\ approvals'[a].execution = approvals[a].execution
  <2> DEFINE x == approvals[a]
  <2>1. x \in Row
    BY DEF Inv, TypeOK
  <2>2. approvals'[a] = IF x.status \in Open /\ x.left >= 0
                        THEN [x EXCEPT !.left = x.left - 1] ELSE x
    BY DEF Tick
  <2> HIDE DEF x
  <2>3. (x.left >= 0) => (x.left - 1 \in -1..Lifetime)
    BY <2>1, BoundsType DEF Row
  <2>4. approvals'[a] \in Row
    BY <2>1, <2>2, <2>3 DEF Row
  <2> QED
    BY <2>1, <2>2, <2>4 DEF Row, x
<1>2. approvals' \in [ApprovalIds -> Row]
  BY <1>1 DEF Tick
<1>3. TypeOK'
  BY <1>2 DEF Inv, TypeOK, Tick
<1>4. ASSUME NEW k \in Calls PROVE CallOK(calls[k])'
  <2>1. CallOK(calls[k]) /\ calls'[k] = calls[k] /\ calls[k].approval \in ApprovalIds \cup {None}
    BY DEF Inv, TypeOK, Tick, Call
  <2> QED
    BY <1>1, <2>1 DEF Inv, Tick, CallOK, CallAdmitted, CallNamesRow, CallHolds, CallRevoked
<1>5. HoldersDiffer' /\ CompletedRan'
  BY DEF Inv, Tick, HoldersDiffer, CompletedRan
<1>6. \A a \in ApprovalIds : RowOK(a)' /\ RowHome(a)'
  BY <1>1 DEF Inv, Tick, RowOK, RowHome
<1>7. SessionsOK'
  BY DEF Inv, Tick, SessionsOK
<1> QED
  BY <1>3, <1>4, <1>5, <1>6, <1>7 DEF Inv

\* A session is opened, in place of an expired one or not.
LEMMA OpenSessionStep ==
    ASSUME Inv, NEW k \in Calls, NEW cr \in Credentials, NEW s \in SessionIds,
           NEW t \in Known \cup {None}, OpenSession(k, cr, s, t)
    PROVE  Inv'
<1> USE DEF sessionVars, policyVars, historyVars
<1> DEFINE r == [Idle EXCEPT !.pc = IF active[cr] = None THEN FirstStep(t) ELSE "flush",
                             !.cred = cr, !.session = s, !.owed = active[cr],
                             !.approval = t]
<1>1. /\ active[cr] \in SessionIds \cup {None} /\ t \in ApprovalIds \cup {None}
      /\ t # None => approvals[t].status # "none"
      /\ home[s] = None
      /\ s \notin purged
  BY DEF Known, Inv, TypeOK, SessionsOK, OpenSession
<1>2. r \in Call
  BY <1>1 DEF Call, Idle, FirstStep
<1>3. /\ r.pc = IF active[cr] = None THEN FirstStep(t) ELSE "flush"
      /\ r.cred = cr /\ r.session = s /\ r.approval = t
  BY DEF Idle
<1>4. /\ calls' = [calls EXCEPT ![k] = r]
      /\ active' = [active EXCEPT ![cr] = s]
      /\ home' = [home EXCEPT ![s] = cr]
      /\ UNCHANGED <<approvals, executions, ops, policyVars, purges, dropping, historyVars>>
  BY DEF OpenSession
<1> HIDE DEF r
<1>5. TypeOK'
  BY <1>2, <1>4 DEF Inv, TypeOK
<1>6. \A x \in SessionIds : home[x] # None => home'[x] = home[x]
  BY <1>1, <1>4 DEF Inv, TypeOK
<1>7. home'[s] = cr /\ cr # None
  BY <1>4, NoneIsNoId DEF Inv, TypeOK
<1>8. ASSUME NEW j \in Calls PROVE CallOK(calls[j])'
  <2>1. CASE j = k
    <3>1. calls'[j] = r
      BY <1>4, <2>1 DEF Inv, TypeOK
    <3>2. CallAdmitted(calls[j])'
      BY <1>3, <1>7, <3>1 DEF CallAdmitted
    <3>3. CallNamesRow(calls[j])' /\ CallHolds(calls[j])'
      BY <1>1, <1>3, <1>4, <3>1 DEF CallNamesRow, CallHolds, Naming, Holding, FirstStep
    <3>4. CallRevoked(calls[j])'
      BY <1>1, <1>3, <1>4, <3>1 DEF CallRevoked, FirstStep
    <3> QED
      BY <3>2, <3>3, <3>4 DEF CallOK
  <2>2. CASE j # k
    <3>1. calls'[j] = calls[j] /\ CallOK(calls[j])
      BY <1>4, <2>2 DEF Inv, TypeOK
    <3> QED
      BY <1>4, <1>6, <3>1, NoneIsNoId
         DEF CallOK, CallAdmitted, CallNamesRow, CallHolds, CallRevoked
  <2> QED
    BY <2>1, <2>2
<1>9. HoldersDiffer'
  BY <1>3, <1>4 DEF Inv, TypeOK, HoldersDiffer, Holding, FirstStep
<1>10. \A a \in ApprovalIds : RowOK(a)' /\ RowHome(a)'
  BY <1>4, <1>6 DEF Inv, RowOK, RowHome
<1>11. CompletedRan' /\ SessionsOK'
  BY <1>1, <1>4, <1>6, <1>7, NoneIsNoId DEF Inv, TypeOK, CompletedRan, SessionsOK
<1> QED
  BY <1>5, <1>8, <1>9, <1>10, <1>11 DEF Inv

\* A new request.
LEMMA CreateRowStep ==
    ASSUME Inv, NEW k \in Calls, NEW a \in ApprovalIds, CreateRow(k, a)
    PROVE  Inv'
<1> USE DEF sessionVars, policyVars, historyVars
<1> DEFINE c == calls[k]
<1> DEFINE row == [NoApproval EXCEPT !.status = "pending", !.client = ClientOf[c.cred],
                     !.session = c.session, !.revision = c.revision, !.left = Lifetime]
<1> DEFINE r == [Idle EXCEPT !.pc = "store", !.approval = a]
<1>1. /\ c \in Call /\ CallOK(c) /\ c.pc = "insert" /\ approvals[a].status = "none"
      /\ RowOK(a)
  BY DEF CreateRow, Inv, TypeOK
<1>2. /\ c.cred \in Credentials /\ c.session \in SessionIds /\ home[c.session] = c.cred
      /\ c.cred # None /\ ClientOf[c.cred] \in Clients /\ c.revision \in Nat
  BY <1>1, NoneIsNoId, ClientOfType DEF CallOK, CallAdmitted, Admitted, Call
<1>3. /\ row.status = "pending" /\ row.client = ClientOf[c.cred] /\ row.session = c.session
      /\ row.execution = None
  BY DEF NoApproval
<1>4. row \in Row
  <2>1. Lifetime \in -1..Lifetime
    BY BoundsType
  <2> HIDE DEF c
  <2> QED
    BY <1>2, <2>1 DEF Row, NoApproval, Open
<1>5. r \in Call /\ r.pc = "store" /\ r.approval = a
  BY DEF Call, Idle
<1>6. /\ approvals' = [approvals EXCEPT ![a] = row] /\ calls' = [calls EXCEPT ![k] = r]
      /\ UNCHANGED <<executions, ops, sessionVars, policyVars, purges, dropping, historyVars>>
  BY DEF CreateRow
<1>7. approvals[a].execution = None /\ ran[a] = 0
  BY <1>1 DEF RowOK
<1> HIDE DEF c, row, r
<1>8. TypeOK'
  BY <1>4, <1>5, <1>6 DEF Inv, TypeOK
<1>9. \A b \in ApprovalIds : approvals'[b] = IF b = a THEN row ELSE approvals[b]
  BY <1>6 DEF Inv, TypeOK
<1>10. ASSUME NEW j \in Calls PROVE CallOK(calls[j])'
  <2>1. CASE j = k
    BY <1>5, <1>6, <2>1 DEF Inv, TypeOK, CallOK, CallAdmitted, CallNamesRow, CallHolds,
                            CallRevoked, Admitted, Naming, Holding
  <2>2. CASE j # k
    <3>1. calls'[j] = calls[j] /\ CallOK(calls[j]) /\ calls[j] \in Call
      BY <1>6, <2>2 DEF Inv, TypeOK
    <3>2. calls[j].pc \in Holding => calls[j].approval # a
      BY <1>7, <3>1, NoneIsNoId DEF CallOK, CallHolds
    <3>3. (calls[j].pc \in Naming /\ calls[j].approval # None) =>
             calls[j].approval # a /\ calls[j].approval \in ApprovalIds
      BY <1>1, <3>1 DEF CallOK, CallNamesRow, Call
    <3>4. CallAdmitted(calls[j])'
      BY <1>6, <3>1 DEF CallOK, CallAdmitted
    <3>5. CallNamesRow(calls[j])' /\ CallRevoked(calls[j])'
      BY <1>6, <1>9, <3>1, <3>3, NoneIsNoId DEF CallOK, CallNamesRow, CallRevoked, Naming
    <3>6. CallHolds(calls[j])'
      BY <1>6, <1>9, <3>1, <3>2 DEF CallOK, CallHolds
    <3> QED
      BY <3>4, <3>5, <3>6 DEF CallOK
  <2> QED
    BY <2>1, <2>2
<1>11. HoldersDiffer'
  BY <1>5, <1>6 DEF Inv, TypeOK, HoldersDiffer, Holding
<1>12. \A b \in ApprovalIds : RowOK(b)' /\ RowHome(b)'
  BY <1>2, <1>3, <1>6, <1>7, <1>9 DEF Inv, RowOK, RowHome, Allowed
<1>13. CompletedRan' /\ SessionsOK'
  BY <1>6 DEF Inv, CompletedRan, SessionsOK
<1> QED
  BY <1>8, <1>10, <1>11, <1>12, <1>13 DEF Inv

\* The local user allows a request.
LEMMA AllowStep ==
    ASSUME Inv, NEW a \in ApprovalIds, NEW status \in Allowed, Allow(a, status)
    PROVE  Inv'
<1> USE DEF sessionVars, policyVars, historyVars
<1> DEFINE row == [approvals[a] EXCEPT !.status = status, !.left = Lifetime]
<1>1. approvals[a] \in Row /\ approvals[a].status = "pending"
  BY DEF Allow, Decidable, Inv, TypeOK
<1>2. /\ row \in Row
      /\ row.status = status /\ row.client = approvals[a].client
      /\ row.session = approvals[a].session /\ row.revision = approvals[a].revision
      /\ row.execution = approvals[a].execution
  <2>1. Lifetime \in -1..Lifetime
    BY BoundsType
  <2> QED
    BY <1>1, <2>1 DEF Row, Open
<1>3. /\ approvals' = [approvals EXCEPT ![a] = row] /\ consented' = consented \cup {a}
      /\ UNCHANGED <<executions, ops, sessionVars, policyVars, purges, dropping, calls,
                     ran, purged, settled>>
  BY DEF Allow
<1> HIDE DEF row
<1>4. TypeOK'
  BY <1>2, <1>3 DEF Inv, TypeOK
<1>5. \A b \in ApprovalIds : approvals'[b] = IF b = a THEN row ELSE approvals[b]
  BY <1>3 DEF Inv, TypeOK
<1>6. ASSUME NEW j \in Calls PROVE CallOK(calls[j])'
  <2>1. calls'[j] = calls[j] /\ CallOK(calls[j]) /\ calls[j] \in Call
    BY <1>3 DEF Inv, TypeOK
  <2>2. CallAdmitted(calls[j])' /\ CallHolds(calls[j])'
    BY <1>2, <1>3, <1>5, <2>1 DEF CallOK, CallAdmitted, CallHolds
  <2>3. CallNamesRow(calls[j])'
    BY <1>2, <1>3, <1>5, <2>1 DEF CallOK, CallNamesRow, Call, Allowed
  <2>4. CallRevoked(calls[j])'
    BY <1>1, <1>2, <1>3, <1>5, <2>1
       DEF CallOK, CallRevoked, CallNamesRow, Call, Open
  <2> QED
    BY <2>2, <2>3, <2>4 DEF CallOK
<1>7. HoldersDiffer' /\ CompletedRan' /\ SessionsOK'
  BY <1>3 DEF Inv, HoldersDiffer, CompletedRan, SessionsOK
<1>8. \A b \in ApprovalIds : RowOK(b)' /\ RowHome(b)'
  BY <1>1, <1>2, <1>3, <1>5 DEF Inv, RowOK, RowHome, Allowed
<1> QED
  BY <1>4, <1>6, <1>7, <1>8 DEF Inv

\* The dispatch transaction of begin_resume.
LEMMA DispatchStep ==
    ASSUME Inv, NEW k \in Calls, NEW e \in ExecutionIds, Dispatch(k, e)
    PROVE  Inv'
<1> USE DEF sessionVars, policyVars, historyVars
<1> DEFINE a == calls[k].approval
<1> DEFINE row == [approvals[a] EXCEPT !.execution = e,
                     !.status = IF approvals[a].status = "allowed_once" THEN "consumed"
                                ELSE approvals[a].status]
<1> DEFINE r == [Idle EXCEPT !.pc = "forget", !.approval = a, !.execution = e]
<1>1. /\ calls[k] \in Call /\ CallOK(calls[k]) /\ calls[k].pc = "begin"
      /\ a \in ApprovalIds
      /\ approvals[a] \in Row /\ RowOK(a)
      /\ approvals[a].execution = None /\ approvals[a].status \in Allowed
      /\ executions[e].status = "none"
  BY DEF Dispatch, Resumable, Inv, TypeOK, CallOK, CallNamesRow
<1>2. /\ row \in Row
      /\ row.execution = e /\ row.client = approvals[a].client
      /\ row.session = approvals[a].session /\ row.revision = approvals[a].revision
      /\ row.status \in {"consumed", approvals[a].status} /\ row.status # "allowed_once"
  BY <1>1 DEF Row, Closed
<1>3. r \in Call /\ r.pc = "forget" /\ r.approval = a /\ r.execution = e
  <2>1. a \in ApprovalIds
    BY <1>1
  <2> HIDE DEF a
  <2> QED
    BY <2>1 DEF Call, Idle
<1>4. /\ approvals' = [approvals EXCEPT ![a] = row] /\ calls' = [calls EXCEPT ![k] = r]
      /\ executions' = [executions EXCEPT ![e] = [status |-> "dispatched", approval |-> a]]
      /\ UNCHANGED <<ops, sessionVars, policyVars, purges, dropping, historyVars>>
  BY DEF Dispatch
<1>5. ran[a] = 0 /\ a \in consented
  BY <1>1 DEF RowOK
<1> HIDE DEF a, row, r
<1>6. TypeOK'
  BY <1>1, <1>2, <1>3, <1>4 DEF Inv, TypeOK, ExecutionStatus
<1>7. /\ \A b \in ApprovalIds : approvals'[b] = IF b = a THEN row ELSE approvals[b]
      /\ \A x \in ExecutionIds : executions'[x] = IF x = e
                                   THEN [status |-> "dispatched", approval |-> a]
                                   ELSE executions[x]
      /\ \A j \in Calls : calls'[j] = IF j = k THEN r ELSE calls[j]
  BY <1>4 DEF Inv, TypeOK
<1>8. ASSUME NEW j \in Calls PROVE CallOK(calls[j])'
  <2>1. CASE j = k
    BY <1>1, <1>2, <1>3, <1>4, <1>5, <1>7, <2>1
       DEF CallOK, CallAdmitted, CallNamesRow, CallHolds, CallRevoked, Admitted, Naming, Holding
  <2>2. CASE j # k
    <3>1. calls'[j] = calls[j] /\ CallOK(calls[j]) /\ calls[j] \in Call
      BY <1>7, <2>2 DEF Inv, TypeOK
    <3>2. calls[j].pc \in Holding => calls[j].approval # a /\ calls[j].execution # e
      BY <1>1, <3>1, NoneIsNoId DEF CallOK, CallHolds
    <3>3. CallAdmitted(calls[j])' /\ CallNamesRow(calls[j])'
      BY <1>1, <1>2, <1>4, <1>7, <3>1 DEF CallOK, CallAdmitted, CallNamesRow, Call, Allowed
    <3>4. CallHolds(calls[j])'
      BY <1>4, <1>7, <3>1, <3>2 DEF CallOK, CallHolds
    <3>5. CallRevoked(calls[j])'
      BY <1>1, <1>2, <1>4, <1>7, <3>1 DEF CallOK, CallRevoked, CallNamesRow, Call, Open, Allowed
    <3> QED
      BY <3>3, <3>4, <3>5 DEF CallOK
  <2> QED
    BY <2>1, <2>2
<1>9. HoldersDiffer'
  <2>1. \A j \in Calls : (j # k /\ calls[j].pc \in Holding) => calls[j].execution # e
    BY <1>1 DEF Inv, CallOK, CallHolds
  <2> QED
    BY <1>3, <1>7, <2>1 DEF Inv, HoldersDiffer
<1>10. ASSUME NEW b \in ApprovalIds PROVE RowOK(b)' /\ RowHome(b)'
  <2>1. RowOK(b) /\ RowHome(b) /\ approvals[b] \in Row
    BY DEF Inv, TypeOK
  <2>2. CASE b = a
    BY <1>1, <1>2, <1>4, <1>5, <1>7, <2>1, <2>2, NoneIsNoId DEF RowOK, RowHome, Allowed
  <2>3. CASE b # a
    <3>1. approvals[b].execution # e
      BY <1>1, <2>1, NoneIsNoId DEF RowOK
    <3> QED
      BY <1>4, <1>7, <2>1, <2>3, <3>1 DEF RowOK, RowHome, Row
  <2> QED
    BY <2>2, <2>3
<1>11. CompletedRan' /\ SessionsOK'
  BY <1>4, <1>7 DEF Inv, CompletedRan, SessionsOK
<1> QED
  BY <1>6, <1>8, <1>9, <1>10, <1>11 DEF Inv

\* The operation runs.
LEMMA RunOperationStep ==
    ASSUME Inv, NEW k \in Calls, NEW outcome \in {"completed", "failed"},
           RunOperation(k, outcome)
    PROVE  Inv'
<1> USE DEF sessionVars, policyVars, historyVars
<1> DEFINE a == calls[k].approval
<1> DEFINE r == [calls[k] EXCEPT !.pc = "complete", !.outcome = outcome]
<1>1. calls[k] \in Call /\ CallOK(calls[k]) /\ calls[k].pc = "run"
  BY DEF Inv, TypeOK, RunOperation
<1>2. /\ a \in ApprovalIds /\ calls[k].execution \in ExecutionIds /\ ran[a] = 0
      /\ approvals[a].execution = calls[k].execution
      /\ executions[calls[k].execution].status = "dispatched"
      /\ executions[calls[k].execution].approval = a
  BY <1>1 DEF CallOK, CallHolds, Holding
<1>3. r \in Call /\ r.pc = "complete" /\ r.approval = a /\ r.outcome = outcome
      /\ r.execution = calls[k].execution
  BY <1>1 DEF Call
<1>4. /\ calls' = [calls EXCEPT ![k] = r] /\ ran' = [ran EXCEPT ![a] = 1]
      /\ UNCHANGED <<approvals, executions, ops, sessionVars, policyVars, purges, dropping,
                     consented, purged, settled>>
  <2>1. ran' = [ran EXCEPT ![a] = ran[a] + 1]
    BY DEF RunOperation
  <2>2. ran[a] + 1 = 1
    BY <1>2
  <2>3. ran' = [ran EXCEPT ![a] = 1]
    BY <2>1, <2>2
  <2> QED
    BY <2>3 DEF RunOperation
<1> HIDE DEF a, r
<1>5. TypeOK'
  BY <1>2, <1>3, <1>4 DEF Inv, TypeOK
<1>6. /\ \A j \in Calls : calls'[j] = IF j = k THEN r ELSE calls[j]
      /\ \A b \in ApprovalIds : ran'[b] = IF b = a THEN 1 ELSE ran[b]
  BY <1>4 DEF Inv, TypeOK
<1>7. ASSUME NEW j \in Calls PROVE CallOK(calls[j])'
  <2>1. CASE j = k
    BY <1>2, <1>3, <1>4, <1>6, <2>1
       DEF CallOK, CallAdmitted, CallNamesRow, CallHolds, CallRevoked, Admitted, Naming, Holding
  <2>2. CASE j # k
    <3>1. calls'[j] = calls[j] /\ CallOK(calls[j])
      BY <1>6, <2>2 DEF Inv
    <3>2. calls[j].pc \in Holding => calls[j].approval # a
      <4>1. calls[j].pc \in Holding => calls[j].execution # calls[k].execution
        BY <1>1, <2>2 DEF Inv, HoldersDiffer, Holding
      <4> QED
        BY <1>2, <3>1, <4>1 DEF CallOK, CallHolds
    <3> QED
      BY <1>4, <1>6, <3>1, <3>2 DEF CallOK, CallAdmitted, CallNamesRow, CallHolds, CallRevoked
  <2> QED
    BY <2>1, <2>2
<1>8. HoldersDiffer'
  BY <1>1, <1>3, <1>6 DEF Inv, HoldersDiffer, Holding
<1>9. \A b \in ApprovalIds : RowOK(b)' /\ RowHome(b)'
  BY <1>2, <1>4, <1>6, NoneIsNoId DEF Inv, RowOK, RowHome
<1>10. CompletedRan' /\ SessionsOK'
  BY <1>2, <1>4, <1>6 DEF Inv, CompletedRan, SessionsOK
<1> QED
  BY <1>5, <1>7, <1>8, <1>9, <1>10 DEF Inv

\* Its outcome is recorded.
LEMMA CompleteExecutionStep ==
    ASSUME Inv, NEW k \in Calls, CompleteExecution(k)
    PROVE  Inv'
<1> USE DEF sessionVars, policyVars, historyVars
<1> DEFINE c == calls[k]
<1> DEFINE x == [executions[c.execution] EXCEPT !.status = c.outcome]
<1>1. c \in Call /\ CallOK(c) /\ c.pc = "complete"
  BY DEF Inv, TypeOK, CompleteExecution
<1>2. /\ c.approval \in ApprovalIds /\ c.execution \in ExecutionIds
      /\ c.outcome \in {"completed", "failed"}
      /\ c.outcome = "completed" => ran[c.approval] = 1
      /\ executions[c.execution].approval = c.approval
      /\ approvals[c.approval].execution = c.execution
  BY <1>1 DEF CallOK, CallHolds, Holding
<1>3. /\ executions' = [executions EXCEPT ![c.execution] = x]
      /\ calls' = [calls EXCEPT ![k] = Idle]
      /\ UNCHANGED <<approvals, ops, sessionVars, policyVars, purges, dropping, historyVars>>
  BY DEF CompleteExecution
<1>4. /\ x \in [status : ExecutionStatus, approval : ApprovalIds \cup {None}]
      /\ x.status = c.outcome /\ x.approval = c.approval
  <2>1. executions[c.execution] \in [status : ExecutionStatus, approval : ApprovalIds \cup {None}]
    BY <1>2 DEF Inv, TypeOK
  <2> QED
    BY <1>2, <2>1 DEF ExecutionStatus
<1> HIDE DEF c, x
<1>5. TypeOK'
  BY <1>3, <1>4, IdleOK DEF Inv, TypeOK
<1>6. /\ \A e \in ExecutionIds : executions'[e] = IF e = c.execution THEN x ELSE executions[e]
      /\ \A j \in Calls : calls'[j] = IF j = k THEN Idle ELSE calls[j]
  BY <1>3 DEF Inv, TypeOK
<1>7. ASSUME NEW j \in Calls PROVE CallOK(calls[j])'
  <2>1. CASE j = k
    BY <1>6, <2>1 DEF Idle, CallOK, CallAdmitted, CallNamesRow, CallHolds, CallRevoked,
                      Admitted, Naming, Holding
  <2>2. CASE j # k
    <3>1. calls'[j] = calls[j] /\ CallOK(calls[j])
      BY <1>6, <2>2 DEF Inv
    <3>2. calls[j].pc \in Holding => calls[j].execution # c.execution
      BY <1>1, <2>2 DEF Inv, HoldersDiffer, Holding, c
    <3> QED
      BY <1>3, <1>6, <3>1, <3>2 DEF CallOK, CallAdmitted, CallNamesRow, CallHolds, CallRevoked
  <2> QED
    BY <2>1, <2>2
<1>8. HoldersDiffer'
  BY <1>6 DEF Inv, HoldersDiffer, Holding, Idle
<1>9. ASSUME NEW b \in ApprovalIds PROVE RowOK(b)' /\ RowHome(b)'
  <2>1. RowOK(b) /\ RowHome(b) /\ approvals[b] \in Row
    BY DEF Inv, TypeOK
  <2>2. (approvals[b].execution = c.execution) => b = c.approval
    BY <1>2, <2>1, NoneIsNoId DEF RowOK
  <2> QED
    BY <1>2, <1>3, <1>4, <1>6, <2>1, <2>2 DEF RowOK, RowHome, Row
<1>10. CompletedRan' /\ SessionsOK'
  BY <1>2, <1>3, <1>4, <1>6 DEF Inv, CompletedRan, SessionsOK
<1> QED
  BY <1>5, <1>7, <1>8, <1>9, <1>10 DEF Inv

\* The owner reconciles an unknown outcome.
LEMMA ReconcileStep ==
    ASSUME Inv, NEW e \in ExecutionIds, Reconcile(e)
    PROVE  Inv'
<1> USE DEF sessionVars, policyVars, historyVars
<1> DEFINE x == [executions[e] EXCEPT !.status = "reconciled"]
<1>1. /\ executions[e] \in [status : ExecutionStatus, approval : ApprovalIds \cup {None}]
      /\ executions[e].status = "outcome_unknown"
  BY DEF Inv, TypeOK, Reconcile
<1>2. /\ x \in [status : ExecutionStatus, approval : ApprovalIds \cup {None}]
      /\ x.status = "reconciled" /\ x.approval = executions[e].approval
  BY <1>1 DEF ExecutionStatus
<1>3. /\ executions' = [executions EXCEPT ![e] = x]
      /\ UNCHANGED <<approvals, ops, sessionVars, policyVars, purges, dropping, calls, historyVars>>
  BY DEF Reconcile
<1> HIDE DEF x
<1>4. TypeOK'
  BY <1>2, <1>3 DEF Inv, TypeOK
<1>5. \A y \in ExecutionIds : executions'[y] = IF y = e THEN x ELSE executions[y]
  BY <1>3 DEF Inv, TypeOK
<1>6. ASSUME NEW j \in Calls PROVE CallOK(calls[j])'
  <2>1. calls'[j] = calls[j] /\ CallOK(calls[j])
    BY <1>3 DEF Inv
  <2> QED
    BY <1>1, <1>3, <1>5, <2>1 DEF CallOK, CallAdmitted, CallNamesRow, CallHolds, CallRevoked
<1>7. HoldersDiffer' /\ CompletedRan' /\ SessionsOK'
  BY <1>2, <1>3, <1>5 DEF Inv, HoldersDiffer, CompletedRan, SessionsOK
<1>8. ASSUME NEW b \in ApprovalIds PROVE RowOK(b)' /\ RowHome(b)'
  <2>1. RowOK(b) /\ RowHome(b) /\ approvals[b] \in Row
    BY DEF Inv, TypeOK
  <2> QED
    BY <1>2, <1>3, <1>5, <2>1 DEF RowOK, RowHome, Row
<1> QED
  BY <1>4, <1>6, <1>7, <1>8 DEF Inv

\* The process restarts.
LEMMA RestartStep == Inv /\ Restart => Inv'
<1> SUFFICES ASSUME Inv, Restart PROVE Inv'
  OBVIOUS
<1> DEFINE H == {a \in ApprovalIds : approvals[a].status \in Open}
<1>1. ASSUME NEW a \in ApprovalIds
      PROVE  /\ approvals'[a] \in Row
             /\ approvals'[a].status = IF a \in H THEN "invalidated" ELSE approvals[a].status
             /\ approvals'[a].client = approvals[a].client
             /\ approvals'[a].session = approvals[a].session
             /\ approvals'[a].execution = approvals[a].execution
  <2>1. approvals[a] \in Row
    BY DEF Inv, TypeOK
  <2>2. approvals'[a] = IF a \in H THEN [approvals[a] EXCEPT !.status = "invalidated"]
                        ELSE approvals[a]
    BY DEF SetStatus, Restart
  <2> QED
    BY <2>1, <2>2 DEF Row, Closed
<1>2. ASSUME NEW e \in ExecutionIds
      PROVE  /\ executions'[e] \in [status : ExecutionStatus, approval : ApprovalIds \cup {None}]
             /\ executions'[e].approval = executions[e].approval
             /\ executions'[e].status = IF executions[e].status = "dispatched"
                                        THEN "outcome_unknown" ELSE executions[e].status
  <2>1. executions[e] \in [status : ExecutionStatus, approval : ApprovalIds \cup {None}]
    BY DEF Inv, TypeOK
  <2>2. executions'[e] = IF executions[e].status = "dispatched"
                         THEN [executions[e] EXCEPT !.status = "outcome_unknown"]
                         ELSE executions[e]
    BY DEF Restart, Recovered
  <2> QED
    BY <2>1, <2>2 DEF ExecutionStatus
<1>3. TypeOK'
  <2>1. approvals' \in [ApprovalIds -> Row]
    BY <1>1 DEF Restart, SetStatus
  <2>2. executions' \in [ExecutionIds ->
                          [status : ExecutionStatus, approval : ApprovalIds \cup {None}]]
    BY <1>2 DEF Restart
  <2>3. calls' \in [Calls -> Call]
    BY IdleOK DEF Restart
  <2> QED
    BY <2>1, <2>2, <2>3 DEF Inv, TypeOK, Restart
<1>4. \A k \in Calls : calls'[k] = Idle
  BY DEF Restart
<1>5. \A k \in Calls : CallOK(calls[k])'
  BY <1>4 DEF Idle, CallOK, CallAdmitted, CallNamesRow, CallHolds, CallRevoked,
              Admitted, Naming, Holding
<1>6. HoldersDiffer'
  BY <1>4 DEF HoldersDiffer, Holding, Idle
<1>7. ASSUME NEW b \in ApprovalIds PROVE RowOK(b)' /\ RowHome(b)'
  <2>1. RowOK(b) /\ RowHome(b) /\ approvals[b] \in Row
    BY DEF Inv, TypeOK
  <2>2. ran' = ran /\ consented' = consented /\ home' = home
    BY DEF Restart
  <2>3. RowOK(b)'
    <3>1. b \in H <=> approvals[b].status \in Open
      OBVIOUS
    <3> QED
      BY <1>1, <1>2, <2>1, <2>2, <3>1 DEF RowOK, Row, Open, Allowed
  <2>4. RowHome(b)'
    BY <1>1, <2>1, <2>2 DEF RowHome, Open, Allowed
  <2> QED
    BY <2>3, <2>4
<1>8. CompletedRan' /\ SessionsOK'
  BY <1>2, NoneIsNoId DEF Inv, TypeOK, CompletedRan, SessionsOK, Restart
<1> QED
  BY <1>3, <1>5, <1>6, <1>7, <1>8 DEF Inv

-----------------------------------------------------------------------------
\* The invariant holds when the service has just been installed.
LEMMA InitInv == Init => Inv
<1> SUFFICES ASSUME Init PROVE Inv
  OBVIOUS
<1>1. NoApproval \in Row /\ NoApproval.status = "none" /\ NoApproval.execution = None
  BY BoundsType DEF NoApproval, Row
<1>2. NoExecution \in [status : ExecutionStatus, approval : ApprovalIds \cup {None}]
      /\ NoExecution.status = "none"
  BY DEF NoExecution, ExecutionStatus
<1>3. TypeOK
  BY <1>1, <1>2, IdleOK DEF Init, TypeOK
<1>4. \A k \in Calls : CallOK(calls[k])
  BY IdleOK DEF Init
<1>5. HoldersDiffer
  BY DEF Init, HoldersDiffer, Holding, Idle
<1>6. \A a \in ApprovalIds : RowOK(a) /\ RowHome(a)
  BY <1>1 DEF Init, RowOK, RowHome, Allowed
<1>7. CompletedRan /\ SessionsOK
  BY <1>2 DEF Init, CompletedRan, SessionsOK
<1> QED
  BY <1>3, <1>4, <1>5, <1>6, <1>7 DEF Inv

\* Every step of every operation preserves the invariant.
LEMMA NextInv == Inv /\ [Next]_vars => Inv'
<1> SUFFICES ASSUME Inv, [Next]_vars PROVE Inv'
  OBVIOUS
<1>1. ASSUME NEW k \in Calls, Admission(k) PROVE Inv'
  BY <1>1, CallActions, OpenSessionStep DEF Admission
<1>9. ASSUME NEW k \in Calls, FailedAccess(k) PROVE Inv'
  BY <1>9, CallActions
<1>2. ASSUME NEW k \in Calls, Progress(k) PROVE Inv'
  <2>1. CASE \/ RequestApproval(k) \/ StoreSnapshot(k) \/ ReadContext(k) \/ RefuseResume(k)
             \/ RefuseScope(k) \/ ForgetSnapshot(k) \/ AbandonOperation(k)
    BY <2>1, CallActions
  <2>2. CASE FlushExpired(k) \/ VoidResume(k)
    BY <2>2, CloseActions
  <2>3. CASE CompleteExecution(k)
    BY <2>3, CompleteExecutionStep
  <2>4. ASSUME NEW a \in ApprovalIds, CreateRow(k, a) PROVE Inv'
    BY <2>4, CreateRowStep
  <2>5. ASSUME NEW e \in ExecutionIds, Dispatch(k, e) PROVE Inv'
    BY <2>5, DispatchStep
  <2>6. ASSUME NEW outcome \in {"completed", "failed"}, RunOperation(k, outcome) PROVE Inv'
    BY <2>6, RunOperationStep
  <2> QED
    BY <1>2, <2>1, <2>2, <2>3, <2>4, <2>5, <2>6 DEF Progress
<1>3. CASE LocalUser
  BY <1>3, AllowStep, CloseActions, ReconcileStep DEF LocalUser
<1>4. CASE \/ Revocation \/ UpdateSettings
           \/ \E a \in ApprovalIds : DropSnapshot(a)
  BY <1>4, FrameActions
<1>5. CASE \/ (\E p \in purges : Invalidate(p)) \/ ExpireSweep \/ InvalidateForPolicy
           \/ FailedInvalidation \/ \E k \in Calls : FailedFlush(k)
  BY <1>5, CloseActions
<1>6. CASE Tick
  BY <1>6, TickStep
<1>7. CASE Restart
  BY <1>7, RestartStep
<1>8. CASE UNCHANGED vars
  <2> USE <1>8 DEF vars
  <2>1. TypeOK' /\ HoldersDiffer' /\ CompletedRan' /\ SessionsOK'
    BY DEF Inv, TypeOK, HoldersDiffer, CompletedRan, SessionsOK
  <2>2. \A k \in Calls : CallOK(calls[k])'
    BY DEF Inv, CallOK, CallAdmitted, CallNamesRow, CallHolds, CallRevoked
  <2>3. \A a \in ApprovalIds : RowOK(a)' /\ RowHome(a)'
    BY DEF Inv, RowOK, RowHome
  <2> QED
    BY <2>1, <2>2, <2>3 DEF Inv
<1> QED
  BY <1>1, <1>2, <1>3, <1>4, <1>5, <1>6, <1>7, <1>8, <1>9 DEF Next

\* The inductive invariant: what approvals.rs, sessions.rs and the handlers in
\* flight keep true between any two transactions.
THEOREM Invariance == Spec => []Inv
  BY InitInv, NextInv, PTL DEF Spec

\* Every variable keeps its type (the tables and maps of approvals.rs and
\* sessions.rs), for any number of clients, sessions, approvals and calls.
THEOREM TypeCorrect == Spec => []TypeOK
  BY Invariance, PTL DEF Inv

\* However resumes race and wherever the process stops, begin_resume lets the
\* approved operation run at most once.
THEOREM RunsAtMostOnce == Spec => []AtMostOnce
<1>1. Inv => AtMostOnce
  BY DEF Inv, RowOK, AtMostOnce
<1> QED
  BY <1>1, Invariance, PTL

\* What ran was allowed by the local user and has its execution record, and
\* complete_execution records "completed" only of what ran.
THEOREM EffectsAccountedFor == Spec => []EffectIsAccountedFor
<1>1. Inv => EffectIsAccountedFor
  <2> SUFFICES ASSUME Inv PROVE EffectIsAccountedFor
    OBVIOUS
  <2>1. ASSUME NEW a \in ApprovalIds, ran[a] > 0
        PROVE  /\ a \in consented
               /\ \E e \in ExecutionIds : /\ approvals[a].execution = e
                                         /\ executions[e].approval = a
                                         /\ executions[e].status # "none"
    <3>1. RowOK(a) /\ approvals[a] \in Row
      BY DEF Inv, TypeOK
    <3>2. approvals[a].execution \in ExecutionIds
      BY <2>1, <3>1 DEF RowOK, Row
    <3> QED
      BY <2>1, <3>1, <3>2 DEF RowOK
  <2> QED
    BY <2>1 DEF EffectIsAccountedFor, Inv, CompletedRan
<1> QED
  BY <1>1, Invariance, PTL

-----------------------------------------------------------------------------
(* Action properties.                                                      *)

\* Rows that are closed stay as they are; an execution id is written once, by
\* a dispatch; the outcome of an execution is written once.
StepOK ==
    /\ \A a \in ApprovalIds :
         /\ approvals[a].status \in Closed => approvals'[a].status = approvals[a].status
         /\ (approvals[a].execution = None /\ approvals'[a].execution # None) =>
               \E k \in Calls, e \in ExecutionIds :
                   calls[k].approval = a /\ Dispatch(k, e)
    /\ \A e \in ExecutionIds :
         \/ executions'[e] = executions[e]
         \/ executions[e].status = "none"
         \/ /\ executions[e].status = "dispatched"
            /\ executions'[e].approval = executions[e].approval
         \/ /\ executions[e].status = "outcome_unknown"
            /\ executions'[e].status = "reconciled"
            /\ executions'[e].approval = executions[e].approval

\* Closing open rows keeps the closed ones and every execution id.
LEMMA SetStatusStep ==
    ASSUME Inv, NEW H \in SUBSET ApprovalIds, NEW st,
           \A a \in H : approvals[a].status \in Open,
           approvals' = SetStatus(H, st)
    PROVE  \A a \in ApprovalIds :
             /\ approvals[a].status \in Closed => approvals'[a].status = approvals[a].status
             /\ approvals'[a].execution = approvals[a].execution
<1> SUFFICES ASSUME NEW a \in ApprovalIds
             PROVE  /\ approvals[a].status \in Closed => approvals'[a].status = approvals[a].status
                    /\ approvals'[a].execution = approvals[a].execution
  OBVIOUS
<1>1. approvals[a] \in Row
  BY DEF Inv, TypeOK
<1>2. approvals'[a] = IF a \in H THEN [approvals[a] EXCEPT !.status = st] ELSE approvals[a]
  BY DEF SetStatus
<1>3. a \in H => approvals[a].status \notin Closed
  BY DEF Open, Closed, Allowed
<1> QED
  BY <1>1, <1>2, <1>3 DEF Row

\* Every step keeps what StepOK says of the two tables.
LEMMA NextStepOK == Inv /\ [Next]_vars => StepOK
<1> SUFFICES ASSUME Inv, [Next]_vars PROVE StepOK
  OBVIOUS
<1> USE DEF sessionVars, policyVars, historyVars
<1>0. /\ calls \in [Calls -> Call] /\ approvals \in [ApprovalIds -> Row]
      /\ executions \in [ExecutionIds ->
                          [status : ExecutionStatus, approval : ApprovalIds \cup {None}]]
  BY DEF Inv, TypeOK
<1>1. ASSUME UNCHANGED <<approvals, executions>> PROVE StepOK
  BY <1>1 DEF StepOK
<1>2. ASSUME NEW H \in SUBSET ApprovalIds, NEW st,
             \A a \in H : approvals[a].status \in Open,
             approvals' = SetStatus(H, st), executions' = executions
      PROVE  StepOK
  BY <1>2, SetStatusStep DEF StepOK
<1>3. ASSUME NEW k \in Calls, Admission(k) \/ FailedAccess(k) PROVE StepOK
  BY <1>1, <1>3 DEF Admission, JoinSession, OpenSession, FailedAccess
<1>4. ASSUME NEW k \in Calls, Progress(k) PROVE StepOK
  <2>1. CASE \/ RequestApproval(k) \/ StoreSnapshot(k) \/ ReadContext(k) \/ RefuseResume(k)
             \/ RefuseScope(k) \/ ForgetSnapshot(k) \/ AbandonOperation(k)
             \/ \E outcome \in {"completed", "failed"} : RunOperation(k, outcome)
    BY <1>1, <2>1 DEF RequestApproval, StoreSnapshot, ReadContext, RefuseResume, RefuseScope,
                      ForgetSnapshot, AbandonOperation, RunOperation
  <2>2. CASE FlushExpired(k)
    <3> DEFINE H == {a \in ApprovalIds :
                       Matches([client |-> NoFilter, session |-> calls[k].owed], a)}
    <3>1. /\ H \in SUBSET ApprovalIds /\ \A a \in H : approvals[a].status \in Open
          /\ approvals' = SetStatus(H, "invalidated") /\ executions' = executions
      BY <2>2 DEF FlushExpired, InvalidateRows, Matches
    <3> QED
      BY <1>2, <3>1
  <2>3. CASE VoidResume(k)
    <3> DEFINE H == {calls[k].approval}
    <3>1. H \in SUBSET ApprovalIds /\ \A a \in H : approvals[a].status \in Open
      BY <2>3 DEF Inv, VoidResume, Resumable, CallOK, CallNamesRow, Open
    <3>2. approvals' = SetStatus(H, Verdict(k)) /\ executions' = executions
      BY <1>0, <2>3, <3>1 DEF SetStatus, VoidResume
    <3> QED
      BY <1>2, <3>1, <3>2
  <2>4. CASE CompleteExecution(k)
    <3> DEFINE x == calls[k].execution
    <3>1. x \in ExecutionIds /\ executions[x].status = "dispatched"
      BY <2>4 DEF Inv, CompleteExecution, CallOK, CallHolds, Holding
    <3>2. /\ executions' = [executions EXCEPT ![x].status = calls[k].outcome]
          /\ approvals' = approvals
      BY <2>4 DEF CompleteExecution
    <3> HIDE DEF x
    <3>3. executions'[x].approval = executions[x].approval
      BY <1>0, <3>1, <3>2
    <3>4. \A e \in ExecutionIds : e # x => executions'[e] = executions[e]
      BY <1>0, <3>2
    <3> QED
      BY <3>1, <3>2, <3>3, <3>4 DEF StepOK
  <2>5. ASSUME NEW a \in ApprovalIds, CreateRow(k, a) PROVE StepOK
    <3>1. \A b \in ApprovalIds : b # a => approvals'[b] = approvals[b]
      BY <1>0, <2>5 DEF CreateRow
    <3>2. approvals'[a].execution = None /\ approvals[a].status \notin Closed
          /\ executions' = executions
      BY <1>0, <2>5 DEF CreateRow, NoApproval, Closed
    <3> QED
      BY <3>1, <3>2 DEF StepOK
  <2>6. ASSUME NEW e \in ExecutionIds, Dispatch(k, e) PROVE StepOK
    <3> DEFINE a == calls[k].approval
    <3>1. \A b \in ApprovalIds : b # a => approvals'[b] = approvals[b]
      BY <1>0, <2>6 DEF Dispatch
    <3>2. approvals[a].status \notin Closed /\ executions[e].status = "none"
      BY <2>6 DEF Dispatch, Resumable, Closed, Allowed
    <3>3. \A x \in ExecutionIds : x # e => executions'[x] = executions[x]
      BY <1>0, <2>6 DEF Dispatch
    <3>4. \A b \in ApprovalIds : approvals[b].status \in Closed => approvals'[b] = approvals[b]
      BY <3>1, <3>2
    <3>5. \A b \in ApprovalIds :
             (approvals[b].execution = None /\ approvals'[b].execution # None) =>
                calls[k].approval = b /\ Dispatch(k, e)
      BY <2>6, <3>1
    <3> HIDE DEF a
    <3> QED
      BY <3>2, <3>3, <3>4, <3>5 DEF StepOK
  <2> QED
    BY <1>4, <2>1, <2>2, <2>3, <2>4, <2>5, <2>6 DEF Progress
<1>5. ASSUME NEW a \in ApprovalIds, NEW status \in Allowed, Allow(a, status) PROVE StepOK
  <2>1. \A b \in ApprovalIds : b # a => approvals'[b] = approvals[b]
    BY <1>0, <1>5 DEF Allow
  <2>2. approvals[a] \in Row
    BY <1>0
  <2>3. approvals'[a].execution = approvals[a].execution /\ approvals[a].status \notin Closed
        /\ executions' = executions
    BY <1>0, <1>5, <2>2 DEF Allow, Decidable, Closed, Row
  <2> QED
    BY <2>1, <2>3 DEF StepOK
<1>6. ASSUME NEW a \in ApprovalIds, Deny(a) \/ DecideLate(a) PROVE StepOK
  <2> DEFINE H == {a}
  <2>1. PICK st \in {"denied", "expired"} : approvals' = [approvals EXCEPT ![a].status = st]
    BY <1>6 DEF Deny, DecideLate
  <2>2. approvals' = SetStatus(H, st) /\ executions' = executions
    BY <1>0, <1>6, <2>1 DEF SetStatus, Deny, DecideLate
  <2>3. \A b \in H : approvals[b].status \in Open
    BY <1>6 DEF Open, Deny, DecideLate, Decidable
  <2> QED
    BY <1>2, <2>2, <2>3
<1>7. ASSUME NEW e \in ExecutionIds, Reconcile(e) PROVE StepOK
  <2>1. \A x \in ExecutionIds : x # e => executions'[x] = executions[x]
    BY <1>0, <1>7 DEF Reconcile
  <2>2. /\ executions'[e].approval = executions[e].approval /\ approvals' = approvals
        /\ executions'[e].status = "reconciled" /\ executions[e].status = "outcome_unknown"
    BY <1>0, <1>7 DEF Reconcile
  <2> QED
    BY <2>1, <2>2 DEF StepOK
<1>8. CASE \/ Revocation \/ UpdateSettings
           \/ \E a \in ApprovalIds : DropSnapshot(a)
  BY <1>1, <1>8 DEF Revocation, EndSession, EndCredential, RevokeCredential, RemoveClient,
                    InvalidateAll, EndSessions, UpdateSettings, DropSnapshot
<1>9. ASSUME NEW p, InvalidateRows(p), executions' = executions PROVE StepOK
  <2> DEFINE H == {a \in ApprovalIds : Matches(p, a)}
  <2>1. /\ H \in SUBSET ApprovalIds /\ \A a \in H : approvals[a].status \in Open
        /\ approvals' = SetStatus(H, "invalidated")
    BY <1>9 DEF InvalidateRows, Matches
  <2> QED
    BY <1>2, <1>9, <2>1
<1>10. CASE (\E p \in purges : Invalidate(p)) \/ InvalidateForPolicy
  BY <1>9, <1>10 DEF Invalidate, InvalidateForPolicy
<1>11. CASE ExpireSweep
  <2> DEFINE H == {a \in ApprovalIds : /\ approvals[a].status \in {"pending", "allowed_once"}
                                       /\ approvals[a].left < 0}
  <2>1. /\ H \in SUBSET ApprovalIds /\ \A a \in H : approvals[a].status \in Open
        /\ approvals' = SetStatus(H, "expired") /\ executions' = executions
    BY <1>11 DEF ExpireSweep, Open, Allowed
  <2> QED
    BY <1>2, <2>1
<1>12. CASE Tick
  <2>1. executions' = executions
    BY <1>12 DEF Tick
  <2>2. ASSUME NEW a \in ApprovalIds
        PROVE  /\ approvals'[a].status = approvals[a].status
               /\ approvals'[a].execution = approvals[a].execution
    <3>1. approvals[a] \in Row
      BY <1>0
    <3>2. approvals'[a] = IF approvals[a].status \in Open /\ approvals[a].left >= 0
                          THEN [approvals[a] EXCEPT !.left = approvals[a].left - 1]
                          ELSE approvals[a]
      BY <1>12 DEF Tick
    <3> QED
      BY <3>1, <3>2 DEF Row
  <2> QED
    BY <2>1, <2>2 DEF StepOK
<1>13. CASE Restart
  <2> DEFINE H == {a \in ApprovalIds : approvals[a].status \in Open}
  <2>1. H \in SUBSET ApprovalIds /\ approvals' = SetStatus(H, "invalidated")
    BY <1>13 DEF Restart
  <2>2. \A a \in ApprovalIds :
             /\ approvals[a].status \in Closed => approvals'[a].status = approvals[a].status
             /\ approvals'[a].execution = approvals[a].execution
    BY <2>1, SetStatusStep
  <2>3. ASSUME NEW e \in ExecutionIds
        PROVE  \/ executions'[e] = executions[e]
               \/ /\ executions[e].status = "dispatched"
                  /\ executions'[e].approval = executions[e].approval
    <3>1. executions'[e] = Recovered(executions[e])
      BY <1>13 DEF Restart
    <3> QED
      BY <1>0, <3>1 DEF Recovered
  <2> QED
    BY <2>2, <2>3 DEF StepOK
<1>14. CASE UNCHANGED vars
  BY <1>1, <1>14 DEF vars
<1>15. CASE FailedInvalidation \/ \E k \in Calls : FailedFlush(k)
  <2>1. PICK p : PartlyInvalidate(p)
    BY <1>15 DEF FailedInvalidation, FailedFlush
  <2>2. PICK H \in SUBSET ApprovalIds : /\ \A a \in H : approvals[a].status \in Open
                                        /\ approvals' = SetStatus(H, "invalidated")
    BY <2>1 DEF PartlyInvalidate, Matches
  <2>3. executions' = executions
    BY <1>15 DEF FailedInvalidation, FailedFlush
  <2> QED
    BY <1>2, <2>2, <2>3
<1> QED
  BY <1>3, <1>4, <1>5, <1>6, <1>7, <1>8, <1>10, <1>11, <1>12, <1>13, <1>14, <1>15
     DEF Next, LocalUser

\* A denied, expired, consumed or invalidated approval never changes status
\* again, whichever sweep, revocation or late resume reaches it.
THEOREM ClosedRowsStay == Spec => ClosedStaysClosed
<1>1. Inv /\ [Next]_vars => [\A a \in ApprovalIds :
         approvals[a].status \in Closed => approvals'[a].status = approvals[a].status]_vars
  BY NextStepOK DEF StepOK
<1> QED
  BY <1>1, Invariance, PTL DEF Spec, ClosedStaysClosed

\* complete_execution, startup_recovery and reconcile never rewrite an outcome.
THEOREM OutcomesFinal == Spec => ExecutionOutcomesFinal
<1>1. Inv /\ [Next]_vars =>
        [\A e \in ExecutionIds :
           LET old == executions[e].status
               new == executions'[e].status
           IN  /\ old \in {"completed", "failed", "reconciled"} => new = old
               /\ old = "outcome_unknown" => new \in {old, "reconciled"}
               /\ old # "none" => executions'[e].approval = executions[e].approval]_vars
  BY NextStepOK DEF StepOK
<1> QED
  BY <1>1, Invariance, PTL DEF Spec, ExecutionOutcomesFinal

\* begin_resume dispatches nothing of a session or a policy revision whose
\* invalidation has completed, although it uses a session and a revision that
\* were read before its transaction.
THEOREM RevocationRespected == Spec => DispatchRespectsRevocation
<1>1. Inv /\ [Next]_vars =>
        [\A a \in ApprovalIds :
           (approvals[a].execution = None /\ approvals'[a].execution # None) =>
              /\ approvals[a].session \notin purged
              /\ approvals[a].revision >= settled]_vars
  <2> SUFFICES ASSUME Inv, [Next]_vars, NEW a \in ApprovalIds,
                      approvals[a].execution = None, approvals'[a].execution # None
               PROVE  approvals[a].session \notin purged /\ approvals[a].revision >= settled
    OBVIOUS
  <2>1. PICK k \in Calls, e \in ExecutionIds : calls[k].approval = a /\ Dispatch(k, e)
    BY NextStepOK DEF StepOK
  <2>2. /\ calls[k].pc = "begin"
        /\ approvals[a].status \in Open
        /\ approvals[a].session = calls[k].session
        /\ approvals[a].revision = calls[k].revision
    BY <2>1 DEF Dispatch, Resumable, Verdict, Open
  <2>3. CallRevoked(calls[k]) /\ a # None /\ calls[k].revision \in Nat /\ settled \in Nat
    BY NoneIsNoId DEF Inv, CallOK, TypeOK, Call
  <2> QED
    BY <2>1, <2>2, <2>3 DEF CallRevoked, Naming
<1> QED
  BY <1>1, Invariance, PTL DEF Spec, DispatchRespectsRevocation

-----------------------------------------------------------------------------
\* The approval engine implements the consent contract: every step of
\* Approvals is, seen through the refinement mapping Permission, a step of
\* Consent or leaves its variables alone.


AbsStep == Abs!AbsNext \/ UNCHANGED <<Permission, ran>>

\* The permission of one row.
LEMMA PermissionCases ==
    ASSUME NEW row \in Row
    PROVE  /\ row.status = "none" => PermissionOf(row) = "unasked"
           /\ (row.status # "none" /\ row.execution # None) => PermissionOf(row) = "spent"
           /\ (row.status = "pending" /\ row.execution = None) => PermissionOf(row) = "asked"
           /\ (row.status \in Allowed /\ row.execution = None) => PermissionOf(row) = "granted"
           /\ (row.status \in Closed /\ row.execution = None) => PermissionOf(row) = "void"
  BY DEF PermissionOf, Row, Open, Allowed, Closed

\* The rows before and after a step.
LEMMA RowsAt ==
    ASSUME Inv, Inv', NEW a \in ApprovalIds
    PROVE  /\ approvals[a] \in Row /\ Permission[a] = PermissionOf(approvals[a])
           /\ approvals'[a] \in Row /\ Permission'[a] = PermissionOf(approvals'[a])
  BY DEF Inv, TypeOK, Permission, PermissionOf

\* Two permission functions with equal values are equal.
LEMMA PermissionFunction ==
    ASSUME NEW f, f = [a \in ApprovalIds |-> f[a]],
           \A a \in ApprovalIds : Permission'[a] = f[a]
    PROVE  Permission' = f
<1>1. Permission' = [a \in ApprovalIds |-> Permission'[a]]
  BY DEF Permission
<1> QED
  BY <1>1

\* Rows that keep status and execution id keep their permission.
LEMMA SameRows ==
    ASSUME Inv, Inv',
           \A a \in ApprovalIds : /\ approvals'[a].status = approvals[a].status
                                  /\ approvals'[a].execution = approvals[a].execution
    PROVE  Permission' = Permission
<1>1. Permission = [a \in ApprovalIds |-> Permission[a]]
  BY DEF Permission
<1>2. ASSUME NEW a \in ApprovalIds PROVE Permission'[a] = Permission[a]
  <2> DEFINE x == approvals[a]
  <2> DEFINE y == approvals'[a]
  <2>1. x \in Row /\ y \in Row /\ Permission[a] = PermissionOf(x) /\ Permission'[a] = PermissionOf(y)
    BY RowsAt
  <2>2. y.status = x.status /\ y.execution = x.execution
    OBVIOUS
  <2>3. x.status \in {"none", "pending"} \cup Allowed \cup Closed
    BY <2>1 DEF Row, Open
  <2> HIDE DEF x, y
  <2> QED
    BY <2>1, <2>2, <2>3, PermissionCases DEF Allowed, Closed
<1> QED
  BY <1>1, <1>2, PermissionFunction

\* Closing rows withdraws the permissions that are not spent.
LEMMA CloseWithdraws ==
    ASSUME Inv, Inv', NEW H \in SUBSET ApprovalIds, NEW st \in Closed,
           \A a \in H : approvals[a].status \in Open,
           approvals' = SetStatus(H, st), ran' = ran
    PROVE  AbsStep
<1> DEFINE R == {a \in H : approvals[a].execution = None}
<1> DEFINE f == [a \in ApprovalIds |-> IF a \in R THEN "void" ELSE Permission[a]]
<1>1. ASSUME NEW a \in ApprovalIds
      PROVE  /\ approvals'[a].status = IF a \in H THEN st ELSE approvals[a].status
             /\ approvals'[a].execution = approvals[a].execution
  <2>1. approvals[a] \in Row
    BY DEF Inv, TypeOK
  <2>2. approvals'[a] = IF a \in H THEN [approvals[a] EXCEPT !.status = st] ELSE approvals[a]
    BY DEF SetStatus
  <2> QED
    BY <2>1, <2>2 DEF Row
<1>2. ASSUME NEW a \in ApprovalIds PROVE Permission'[a] = f[a]
  <2> DEFINE x == approvals[a]
  <2> DEFINE y == approvals'[a]
  <2>1. x \in Row /\ y \in Row /\ Permission[a] = PermissionOf(x) /\ Permission'[a] = PermissionOf(y)
    BY RowsAt
  <2>2. y.status = (IF a \in H THEN st ELSE x.status) /\ y.execution = x.execution
    BY <1>1
  <2>3. /\ x.status \in {"none", "pending"} \cup Allowed \cup Closed
        /\ a \in H => x.status \in {"pending"} \cup Allowed
    BY <2>1 DEF Row, Open
  <2>4. a \in R <=> a \in H /\ x.execution = None
    OBVIOUS
  <2> HIDE DEF x, y, R
  <2>5. PermissionOf(y) = IF a \in R THEN "void" ELSE PermissionOf(x)
    BY <2>1, <2>2, <2>3, <2>4, PermissionCases DEF Allowed, Closed
  <2> QED
    BY <2>1, <2>5
<1>3. Permission' = f
  <2>1. f = [a \in ApprovalIds |-> f[a]]
    OBVIOUS
  <2> HIDE DEF f
  <2> QED
    BY <1>2, <2>1, PermissionFunction
<1>4. \A a \in R : Permission[a] \in {"asked", "granted"}
  BY PermissionCases, RowsAt DEF Open, Allowed
<1>5. R \in SUBSET ApprovalIds /\ Abs!Withdraw(R)
  BY <1>3, <1>4 DEF Abs!Withdraw
<1> QED
  BY <1>5 DEF AbsStep, Abs!AbsNext

\* One row changes its permission.
LEMMA OneRow ==
    ASSUME Inv, Inv', NEW a \in ApprovalIds, NEW p,
           \A b \in ApprovalIds : b # a => approvals'[b] = approvals[b],
           Permission'[a] = p
    PROVE  Permission' = [Permission EXCEPT ![a] = p]
<1> DEFINE f == [Permission EXCEPT ![a] = p]
<1>1. Permission = [b \in ApprovalIds |-> Permission[b]]
  BY DEF Permission
<1>2. ASSUME NEW b \in ApprovalIds, b # a PROVE Permission'[b] = Permission[b]
  BY <1>2, PermissionCases, RowsAt
<1>3. f = [b \in ApprovalIds |-> f[b]] /\ \A b \in ApprovalIds : Permission'[b] = f[b]
  BY <1>1, <1>2
<1> QED
  BY <1>3, PermissionFunction

\* Every step of the engine is a step of the contract or changes nothing of it.
LEMMA StepRefines == Inv /\ Inv' /\ [Next]_vars => AbsStep
<1> SUFFICES ASSUME Inv, Inv', [Next]_vars PROVE AbsStep
  OBVIOUS
<1> USE DEF sessionVars, policyVars, historyVars
<1>0. /\ calls \in [Calls -> Call] /\ approvals \in [ApprovalIds -> Row]
      /\ ran \in [ApprovalIds -> Nat]
  BY DEF Inv, TypeOK
<1>1. ASSUME UNCHANGED <<approvals, ran>> PROVE AbsStep
  BY <1>1, SameRows DEF AbsStep
<1>2. ASSUME NEW k \in Calls, Admission(k) \/ FailedAccess(k) PROVE AbsStep
  BY <1>1, <1>2 DEF Admission, JoinSession, OpenSession, FailedAccess
<1>3. ASSUME NEW p, InvalidateRows(p), ran' = ran PROVE AbsStep
  <2> DEFINE H == {a \in ApprovalIds : Matches(p, a)}
  <2>1. /\ H \in SUBSET ApprovalIds /\ \A a \in H : approvals[a].status \in Open
        /\ approvals' = SetStatus(H, "invalidated") /\ "invalidated" \in Closed
    BY <1>3 DEF InvalidateRows, Matches, Closed
  <2> QED
    BY <1>3, <2>1, CloseWithdraws
<1>4. ASSUME NEW k \in Calls, Progress(k) PROVE AbsStep
  <2>1. CASE \/ RequestApproval(k) \/ StoreSnapshot(k) \/ ReadContext(k) \/ RefuseResume(k)
             \/ RefuseScope(k) \/ ForgetSnapshot(k) \/ AbandonOperation(k)
             \/ CompleteExecution(k)
    BY <1>1, <2>1 DEF RequestApproval, StoreSnapshot, ReadContext, RefuseResume, RefuseScope,
                      ForgetSnapshot, AbandonOperation, CompleteExecution
  <2>2. CASE FlushExpired(k)
    BY <1>3, <2>2 DEF FlushExpired
  <2>3. CASE VoidResume(k)
    <3> DEFINE H == {calls[k].approval}
    <3>1. H \in SUBSET ApprovalIds /\ \A a \in H : approvals[a].status \in Open
      BY <2>3 DEF Inv, VoidResume, Resumable, CallOK, CallNamesRow, Open
    <3>2. approvals' = SetStatus(H, Verdict(k)) /\ ran' = ran
      BY <1>0, <2>3, <3>1 DEF SetStatus, VoidResume
    <3>3. Verdict(k) \in Closed
      BY <2>3 DEF VoidResume, Verdict, Closed
    <3> QED
      BY <3>1, <3>2, <3>3, CloseWithdraws
  <2>4. ASSUME NEW a \in ApprovalIds, CreateRow(k, a) PROVE AbsStep
    <3>1. \A b \in ApprovalIds : b # a => approvals'[b] = approvals[b]
      BY <1>0, <2>4 DEF CreateRow
    <3>2. approvals'[a].status = "pending" /\ approvals'[a].execution = None
          /\ approvals[a].status = "none" /\ ran' = ran
      BY <1>0, <2>4 DEF CreateRow, NoApproval
    <3>3. Permission[a] = "unasked" /\ Permission'[a] = "asked"
      BY <3>2, PermissionCases, RowsAt
    <3>4. Abs!Ask(a)
      BY <3>1, <3>2, <3>3, OneRow DEF Abs!Ask
    <3> QED
      BY <3>4 DEF AbsStep, Abs!AbsNext
  <2>5. ASSUME NEW e \in ExecutionIds, Dispatch(k, e) PROVE AbsStep
    <3> DEFINE a == calls[k].approval
    <3>1. a \in ApprovalIds /\ approvals[a].status \in Allowed /\ approvals[a].execution = None
      BY <2>5 DEF Inv, Dispatch, Resumable, CallOK, CallNamesRow
    <3>2. \A b \in ApprovalIds : b # a => approvals'[b] = approvals[b]
      BY <1>0, <2>5 DEF Dispatch
    <3>3. approvals'[a].execution = e /\ approvals'[a].status # "none" /\ ran' = ran
      <4>1. approvals[a] \in Row
        BY <1>0, <3>1
      <4>2. approvals' = [approvals EXCEPT
                            ![a].execution = e,
                            ![a].status = IF @ = "allowed_once" THEN "consumed" ELSE @]
        BY <2>5 DEF Dispatch
      <4> HIDE DEF a
      <4> QED
        BY <1>0, <2>5, <3>1, <4>1, <4>2 DEF Dispatch, Row, Allowed
    <3> HIDE DEF a
    <3>4. Permission[a] = "granted" /\ Permission'[a] = "spent"
      BY <3>1, <3>3, PermissionCases, RowsAt, NoneIsNoId DEF Allowed
    <3>5. Abs!Spend(a)
      BY <3>1, <3>2, <3>3, <3>4, OneRow DEF Abs!Spend
    <3> QED
      BY <3>1, <3>5 DEF AbsStep, Abs!AbsNext
  <2>6. ASSUME NEW outcome \in {"completed", "failed"}, RunOperation(k, outcome) PROVE AbsStep
    <3> DEFINE a == calls[k].approval
    <3>1. /\ a \in ApprovalIds /\ ran[a] = 0 /\ RowOK(a)
          /\ approvals[a].execution \in ExecutionIds
      BY <2>6 DEF Inv, RunOperation, CallOK, CallHolds, Holding
    <3>2. approvals' = approvals /\ ran' = [ran EXCEPT ![a] = ran[a] + 1]
      BY <2>6 DEF RunOperation
    <3> HIDE DEF a
    <3>3. ran' = [ran EXCEPT ![a] = 1]
      BY <3>1, <3>2
    <3>4. Permission[a] = "spent"
      BY <3>1, PermissionCases, RowsAt, NoneIsNoId DEF RowOK
    <3>5. Permission' = Permission
      BY <3>2, SameRows
    <3>6. Abs!Perform(a)
      BY <3>1, <3>3, <3>4, <3>5 DEF Abs!Perform
    <3> QED
      BY <3>1, <3>6 DEF AbsStep, Abs!AbsNext
  <2> QED
    BY <1>4, <2>1, <2>2, <2>3, <2>4, <2>5, <2>6 DEF Progress
<1>5. ASSUME NEW a \in ApprovalIds, NEW status \in Allowed, Allow(a, status) PROVE AbsStep
  <2>1. \A b \in ApprovalIds : b # a => approvals'[b] = approvals[b]
    BY <1>0, <1>5 DEF Allow
  <2>2. approvals[a] \in Row /\ approvals[a].execution = None /\ approvals[a].status = "pending"
    BY <1>0, <1>5 DEF Inv, RowOK, Allow, Decidable
  <2>3. approvals'[a].execution = None /\ approvals'[a].status = status /\ ran' = ran
    BY <1>0, <1>5, <2>2 DEF Allow, Row
  <2>4. Permission[a] = "asked" /\ Permission'[a] = "granted"
    BY <2>2, <2>3, PermissionCases, RowsAt DEF Allowed
  <2>5. Abs!Grant(a)
    BY <2>1, <2>3, <2>4, OneRow DEF Abs!Grant
  <2> QED
    BY <2>5 DEF AbsStep, Abs!AbsNext
<1>6. ASSUME NEW a \in ApprovalIds, Deny(a) \/ DecideLate(a) PROVE AbsStep
  <2> DEFINE H == {a}
  <2>1. PICK st \in {"denied", "expired"} : approvals' = [approvals EXCEPT ![a].status = st]
    BY <1>6 DEF Deny, DecideLate
  <2>2. approvals' = SetStatus(H, st) /\ ran' = ran
    BY <1>0, <1>6, <2>1 DEF SetStatus, Deny, DecideLate
  <2>3. st \in Closed /\ \A b \in H : approvals[b].status \in Open
    BY <1>6 DEF Open, Closed, Deny, DecideLate, Decidable
  <2> QED
    BY <2>2, <2>3, CloseWithdraws
<1>7. CASE \/ Revocation \/ UpdateSettings
           \/ \E a \in ApprovalIds : DropSnapshot(a)
           \/ \E e \in ExecutionIds : Reconcile(e)
  BY <1>1, <1>7 DEF Revocation, EndSession, EndCredential, RevokeCredential, RemoveClient,
                    InvalidateAll, EndSessions, UpdateSettings, DropSnapshot, Reconcile
<1>8. CASE (\E p \in purges : Invalidate(p)) \/ InvalidateForPolicy
  BY <1>3, <1>8 DEF Invalidate, InvalidateForPolicy
<1>9. CASE ExpireSweep
  <2> DEFINE H == {a \in ApprovalIds : /\ approvals[a].status \in {"pending", "allowed_once"}
                                       /\ approvals[a].left < 0}
  <2>1. /\ H \in SUBSET ApprovalIds /\ \A a \in H : approvals[a].status \in Open
        /\ approvals' = SetStatus(H, "expired") /\ ran' = ran /\ "expired" \in Closed
    BY <1>9 DEF ExpireSweep, Open, Allowed, Closed
  <2> QED
    BY <2>1, CloseWithdraws
<1>10. CASE Tick
  <2>1. ASSUME NEW a \in ApprovalIds
        PROVE  /\ approvals'[a].status = approvals[a].status
               /\ approvals'[a].execution = approvals[a].execution
    <3>1. approvals[a] \in Row
      BY <1>0
    <3>2. approvals'[a] = IF approvals[a].status \in Open /\ approvals[a].left >= 0
                          THEN [approvals[a] EXCEPT !.left = approvals[a].left - 1]
                          ELSE approvals[a]
      BY <1>10 DEF Tick
    <3> QED
      BY <3>1, <3>2 DEF Row
  <2>2. ran' = ran
    BY <1>10 DEF Tick
  <2> QED
    BY <2>1, <2>2, SameRows DEF AbsStep
<1>11. CASE Restart
  <2> DEFINE H == {a \in ApprovalIds : approvals[a].status \in Open}
  <2>1. /\ H \in SUBSET ApprovalIds /\ \A a \in H : approvals[a].status \in Open
        /\ approvals' = SetStatus(H, "invalidated") /\ ran' = ran /\ "invalidated" \in Closed
    BY <1>11 DEF Restart, Closed
  <2> QED
    BY <2>1, CloseWithdraws
<1>12. CASE UNCHANGED vars
  BY <1>1, <1>12 DEF vars
<1>13. CASE FailedInvalidation \/ \E k \in Calls : FailedFlush(k)
  <2>1. PICK p : PartlyInvalidate(p)
    BY <1>13 DEF FailedInvalidation, FailedFlush
  <2>2. PICK H \in SUBSET ApprovalIds : /\ \A a \in H : approvals[a].status \in Open
                                        /\ approvals' = SetStatus(H, "invalidated")
    BY <2>1 DEF PartlyInvalidate, Matches
  <2>3. ran' = ran /\ "invalidated" \in Closed
    BY <1>13 DEF FailedInvalidation, FailedFlush, Closed
  <2> QED
    BY <2>2, <2>3, CloseWithdraws
<1> QED
  BY <1>2, <1>4, <1>5, <1>6, <1>7, <1>8, <1>9, <1>10, <1>11, <1>12, <1>13
     DEF Next, LocalUser

\* The approval engine implements the abstract consent contract: what the
\* transactions of decide, begin_resume, invalidate, expire_sweep and
\* startup_recovery do to a row is asking, granting, withdrawing or spending
\* one permission, and the operation is performed only on a spent one.
THEOREM EngineImplementsConsent == Spec => ImplementsConsent
<1>1. Init => Abs!AbsInit
  <2> SUFFICES ASSUME Init PROVE Abs!AbsInit
    OBVIOUS
  <2>1. \A a \in ApprovalIds : approvals[a] \in Row /\ approvals[a].status = "none"
    BY InitInv DEF Init, Inv, TypeOK, NoApproval
  <2>2. \A a \in ApprovalIds : PermissionOf(approvals[a]) = "unasked"
    BY <2>1, PermissionCases
  <2>3. Permission = [a \in ApprovalIds |-> "unasked"]
    BY <2>2 DEF Permission
  <2> QED
    BY <2>3 DEF Init, Abs!AbsInit
<1>2. Inv /\ Inv' /\ [Next]_vars => [Abs!AbsNext]_(Abs!absvars)
  BY StepRefines DEF AbsStep, Abs!absvars
<1> QED
  BY <1>1, <1>2, Invariance, PTL DEF Spec, ImplementsConsent, Abs!AbsSpec

-----------------------------------------------------------------------------
\* Voiding (VoidedOnlyForCause).  approval_resume voids with what it read before
\* its transaction: the session it was admitted with, a policy revision and the
\* presence of the snapshot.  Each of the three must still be a cause when it is
\* used, and CauseInv says why it is.

\* Session s is over: no credential has it, and none will have it again.
Over(s) == \A cr \in Credentials : active[cr] # s

\* Some call has inserted row a and is about to store its snapshot.
Storing(a) == \E k \in Calls : calls[k].pc = "store" /\ calls[k].approval = a

\* What a call has learnt stays a cause.  The session that admission replaced
\* is over, and so is every other session of the credential with an approval
\* that the call names; a revision it read is not older than the approval, and
\* a snapshot that it missed belongs to an approval that is no longer open.
CauseOK(c) ==
    /\ c.pc = "flush" => c.owed \in SessionIds /\ home[c.owed] # None /\ Over(c.owed)
    /\ (c.pc \in Naming /\ c.approval # None) =>
          /\ ~Storing(c.approval)
          /\ (/\ approvals[c.approval].session # c.session
              /\ home[approvals[c.approval].session] = c.cred) =>
                 Over(approvals[c.approval].session)
    /\ c.pc \in {"insert", "begin"} => c.revision <= revision
    /\ c.pc = "begin" =>
          /\ approvals[c.approval].revision <= c.revision
          /\ ~c.snapshot => approvals[c.approval].status \notin Open

\* An approval is not newer than the settings; while it is open its snapshot is
\* in memory or about to be, and nobody is about to remove it.
SnapshotOK(a) ==
    /\ approvals[a].status # "none" => approvals[a].revision <= revision
    /\ approvals[a].status \in Open => a \in ops \/ Storing(a)
    /\ a \in dropping => approvals[a].status \in Closed

\* The inductive invariant, next to Inv of module ApprovalsProofs.
CauseInv ==
    /\ \A k \in Calls : CauseOK(calls[k])
    /\ \A a \in ApprovalIds : SnapshotOK(a)

-----------------------------------------------------------------------------
(* What every step keeps.                                                  *)

\* Rows only move on: one that exists keeps its session and its revision and
\* does not open again.
RowsOnward ==
    \A a \in ApprovalIds : approvals[a].status # "none" =>
        /\ approvals'[a].status # "none"
        /\ approvals'[a].session = approvals[a].session
        /\ approvals'[a].revision = approvals[a].revision
        /\ approvals[a].status \notin Open => approvals'[a].status \notin Open

\* Sessions keep their credential, and one that is over stays over.
SessionsOnward ==
    \A s \in SessionIds : home[s] # None =>
        home'[s] = home[s] /\ (Over(s) => Over(s)')

\* Nobody starts to store the snapshot of a row that exists already.
StoringOnward ==
    \A a \in ApprovalIds : (Storing(a)' /\ ~Storing(a)) => approvals[a].status = "none"

Onward == RowsOnward /\ SessionsOnward /\ StoringOnward /\ revision <= revision'

\* What a call knows stays true while others move on.
LEMMA CauseStays ==
    ASSUME Inv, Inv', Onward, NEW c \in Call, CallOK(c), CauseOK(c)
    PROVE  CauseOK(c)'
<1>1. revision \in Nat /\ revision' \in Nat /\ c.revision \in Nat
  BY DEF Inv, TypeOK, Call
<1>2. c.pc = "flush" => c.owed \in SessionIds /\ (home[c.owed] # None)' /\ Over(c.owed)'
  BY DEF Onward, SessionsOnward, CauseOK
<1>3. ASSUME c.pc \in Naming, c.approval # None
      PROVE  /\ c.approval \in ApprovalIds /\ approvals[c.approval].status # "none"
             /\ ~Storing(c.approval)'
             /\ approvals'[c.approval].session = approvals[c.approval].session
             /\ approvals'[c.approval].revision = approvals[c.approval].revision
             /\ approvals[c.approval].status \notin Open =>
                   approvals'[c.approval].status \notin Open
             /\ approvals[c.approval].session \in SessionIds
             /\ home[approvals[c.approval].session] # None
  <2>1. c.approval \in ApprovalIds /\ approvals[c.approval].status # "none" /\ ~Storing(c.approval)
    BY <1>3 DEF Call, CallOK, CallNamesRow, CauseOK
  <2>2. RowHome(c.approval)
    BY <2>1 DEF Inv
  <2> QED
    BY <2>1, <2>2 DEF Onward, RowsOnward, StoringOnward, RowHome
<1>4. ASSUME c.pc \in Naming, c.approval # None,
             (approvals[c.approval].session # c.session)',
             (home[approvals[c.approval].session] = c.cred)'
      PROVE  Over(approvals[c.approval].session)'
  <2> DEFINE s == approvals[c.approval].session
  <2>1. /\ approvals'[c.approval].session = s /\ s \in SessionIds /\ home[s] # None
    BY <1>3, <1>4
  <2>2. home'[s] = home[s] /\ (Over(s) => \A cr \in Credentials : active'[cr] # s)
    BY <2>1 DEF Onward, SessionsOnward, Over
  <2>3. s # c.session /\ home[s] = c.cred
    BY <1>4, <2>1, <2>2
  <2>4. Over(s)
    BY <1>4, <2>3 DEF CauseOK
  <2> QED
    BY <2>1, <2>2, <2>4 DEF Over
<1>5. c.pc \in {"insert", "begin"} => c.revision <= revision'
  BY <1>1 DEF Onward, CauseOK
<1>6. ASSUME c.pc = "begin"
      PROVE  /\ (approvals[c.approval].revision <= c.revision)'
             /\ ~c.snapshot => (approvals[c.approval].status \notin Open)'
  <2>1. c.pc \in Naming /\ c.approval # None
    BY <1>6, NoneIsNoId DEF Naming, CallOK, CallNamesRow
  <2> QED
    BY <1>3, <1>6, <2>1 DEF CauseOK
<1> QED
  BY <1>2, <1>3, <1>4, <1>5, <1>6 DEF CauseOK

\* The steps at which a call has learnt nothing that could become a cause.
Quiet == {"idle", "request", "store", "forget", "run", "complete"}

LEMMA QuietCause ==
    ASSUME NEW c, c.pc \in Quiet
    PROVE  CauseOK(c) /\ CauseOK(c)'
  BY DEF Quiet, CauseOK, Naming

\* Calls that stay as they are keep what they know; rows keep their snapshots
\* when no open one loses its own.
LEMMA CauseStep ==
    ASSUME Inv, Inv', StepOK, CauseInv, Onward,
           \A k \in Calls : calls'[k] = calls[k] \/ CauseOK(calls[k])',
           \A a \in ApprovalIds : approvals'[a].status # "none" => approvals[a].status # "none",
           \A a \in ApprovalIds : approvals'[a].status \in Open =>
              /\ a \in ops => a \in ops'
              /\ Storing(a) => a \in ops' \/ Storing(a)',
           \A a \in dropping' : a \in dropping \/ approvals'[a].status \in Closed
    PROVE  CauseInv'
<1>1. ASSUME NEW k \in Calls, calls'[k] = calls[k] PROVE CauseOK(calls[k])'
  <2>1. PICK c \in Call : c = calls[k]
    BY DEF Inv, TypeOK
  <2>2. CallOK(c) /\ CauseOK(c)
    BY <2>1 DEF Inv, CauseInv
  <2>3. CauseOK(c)'
    BY <2>2, CauseStays
  <2>4. c = calls'[k]
    BY <1>1, <2>1
  <2> QED
    BY <2>3, <2>4 DEF CauseOK
<1>2. ASSUME NEW a \in ApprovalIds PROVE SnapshotOK(a)'
  <2>1. SnapshotOK(a)
    BY DEF CauseInv
  <2>2. (approvals[a].status # "none")' => (approvals[a].revision <= revision)'
    <3>1. approvals[a].revision \in Nat /\ revision \in Nat /\ revision' \in Nat
      BY DEF Inv, TypeOK, Row
    <3> QED
      BY <2>1, <3>1 DEF SnapshotOK, Onward, RowsOnward
  <2>3. (approvals[a].status \in Open)' => a \in ops' \/ Storing(a)'
    <3>1. "none" \notin Open
      BY DEF Open, Allowed
    <3>2. (approvals[a].status \in Open)' => approvals[a].status \in Open
      BY <3>1 DEF Onward, RowsOnward
    <3> QED
      BY <2>1, <3>2 DEF SnapshotOK
  <2>4. a \in dropping' => (approvals[a].status \in Closed)'
    BY <2>1 DEF SnapshotOK, StepOK
  <2> QED
    BY <2>2, <2>3, <2>4 DEF SnapshotOK
<1> QED
  BY <1>1, <1>2 DEF CauseInv

\* A step that puts call k at a place where it stores no snapshot.
LEMMA MoveStoring ==
    ASSUME calls \in [Calls -> Call], NEW k \in Calls, NEW r,
           calls' = [calls EXCEPT ![k] = r], calls[k].pc # "store", r.pc # "store"
    PROVE  /\ calls'[k] = r
           /\ \A j \in Calls \ {k} : calls'[j] = calls[j]
           /\ \A a \in ApprovalIds : Storing(a)' <=> Storing(a)
           /\ StoringOnward
<1>1. calls'[k] = r /\ \A j \in Calls \ {k} : calls'[j] = calls[j]
  OBVIOUS
<1>2. \A a \in ApprovalIds : Storing(a)' <=> Storing(a)
  BY <1>1 DEF Storing
<1> QED
  BY <1>1, <1>2 DEF StoringOnward

\* Such a step when the tables and the sessions stay as they are.
LEMMA MoveStep ==
    ASSUME Inv, Inv', StepOK, CauseInv, NEW k \in Calls, NEW r,
           calls' = [calls EXCEPT ![k] = r], calls[k].pc # "store", r.pc # "store",
           UNCHANGED <<approvals, active, home, revision, dropping>>,
           \A a \in ApprovalIds : approvals[a].status \in Open /\ a \in ops => a \in ops',
           Onward => CauseOK(r)'
    PROVE  CauseInv'
<1>1. calls \in [Calls -> Call] /\ revision \in Nat
  BY DEF Inv, TypeOK
<1>2. /\ calls'[k] = r
      /\ \A j \in Calls \ {k} : calls'[j] = calls[j]
      /\ \A a \in ApprovalIds : Storing(a)' <=> Storing(a)
      /\ StoringOnward
  BY <1>1, MoveStoring
<1>3. Onward
  BY <1>1, <1>2 DEF Onward, RowsOnward, SessionsOnward, Over
<1>4. CauseOK(calls[k])'
  BY <1>2, <1>3 DEF CauseOK
<1> QED
  BY <1>2, <1>3, <1>4, CauseStep

-----------------------------------------------------------------------------
(* The steps of calls that leave the tables alone.                         *)

\* A session is active for the credential it was opened for and for no other;
\* so while the credential has a session, its other sessions are over.
LEMMA OneSession ==
    ASSUME Inv, NEW cr \in Credentials, NEW s \in SessionIds, s # active[cr], home[s] = cr
    PROVE  Over(s)
<1> SUFFICES ASSUME NEW d \in Credentials, active[d] = s PROVE FALSE
  BY DEF Over
<1>1. home[s] = d
  BY NoneIsNoId DEF Inv, SessionsOK
<1> QED
  BY <1>1

\* session_for finds the session of the credential.
LEMMA JoinCause ==
    ASSUME Inv, Inv', StepOK, CauseInv, NEW k \in Calls, NEW cr \in Credentials,
           NEW t \in Known \cup {None}, JoinSession(k, cr, t)
    PROVE  CauseInv'
<1>1. PICK r : r = [Idle EXCEPT !.pc = FirstStep(t), !.cred = cr, !.session = active[cr],
                                !.approval = t]
  OBVIOUS
<1>2. r.pc = FirstStep(t) /\ r.cred = cr /\ r.session = active[cr] /\ r.approval = t
  BY <1>1 DEF Idle
<1>3. /\ calls' = [calls EXCEPT ![k] = r] /\ calls[k].pc # "store" /\ r.pc # "store"
      /\ UNCHANGED <<approvals, active, home, revision, dropping, ops>>
  BY <1>1, <1>2 DEF JoinSession, sessionVars, policyVars, FirstStep
<1>4. CASE t = None
  <2>1. CauseOK(r)'
    BY <1>2, <1>4, QuietCause DEF FirstStep, Quiet
  <2> QED
    BY <1>3, <2>1, MoveStep
<1>5. CASE t # None
  <2>1. t \in ApprovalIds /\ approvals[t].status # "none" /\ ~Storing(t) /\ r.pc = "resume"
    BY <1>2, <1>5 DEF Known, Storing, FirstStep
  <2>2. RowHome(t)
    BY <2>1 DEF Inv
  <2>3. calls \in [Calls -> Call]
    BY DEF Inv, TypeOK
  <2>4. ~Storing(t)'
    BY <1>3, <2>1, <2>3, MoveStoring
  <2>5. (/\ approvals[t].session # active[cr]
         /\ home[approvals[t].session] = cr) => Over(approvals[t].session)
    BY <2>1, <2>2, OneSession DEF RowHome
  <2>6. CauseOK(r)'
    BY <1>2, <1>3, <2>1, <2>4, <2>5 DEF CauseOK, Over
  <2> QED
    BY <1>3, <2>6, MoveStep
<1> QED
  BY <1>4, <1>5

\* request_approval and approval_resume read the settings and the snapshots.
LEMMA ReadCause ==
    ASSUME Inv, Inv', StepOK, CauseInv, NEW k \in Calls, RequestApproval(k) \/ ReadContext(k)
    PROVE  CauseInv'
<1>1. calls[k] \in Call /\ CallOK(calls[k]) /\ CauseOK(calls[k]) /\ revision \in Nat
  BY DEF Inv, TypeOK, CauseInv
<1>2. CASE RequestApproval(k)
  <2>1. PICK r : r = [calls[k] EXCEPT !.pc = "insert", !.revision = revision]
    OBVIOUS
  <2>2. r.pc = "insert" /\ r.revision = revision
    BY <1>1, <2>1 DEF Call
  <2>3. /\ calls' = [calls EXCEPT ![k] = r] /\ calls[k].pc # "store" /\ r.pc # "store"
        /\ UNCHANGED <<approvals, active, home, revision, dropping, ops>>
    BY <1>2, <2>1, <2>2 DEF RequestApproval, sessionVars, policyVars
  <2>4. CauseOK(r)'
    BY <1>1, <2>2, <2>3 DEF CauseOK, Naming
  <2> QED
    BY <2>3, <2>4, MoveStep
<1>3. CASE ReadContext(k)
  <2>1. PICK a \in ApprovalIds : /\ a = calls[k].approval /\ a # None
                                  /\ approvals[a].status # "none" /\ calls[k].pc \in Naming
    BY <1>1, <1>3, NoneIsNoId DEF ReadContext, CallOK, CallNamesRow, Naming
  <2> DEFINE present == calls[k].approval \in ops
             late == approvals[calls[k].approval].left < 0
             x == [calls[k] EXCEPT !.pc = "begin", !.revision = revision,
                                   !.snapshot = present, !.late = late]
  <2>2. PICK r : /\ calls' = [calls EXCEPT ![k] = r]
                 /\ r.pc = "begin" /\ r.revision = revision /\ r.approval = a
                 /\ r.session = calls[k].session /\ r.cred = calls[k].cred
                 /\ ~r.snapshot => a \notin ops
    <3>1. calls' = [calls EXCEPT ![k] = x]
      <4>1. calls' = [calls EXCEPT ![k].pc = "begin", ![k].revision = revision,
                                   ![k].snapshot = present, ![k].late = late]
        BY <1>3 DEF ReadContext
      <4> HIDE DEF present, late
      <4> QED
        BY <4>1
    <3>2. /\ x.pc = "begin" /\ x.revision = revision /\ x.approval = calls[k].approval
          /\ x.session = calls[k].session /\ x.cred = calls[k].cred /\ x.snapshot = present
      BY <1>1, ZenonT(60) DEF Call
    <3> HIDE DEF x
    <3> QED
      BY <2>1, <3>1, <3>2
  <2>3. UNCHANGED <<approvals, active, home, revision, dropping, ops>> /\ calls[k].pc # "store"
    BY <1>3 DEF ReadContext, sessionVars, policyVars
  <2>4. SnapshotOK(a) /\ calls \in [Calls -> Call]
    BY <2>1 DEF CauseInv, Inv, TypeOK
  <2>5. ~Storing(a) /\ ~Storing(a)'
    BY <1>1, <2>1, <2>2, <2>3, <2>4, MoveStoring DEF CauseOK
  <2>6. (approvals[a].session # r.session /\ home[approvals[a].session] = r.cred) =>
           Over(approvals[a].session)
    BY <1>1, <2>1, <2>2 DEF CauseOK
  <2>7. ~r.snapshot => approvals[a].status \notin Open
    BY <2>2, <2>4, <2>5 DEF SnapshotOK
  <2>8. approvals[a].revision <= revision
    BY <2>1, <2>4 DEF SnapshotOK
  <2>9. ~Storing(r.approval)' /\ r.approval \in ApprovalIds /\ r.approval # None
    BY <2>1, <2>2, <2>5
  <2>10. ((approvals[a].session # r.session /\ home[approvals[a].session] = r.cred) =>
            Over(approvals[a].session))'
    BY <2>3, <2>6 DEF Over
  <2>11. (approvals[a].revision <= r.revision)' /\ r.revision <= revision'
    BY <1>1, <2>2, <2>3, <2>8
  <2>12. ~r.snapshot => (approvals[a].status \notin Open)'
    BY <2>3, <2>7
  <2>13. CauseOK(r)'
    BY <2>2, <2>9, <2>10, <2>11, <2>12 DEF CauseOK
  <2> QED
    BY <2>2, <2>3, <2>13, MoveStep
<1> QED
  BY <1>2, <1>3

\* The steps after which a call has nothing to void an approval with.
LEMMA QuietMoves ==
    ASSUME Inv, Inv', StepOK, CauseInv, NEW k \in Calls,
           \/ RefuseResume(k) \/ RefuseScope(k) \/ FailedAccess(k)
           \/ ForgetSnapshot(k) \/ AbandonOperation(k) \/ CompleteExecution(k)
           \/ \E outcome \in {"completed", "failed"} : RunOperation(k, outcome)
    PROVE  CauseInv'
<1>1. calls[k] \in Call
  BY DEF Inv, TypeOK
<1>2. PICK r : calls' = [calls EXCEPT ![k] = r] /\ r.pc \in {"idle", "run", "complete"}
  <2>1. CASE RefuseResume(k) \/ RefuseScope(k) \/ FailedAccess(k) \/ CompleteExecution(k)
    BY <2>1 DEF RefuseResume, RefuseScope, FailedAccess, CompleteExecution, Idle
  <2>2. CASE ForgetSnapshot(k)
    <3> DEFINE r == [calls[k] EXCEPT !.pc = "run"]
    <3>1. calls' = [calls EXCEPT ![k] = r]
      BY <2>2 DEF ForgetSnapshot
    <3>2. r.pc = "run"
      BY <1>1 DEF Call
    <3> HIDE DEF r
    <3> QED
      BY <3>1, <3>2
  <2>3. CASE AbandonOperation(k)
    <3> DEFINE r == [calls[k] EXCEPT !.pc = "complete", !.outcome = "failed"]
    <3>1. calls' = [calls EXCEPT ![k] = r]
      BY <2>3 DEF AbandonOperation
    <3>2. r.pc = "complete"
      BY <1>1 DEF Call
    <3> HIDE DEF r
    <3> QED
      BY <3>1, <3>2
  <2>4. ASSUME NEW outcome, RunOperation(k, outcome)
        PROVE  \E r : calls' = [calls EXCEPT ![k] = r] /\ r.pc \in {"idle", "run", "complete"}
    <3> DEFINE r == [calls[k] EXCEPT !.pc = "complete", !.outcome = outcome]
    <3>1. calls' = [calls EXCEPT ![k] = r]
      BY <2>4 DEF RunOperation
    <3>2. r.pc = "complete"
      BY <1>1 DEF Call
    <3> HIDE DEF r
    <3> QED
      BY <3>1, <3>2
  <2> QED
    BY <2>1, <2>2, <2>3, <2>4
<1>3. UNCHANGED <<approvals, active, home, revision, dropping>> /\ calls[k].pc # "store"
  BY DEF RefuseResume, RefuseScope, FailedAccess, ForgetSnapshot, AbandonOperation,
         CompleteExecution, RunOperation, sessionVars, policyVars, historyVars
<1>4. \A a \in ApprovalIds : approvals[a].status \in Open /\ a \in ops => a \in ops'
  BY DEF RefuseResume, RefuseScope, FailedAccess, ForgetSnapshot, AbandonOperation,
         CompleteExecution, RunOperation, Open, Allowed
<1>5. CauseOK(r)' /\ r.pc # "store"
  BY <1>2, QuietCause DEF Quiet
<1> QED
  BY <1>2, <1>3, <1>4, <1>5, MoveStep

\* create has stored the snapshot: the row no longer depends on the call.
LEMMA StoreCause ==
    ASSUME Inv, Inv', StepOK, CauseInv, NEW k \in Calls, StoreSnapshot(k)
    PROVE  CauseInv'
<1>1. /\ calls \in [Calls -> Call] /\ Idle.pc = "idle" /\ revision \in Nat
      /\ calls' = [calls EXCEPT ![k] = Idle]
      /\ UNCHANGED <<approvals, active, home, revision, dropping>>
      /\ ops' = ops \cup {calls[k].approval}
  BY DEF Inv, TypeOK, Idle, StoreSnapshot, sessionVars, policyVars
<1>2. calls'[k] = Idle /\ \A j \in Calls \ {k} : calls'[j] = calls[j]
  BY <1>1
<1>3. \A a \in ApprovalIds : Storing(a)' => Storing(a)
  BY <1>1, <1>2 DEF Storing
<1>4. \A a \in ApprovalIds : Storing(a) => a \in ops' \/ Storing(a)'
  BY <1>1, <1>2 DEF Storing
<1>5. Onward
  BY <1>1, <1>3 DEF Onward, RowsOnward, SessionsOnward, StoringOnward, Over
<1>6. CauseOK(calls[k])'
  BY <1>1, <1>2, QuietCause DEF Quiet, CauseOK, Naming
<1> QED
  BY <1>1, <1>2, <1>4, <1>5, <1>6, CauseStep

\* resolve opens a session, or replaces one that has expired, which is over
\* from then on.
LEMMA OpenCause ==
    ASSUME Inv, Inv', StepOK, CauseInv, NEW k \in Calls, NEW cr \in Credentials,
           NEW s \in SessionIds, NEW t \in Known \cup {None}, OpenSession(k, cr, s, t)
    PROVE  CauseInv'
<1> DEFINE p == IF active[cr] = None THEN FirstStep(t) ELSE "flush"
<1>1. PICK r : r = [Idle EXCEPT !.pc = p, !.cred = cr, !.session = s, !.owed = active[cr],
                                !.approval = t]
  OBVIOUS
<1>2. r.pc = p /\ r.cred = cr /\ r.session = s /\ r.owed = active[cr] /\ r.approval = t
  BY <1>1 DEF Idle
<1>3. /\ calls' = [calls EXCEPT ![k] = r] /\ calls[k].pc # "store" /\ home[s] = None
      /\ active' = [active EXCEPT ![cr] = s] /\ home' = [home EXCEPT ![s] = cr]
      /\ UNCHANGED <<approvals, revision, dropping, ops>>
  BY <1>1 DEF OpenSession, policyVars
<1>4. r.pc # "store"
  BY <1>2 DEF FirstStep
<1>5. /\ calls \in [Calls -> Call] /\ active \in [Credentials -> SessionIds \cup {None}]
      /\ home \in [SessionIds -> Credentials \cup {None}] /\ revision \in Nat
  BY DEF Inv, TypeOK
<1>6. /\ calls'[k] = r /\ StoringOnward
      /\ \A j \in Calls \ {k} : calls'[j] = calls[j]
      /\ \A a \in ApprovalIds : Storing(a)' <=> Storing(a)
  BY <1>3, <1>4, <1>5, MoveStoring
<1>7. \A x \in SessionIds : home[x] # None => home'[x] = home[x] /\ x # s
  BY <1>3, <1>5
<1>8. \A x \in SessionIds : x # s /\ Over(x) => Over(x)'
  BY <1>3, <1>5 DEF Over
<1>9. Onward
  BY <1>3, <1>5, <1>6, <1>7, <1>8 DEF Onward, RowsOnward, SessionsOnward
<1>10. ASSUME NEW x \in SessionIds, home[x] = cr PROVE Over(x)'
  <2>1. ASSUME NEW d \in Credentials, d # cr PROVE active'[d] # x
    <3>1. active'[d] = active[d]
      BY <1>3, <1>5, <2>1
    <3>2. active[d] = x => home[x] = d
      BY NoneIsNoId DEF Inv, SessionsOK
    <3> QED
      BY <1>10, <2>1, <3>1, <3>2
  <2>2. active'[cr] = s /\ s # x
    BY <1>3, <1>5, <1>10, NoneIsNoId
  <2> QED
    BY <2>1, <2>2 DEF Over
<1>11. r.pc = "flush" => r.owed \in SessionIds /\ (home[r.owed] # None)' /\ Over(r.owed)'
  <2> SUFFICES ASSUME r.pc = "flush"
               PROVE  r.owed \in SessionIds /\ home'[r.owed] # None /\ Over(r.owed)'
    OBVIOUS
  <2>1. active[cr] # None
    BY <1>2 DEF FirstStep
  <2>2. PICK x \in SessionIds : x = active[cr] /\ home[x] = cr /\ cr # None
    BY <1>5, <2>1, NoneIsNoId DEF Inv, SessionsOK
  <2>3. Over(x)' /\ home'[x] = cr
    BY <1>7, <1>10, <2>2
  <2> QED
    BY <1>2, <2>2, <2>3
<1>12. ASSUME t # None
       PROVE  /\ ~Storing(t)'
              /\ (home[approvals[t].session] = cr => Over(approvals[t].session))'
  <2>1. t \in ApprovalIds /\ approvals[t].status # "none" /\ ~Storing(t)
    BY <1>12 DEF Known, Storing
  <2>2. PICK x \in SessionIds : x = approvals[t].session /\ home[x] # None
    BY <2>1 DEF Inv, RowHome
  <2>3. approvals'[t].session = x /\ home'[x] = home[x]
    BY <1>3, <1>7, <2>2
  <2>4. home[x] = cr => Over(x)'
    BY <1>10
  <2> QED
    BY <1>6, <2>1, <2>3, <2>4 DEF Over
<1>13. r.pc \in {"request", "resume", "flush"}
  BY <1>2 DEF FirstStep
<1> HIDE DEF p
<1>14. CauseOK(r)'
  BY <1>2, <1>11, <1>12, <1>13 DEF CauseOK
<1>15. CauseOK(calls[k])'
  BY <1>6, <1>14 DEF CauseOK
<1> QED
  BY <1>3, <1>6, <1>9, <1>15, CauseStep

-----------------------------------------------------------------------------
(* The steps that change rows.                                             *)

\* Closing open rows.
LEMMA CloseRows ==
    ASSUME Inv, NEW H \in SUBSET ApprovalIds, NEW st \in Closed,
           \A a \in H : approvals[a].status \in Open,
           approvals' = SetStatus(H, st)
    PROVE  /\ RowsOnward
           /\ \A a \in ApprovalIds : approvals'[a].status # "none" => approvals[a].status # "none"
           /\ \A a \in H : approvals'[a].status \in Closed
           /\ \A a \in ApprovalIds \ H : approvals'[a].status = approvals[a].status
<1>1. ASSUME NEW a \in ApprovalIds
      PROVE  /\ approvals'[a].status = IF a \in H THEN st ELSE approvals[a].status
             /\ approvals'[a].session = approvals[a].session
             /\ approvals'[a].revision = approvals[a].revision
  <2>1. approvals[a] \in Row
    BY DEF Inv, TypeOK
  <2>2. approvals'[a] = IF a \in H THEN [approvals[a] EXCEPT !.status = st] ELSE approvals[a]
    BY DEF SetStatus
  <2> QED
    BY <2>1, <2>2 DEF Row
<1>2. st # "none" /\ st \notin Open /\ "none" \notin Open
  BY DEF Open, Closed, Allowed
<1> QED
  BY <1>1, <1>2 DEF RowsOnward

\* Rows are closed, or stay as open as they are, and no call moves.
LEMMA RowsStep ==
    ASSUME Inv, Inv', StepOK, CauseInv, RowsOnward,
           \A a \in ApprovalIds : approvals'[a].status # "none" => approvals[a].status # "none",
           \A a \in dropping' : a \in dropping \/ approvals'[a].status \in Closed,
           UNCHANGED <<ops, active, home, calls>>, revision <= revision'
    PROVE  CauseInv'
<1>1. Onward /\ \A a \in ApprovalIds : Storing(a)' <=> Storing(a)
  BY DEF Onward, SessionsOnward, StoringOnward, Over, Storing
<1> QED
  BY <1>1, CauseStep

\* The local user decides, time passes and the sweep closes what has expired.
LEMMA TimeCause ==
    ASSUME Inv, Inv', StepOK, CauseInv,
           \/ \E a \in ApprovalIds : \/ \E status \in Allowed : Allow(a, status)
                                     \/ Deny(a) \/ DecideLate(a)
           \/ \E e \in ExecutionIds : Reconcile(e)
           \/ Tick \/ ExpireSweep
    PROVE  CauseInv'
<1> USE DEF sessionVars, policyVars, historyVars
<1>1. approvals \in [ApprovalIds -> Row] /\ revision \in Nat /\ dropping \in SUBSET ApprovalIds
  BY DEF Inv, TypeOK
<1>2. UNCHANGED <<ops, active, home, calls>> /\ revision <= revision'
  <2>1. UNCHANGED <<ops, active, home, calls, revision>>
    BY DEF Allow, Deny, DecideLate, Reconcile, Tick, ExpireSweep
  <2> QED
    BY <1>1, <2>1
<1>3. ASSUME NEW a \in ApprovalIds, NEW status \in Allowed, Allow(a, status) PROVE CauseInv'
  <2>1. approvals[a] \in Row
    BY <1>1
  <2>2. /\ approvals'[a].status = status /\ approvals'[a].session = approvals[a].session
        /\ approvals'[a].revision = approvals[a].revision /\ approvals[a].status = "pending"
    BY <1>1, <1>3, <2>1 DEF Allow, Decidable, Row
  <2>3. \A b \in ApprovalIds \ {a} : approvals'[b] = approvals[b]
    BY <1>1, <1>3 DEF Allow
  <2>4. dropping' = dropping /\ status # "none" /\ "pending" \in Open
    BY <1>3 DEF Allow, Allowed, Open
  <2>5. RowsOnward
    BY <2>2, <2>3, <2>4 DEF RowsOnward
  <2> QED
    BY <1>2, <2>2, <2>3, <2>4, <2>5, RowsStep
<1>4. ASSUME NEW a \in ApprovalIds, Deny(a) \/ DecideLate(a) PROVE CauseInv'
  <2>1. PICK st \in {"denied", "expired"} : approvals' = [approvals EXCEPT ![a].status = st]
    BY <1>4 DEF Deny, DecideLate
  <2>2. PICK H : H = {a}
    OBVIOUS
  <2>3. approvals' = SetStatus(H, st) /\ st \in Closed /\ H \in SUBSET ApprovalIds
    BY <1>1, <2>1, <2>2 DEF SetStatus, Closed
  <2>4. \A b \in H : approvals[b].status \in Open
    BY <1>4, <2>2 DEF Open, Deny, DecideLate, Decidable
  <2>5. dropping' \subseteq dropping \cup H
    BY <1>4, <2>2 DEF Deny, DecideLate
  <2> QED
    BY <1>2, <2>3, <2>4, <2>5, CloseRows, RowsStep
<1>5. ASSUME NEW e \in ExecutionIds, Reconcile(e) PROVE CauseInv'
  <2>1. approvals' = approvals /\ dropping' = dropping
    BY <1>5 DEF Reconcile
  <2> QED
    BY <1>2, <2>1, RowsStep DEF RowsOnward
<1>6. ASSUME Tick PROVE CauseInv'
  <2>1. ASSUME NEW a \in ApprovalIds
        PROVE  /\ approvals'[a].status = approvals[a].status
               /\ approvals'[a].session = approvals[a].session
               /\ approvals'[a].revision = approvals[a].revision
    <3>1. approvals[a] \in Row
      BY <1>1
    <3>2. approvals'[a] = IF approvals[a].status \in Open /\ approvals[a].left >= 0
                          THEN [approvals[a] EXCEPT !.left = approvals[a].left - 1]
                          ELSE approvals[a]
      BY <1>6 DEF Tick
    <3> QED
      BY <3>1, <3>2 DEF Row
  <2>2. dropping' = dropping
    BY <1>6 DEF Tick
  <2>3. RowsOnward
    BY <2>1 DEF RowsOnward
  <2> QED
    BY <1>2, <2>1, <2>2, <2>3, RowsStep
<1>7. ASSUME ExpireSweep PROVE CauseInv'
  <2>1. PICK H : H = {a \in ApprovalIds : /\ approvals[a].status \in {"pending", "allowed_once"}
                                          /\ approvals[a].left < 0}
    OBVIOUS
  <2>2. H \in SUBSET ApprovalIds /\ "expired" \in Closed
        /\ \A a \in H : approvals[a].status \in Open
    BY <2>1 DEF Open, Allowed, Closed
  <2>3. approvals' = SetStatus(H, "expired") /\ dropping' = dropping \cup H
    BY <1>7, <2>1 DEF ExpireSweep
  <2> QED
    BY <1>2, <2>2, <2>3, CloseRows, RowsStep
<1> QED
  BY <1>3, <1>4, <1>5, <1>6, <1>7

\* The transaction of invalidate, complete or cut short by a failing statement.
LEMMA InvalidatedRows ==
    ASSUME Inv, NEW p, InvalidateRows(p) \/ (PartlyInvalidate(p) /\ dropping' = dropping)
    PROVE  \E H \in SUBSET ApprovalIds :
              /\ \A a \in H : Matches(p, a)
              /\ approvals' = SetStatus(H, "invalidated")
              /\ dropping' \subseteq dropping \cup H
<1>1. CASE InvalidateRows(p)
  <2>1. PICK H : H = {a \in ApprovalIds : Matches(p, a)}
    OBVIOUS
  <2> QED
    BY <1>1, <2>1 DEF InvalidateRows
<1>2. CASE PartlyInvalidate(p) /\ dropping' = dropping
  <2>1. PICK hit \in SUBSET {a \in ApprovalIds : Matches(p, a)} :
           approvals' = SetStatus(hit, "invalidated")
    BY <1>2 DEF PartlyInvalidate
  <2> QED
    BY <1>2, <2>1
<1> QED
  BY <1>1, <1>2

LEMMA InvalidateCause ==
    ASSUME Inv, Inv', StepOK, CauseInv,
           (\E p \in purges : Invalidate(p)) \/ InvalidateForPolicy \/ FailedInvalidation
    PROVE  CauseInv'
<1>1. PICK p : InvalidateRows(p) \/ (PartlyInvalidate(p) /\ dropping' = dropping)
  BY DEF Invalidate, InvalidateForPolicy, FailedInvalidation
<1>2. UNCHANGED <<ops, active, home, calls, revision>> /\ revision \in Nat
  BY DEF Invalidate, InvalidateForPolicy, FailedInvalidation, sessionVars, policyVars, Inv, TypeOK
<1>3. PICK H \in SUBSET ApprovalIds :
         /\ \A a \in H : Matches(p, a)
         /\ approvals' = SetStatus(H, "invalidated")
         /\ dropping' \subseteq dropping \cup H
  BY <1>1, InvalidatedRows
<1>4. "invalidated" \in Closed /\ \A a \in H : approvals[a].status \in Open
  BY <1>3 DEF Matches, Closed
<1>5. revision <= revision'
  BY <1>2
<1> QED
  BY <1>2, <1>3, <1>4, <1>5, CloseRows, RowsStep

\* invalidate on behalf of a call that found its session expired: the call goes
\* on with the approval it names.
LEMMA FlushCause ==
    ASSUME Inv, Inv', StepOK, CauseInv, NEW k \in Calls, FlushExpired(k) \/ FailedFlush(k)
    PROVE  CauseInv'
<1> DEFINE p == [client |-> NoFilter, session |-> calls[k].owed]
           x == [calls[k] EXCEPT !.pc = FirstStep(calls[k].approval), !.owed = None]
<1>1. /\ InvalidateRows(p) \/ (PartlyInvalidate(p) /\ dropping' = dropping)
      /\ UNCHANGED <<ops, active, home, revision>> /\ calls[k].pc = "flush"
      /\ calls' = [calls EXCEPT ![k] = x]
  BY DEF FlushExpired, FailedFlush, sessionVars, policyVars
<1>2. PICK c \in Call : c = calls[k] /\ CallOK(c) /\ CauseOK(c)
  BY DEF Inv, TypeOK, CauseInv
<1>3. /\ x.pc = FirstStep(calls[k].approval) /\ x.cred = calls[k].cred
      /\ x.session = calls[k].session /\ x.approval = calls[k].approval
  BY <1>2 DEF Call
<1>4. PICK r : /\ calls' = [calls EXCEPT ![k] = r] /\ r.pc = FirstStep(c.approval)
               /\ r.cred = c.cred /\ r.session = c.session /\ r.approval = c.approval
  BY <1>1, <1>2, <1>3
<1>5. PICK H \in SUBSET ApprovalIds :
         /\ \A a \in H : Matches(p, a)
         /\ approvals' = SetStatus(H, "invalidated")
         /\ dropping' \subseteq dropping \cup H
  BY <1>1, InvalidatedRows
<1>6. "invalidated" \in Closed /\ \A a \in H : approvals[a].status \in Open
  BY <1>5 DEF Matches, Closed
<1> HIDE DEF p, x
<1>7. /\ RowsOnward
      /\ \A a \in ApprovalIds : approvals'[a].status # "none" => approvals[a].status # "none"
      /\ \A a \in H : approvals'[a].status \in Closed
  BY <1>5, <1>6, CloseRows
<1>8. calls \in [Calls -> Call] /\ revision \in Nat /\ r.pc # "store" /\ calls[k].pc # "store"
  BY <1>1, <1>4 DEF Inv, TypeOK, FirstStep
<1>9. /\ calls'[k] = r /\ StoringOnward
      /\ \A j \in Calls \ {k} : calls'[j] = calls[j]
      /\ \A a \in ApprovalIds : Storing(a)' <=> Storing(a)
  BY <1>4, <1>8, MoveStoring
<1>10. Onward
  BY <1>1, <1>7, <1>8, <1>9 DEF Onward, SessionsOnward, Over
<1>11. CauseOK(c)' /\ c.pc \in Naming
  BY <1>1, <1>2, <1>10, CauseStays DEF Naming
<1>12. CauseOK(r)'
  BY <1>4, <1>11 DEF CauseOK, FirstStep, Naming
<1>13. CauseOK(calls[k])'
  BY <1>9, <1>12 DEF CauseOK
<1> QED
  BY <1>1, <1>5, <1>7, <1>9, <1>10, <1>13, CauseStep

\* begin_resume closes a row, or dispatches it.
LEMMA ResumeCause ==
    ASSUME Inv, Inv', StepOK, CauseInv, NEW k \in Calls,
           VoidResume(k) \/ \E e \in ExecutionIds : Dispatch(k, e)
    PROVE  CauseInv'
<1>1. PICK a \in ApprovalIds : a = calls[k].approval /\ approvals[a].status \in Open
  BY DEF VoidResume, Dispatch, Resumable, Inv, CallOK, CallNamesRow, Open
<1>2. /\ approvals \in [ApprovalIds -> Row] /\ approvals[a] \in Row /\ revision \in Nat
      /\ calls \in [Calls -> Call]
  BY DEF Inv, TypeOK
<1>3. /\ UNCHANGED <<ops, active, home, revision, dropping>> /\ calls[k].pc # "store"
  BY DEF VoidResume, Dispatch, sessionVars, policyVars
<1>4. /\ \A b \in ApprovalIds \ {a} : approvals'[b] = approvals[b]
      /\ approvals'[a].session = approvals[a].session
      /\ approvals'[a].revision = approvals[a].revision
      /\ approvals'[a].status # "none"
  <2>1. CASE VoidResume(k)
    <3>1. PICK st : st = Verdict(k) /\ st # "none"
      <4>1. Verdict(k) # "none"
        BY DEF Verdict
      <4> QED
        BY <4>1
    <3>2. approvals' = [approvals EXCEPT ![a].status = st]
      BY <1>1, <2>1, <3>1 DEF VoidResume
    <3> QED
      BY <1>2, <3>1, <3>2 DEF Row
  <2>2. ASSUME NEW e \in ExecutionIds, Dispatch(k, e)
        PROVE  /\ \A b \in ApprovalIds \ {a} : approvals'[b] = approvals[b]
               /\ approvals'[a].session = approvals[a].session
               /\ approvals'[a].revision = approvals[a].revision
               /\ approvals'[a].status # "none"
    <3> DEFINE st == IF approvals[a].status = "allowed_once" THEN "consumed"
                     ELSE approvals[a].status
    <3>1. approvals' = [approvals EXCEPT ![a].execution = e, ![a].status = st]
      BY <1>1, <1>2, <2>2 DEF Dispatch
    <3>2. st # "none"
      BY <1>1 DEF Open, Allowed
    <3> HIDE DEF st
    <3> QED
      BY <1>2, <3>1, <3>2 DEF Row
  <2> QED
    BY <2>1, <2>2
<1>5. PICK r : calls' = [calls EXCEPT ![k] = r] /\ r.pc \in {"idle", "forget"}
  <2>1. CASE VoidResume(k)
    <3>1. calls' = [calls EXCEPT ![k] = Idle] /\ Idle.pc = "idle"
      BY <2>1 DEF VoidResume, Idle
    <3> QED
      BY <3>1
  <2>2. ASSUME NEW e \in ExecutionIds, Dispatch(k, e)
        PROVE  \E r : calls' = [calls EXCEPT ![k] = r] /\ r.pc \in {"idle", "forget"}
    <3> DEFINE r == [Idle EXCEPT !.pc = "forget", !.approval = a, !.execution = e]
    <3>1. calls' = [calls EXCEPT ![k] = r] /\ r.pc = "forget"
      BY <1>1, <2>2 DEF Dispatch, Idle
    <3> HIDE DEF r
    <3> QED
      BY <3>1
  <2> QED
    BY <2>1, <2>2
<1>6. /\ calls'[k] = r /\ StoringOnward
      /\ \A j \in Calls \ {k} : calls'[j] = calls[j]
      /\ \A b \in ApprovalIds : Storing(b)' <=> Storing(b)
  BY <1>2, <1>3, <1>5, MoveStoring
<1>7. "none" \notin Open
  BY DEF Open, Allowed
<1>8. Onward
  BY <1>1, <1>2, <1>3, <1>4, <1>6, <1>7 DEF Onward, RowsOnward, SessionsOnward, Over
<1>9. CauseOK(calls[k])'
  BY <1>5, <1>6 DEF CauseOK, Naming
<1> QED
  BY <1>1, <1>3, <1>4, <1>6, <1>7, <1>8, <1>9, CauseStep

\* create inserts the row; the call that did so will store the snapshot.
LEMMA CreateCause ==
    ASSUME Inv, Inv', StepOK, CauseInv, NEW k \in Calls, NEW a \in ApprovalIds, CreateRow(k, a)
    PROVE  CauseInv'
<1>1. /\ approvals \in [ApprovalIds -> Row] /\ calls \in [Calls -> Call]
      /\ revision \in Nat /\ CauseOK(calls[k]) /\ SnapshotOK(a)
  BY DEF Inv, TypeOK, CauseInv
<1>2. /\ calls[k].pc = "insert" /\ approvals[a].status = "none"
      /\ UNCHANGED <<ops, active, home, revision, dropping>>
  BY DEF CreateRow, sessionVars, policyVars
<1>3. /\ approvals'[a].status = "pending" /\ approvals'[a].revision = calls[k].revision
      /\ \A b \in ApprovalIds \ {a} : approvals'[b] = approvals[b]
  BY <1>1 DEF CreateRow, NoApproval
<1>4. /\ calls'[k].pc = "store" /\ calls'[k].approval = a
      /\ \A j \in Calls \ {k} : calls'[j] = calls[j]
  BY <1>1 DEF CreateRow, Idle
<1>5. Storing(a)' /\ \A b \in ApprovalIds \ {a} : Storing(b)' <=> Storing(b)
  BY <1>2, <1>4 DEF Storing
<1>6. Onward
  BY <1>1, <1>2, <1>3, <1>5 DEF Onward, RowsOnward, SessionsOnward, StoringOnward, Over
<1>7. ASSUME NEW j \in Calls PROVE CauseOK(calls[j])'
  <2>1. CASE j = k
    BY <1>4, <2>1 DEF CauseOK, Naming
  <2>2. CASE j # k
    <3>1. PICK c \in Call : c = calls[j] /\ CallOK(c) /\ CauseOK(c)
      BY DEF Inv, TypeOK, CauseInv
    <3>2. CauseOK(c)' /\ c = calls'[j]
      BY <1>4, <1>6, <2>2, <3>1, CauseStays
    <3> QED
      BY <3>2 DEF CauseOK
  <2> QED
    BY <2>1, <2>2
<1>8. ASSUME NEW b \in ApprovalIds PROVE SnapshotOK(b)'
  <2>1. CASE b = a
    <3>1. a \notin dropping
      BY <1>1, <1>2 DEF SnapshotOK, Closed
    <3>2. calls[k].revision <= revision
      BY <1>1, <1>2 DEF CauseOK
    <3> QED
      BY <1>2, <1>3, <1>5, <2>1, <3>1, <3>2 DEF SnapshotOK
  <2>2. CASE b # a
    <3>1. SnapshotOK(b)
      BY DEF CauseInv
    <3> QED
      BY <1>2, <1>3, <1>5, <2>2, <3>1 DEF SnapshotOK
  <2> QED
    BY <2>1, <2>2
<1> QED
  BY <1>7, <1>8 DEF CauseInv

-----------------------------------------------------------------------------
(* Revocation, settings and restarts.                                      *)

\* Sessions end and settings change; snapshots of closed rows are removed.
LEMMA RevocationCause ==
    ASSUME Inv, Inv', StepOK, CauseInv,
           Revocation \/ UpdateSettings \/ \E a \in ApprovalIds : DropSnapshot(a)
    PROVE  CauseInv'
<1>1. revision \in Nat /\ active \in [Credentials -> SessionIds \cup {None}]
      /\ None \notin SessionIds
  BY NoneIsNoId DEF Inv, TypeOK
<1>2. ASSUME Revocation PROVE CauseInv'
  <2>1. PICK crs, owed : EndSessions(crs, owed)
    BY <1>2 DEF Revocation, EndSession, EndCredential, RevokeCredential, RemoveClient,
                InvalidateAll
  <2>2. /\ UNCHANGED <<approvals, ops, home, revision, dropping, calls>>
        /\ \A cr \in Credentials : active'[cr] \in {active[cr], None}
    BY <2>1 DEF EndSessions, policyVars
  <2>3. \A s \in SessionIds : Over(s) => Over(s)'
    BY <1>1, <2>2 DEF Over
  <2>4. Onward /\ \A a \in ApprovalIds : Storing(a)' <=> Storing(a)
    BY <1>1, <2>2, <2>3 DEF Onward, RowsOnward, SessionsOnward, StoringOnward, Storing
  <2> QED
    BY <2>2, <2>4, CauseStep
<1>3. ASSUME UpdateSettings PROVE CauseInv'
  <2>1. UNCHANGED <<approvals, ops, active, home, dropping, calls>> /\ revision' = revision + 1
    BY <1>3 DEF UpdateSettings, sessionVars
  <2>2. revision <= revision'
    BY <1>1, <2>1
  <2> QED
    BY <2>1, <2>2, RowsStep DEF RowsOnward
<1>4. ASSUME NEW a \in ApprovalIds, DropSnapshot(a) PROVE CauseInv'
  <2>1. /\ UNCHANGED <<approvals, active, home, revision, calls>>
        /\ ops' = ops \ {a} /\ dropping' = dropping \ {a} /\ a \in dropping
    BY <1>4 DEF DropSnapshot, sessionVars, policyVars
  <2>2. approvals[a].status \notin Open
    BY <2>1 DEF CauseInv, SnapshotOK, Open, Closed, Allowed
  <2>3. Onward /\ \A b \in ApprovalIds : Storing(b)' <=> Storing(b)
    BY <1>1, <2>1 DEF Onward, RowsOnward, SessionsOnward, StoringOnward, Storing, Over
  <2> QED
    BY <2>1, <2>2, <2>3, CauseStep
<1> QED
  BY <1>2, <1>3, <1>4

\* startup_recovery leaves no open row and no call behind.
LEMMA RestartCause ==
    ASSUME Inv, Inv', StepOK, CauseInv, Restart
    PROVE  CauseInv'
<1>1. PICK H : H = {a \in ApprovalIds : approvals[a].status \in Open}
  OBVIOUS
<1>2. /\ H \in SUBSET ApprovalIds /\ "invalidated" \in Closed
      /\ approvals' = SetStatus(H, "invalidated")
  BY <1>1 DEF Restart, Closed
<1>3. /\ RowsOnward
      /\ \A a \in ApprovalIds : approvals'[a].status # "none" => approvals[a].status # "none"
      /\ \A a \in H : approvals'[a].status \in Closed
      /\ \A a \in ApprovalIds \ H : approvals'[a].status = approvals[a].status
  BY <1>1, <1>2, CloseRows
<1>4. \A a \in ApprovalIds : approvals'[a].status \notin Open
  BY <1>1, <1>3 DEF Open, Closed, Allowed
<1>5. /\ \A k \in Calls : calls'[k] = Idle
      /\ dropping' = {} /\ home' = home /\ revision' = revision /\ revision \in Nat
      /\ \A cr \in Credentials : active'[cr] = None
  BY DEF Restart, Inv, TypeOK
<1>6. Idle.pc = "idle"
  BY DEF Idle
<1>7. \A a \in ApprovalIds : ~Storing(a)'
  BY <1>5, <1>6 DEF Storing
<1>8. Onward
  BY <1>3, <1>5, <1>7, NoneIsNoId DEF Onward, SessionsOnward, StoringOnward, Over
<1>9. \A k \in Calls : CauseOK(calls[k])'
  BY <1>5, <1>6 DEF CauseOK, Naming
<1> QED
  BY <1>3, <1>4, <1>5, <1>8, <1>9, CauseStep

LEMMA InitCause == Init => CauseInv
<1> SUFFICES ASSUME Init PROVE CauseInv
  OBVIOUS
<1>1. \A k \in Calls : calls[k].pc = "idle"
  BY DEF Init, Idle
<1>2. \A a \in ApprovalIds : approvals[a].status = "none" /\ a \notin dropping
  BY DEF Init, NoApproval
<1> QED
  BY <1>1, <1>2 DEF CauseInv, CauseOK, SnapshotOK, Naming, Open, Allowed

\* Every step keeps the causes.
LEMMA NextCause == Inv /\ Inv' /\ CauseInv /\ [Next]_vars => CauseInv'
<1> SUFFICES ASSUME Inv, Inv', CauseInv, [Next]_vars PROVE CauseInv'
  OBVIOUS
<1>1. StepOK
  BY NextStepOK
<1>2. ASSUME NEW k \in Calls, Admission(k) PROVE CauseInv'
  BY <1>1, <1>2, JoinCause, OpenCause DEF Admission
<1>3. ASSUME NEW k \in Calls, Progress(k) PROVE CauseInv'
  <2>1. CASE FlushExpired(k)
    BY <1>1, <2>1, FlushCause
  <2>2. CASE RequestApproval(k) \/ ReadContext(k)
    BY <1>1, <2>2, ReadCause
  <2>3. CASE StoreSnapshot(k)
    BY <1>1, <2>3, StoreCause
  <2>4. CASE \/ RefuseResume(k) \/ RefuseScope(k) \/ ForgetSnapshot(k) \/ AbandonOperation(k)
             \/ CompleteExecution(k)
             \/ \E outcome \in {"completed", "failed"} : RunOperation(k, outcome)
    BY <1>1, <2>4, QuietMoves
  <2>5. CASE VoidResume(k) \/ \E e \in ExecutionIds : Dispatch(k, e)
    BY <1>1, <2>5, ResumeCause
  <2>6. CASE \E a \in ApprovalIds : CreateRow(k, a)
    BY <1>1, <2>6, CreateCause
  <2> QED
    BY <1>3, <2>1, <2>2, <2>3, <2>4, <2>5, <2>6 DEF Progress
<1>4. CASE \E k \in Calls : FailedAccess(k)
  BY <1>1, <1>4, QuietMoves
<1>5. CASE \E k \in Calls : FailedFlush(k)
  BY <1>1, <1>5, FlushCause
<1>6. CASE LocalUser \/ Tick \/ ExpireSweep
  BY <1>1, <1>6, TimeCause DEF LocalUser
<1>7. CASE Revocation \/ UpdateSettings \/ \E a \in ApprovalIds : DropSnapshot(a)
  BY <1>1, <1>7, RevocationCause
<1>8. CASE (\E p \in purges : Invalidate(p)) \/ InvalidateForPolicy \/ FailedInvalidation
  BY <1>1, <1>8, InvalidateCause
<1>9. CASE Restart
  BY <1>1, <1>9, RestartCause
<1>10. CASE UNCHANGED vars
  BY <1>10 DEF vars, CauseInv, CauseOK, SnapshotOK, Over, Storing
<1> QED
  BY <1>2, <1>3, <1>4, <1>5, <1>6, <1>7, <1>8, <1>9, <1>10 DEF Next

\* What calls have learnt and where snapshots are, in every reachable state.
THEOREM CauseInvariance == Spec => []CauseInv
  BY InitCause, NextCause, Invariance, PTL DEF Spec

\* Every client has at most one credential.
OneCredential == \A c, d \in Credentials : ClientOf[c] = ClientOf[d] => c = d

\* What begin_resume voids has a cause: its session is over, or it is older
\* than the policy.  A snapshot is never missing.
LEMMA ResumeHasCause ==
    ASSUME Inv, CauseInv, OneCredential, NEW k \in Calls, VoidResume(k),
           NEW a \in ApprovalIds, approvals[a].status \in Open,
           approvals'[a].status = "invalidated"
    PROVE  \/ \A cr \in Credentials : active'[cr] # approvals[a].session
           \/ approvals[a].revision # revision
<1>1. PICK c \in Call : c = calls[k] /\ CallOK(c) /\ CauseOK(c)
  BY DEF Inv, TypeOK, CauseInv
<1>2. c.pc = "begin" /\ c.approval \in ApprovalIds
  BY <1>1 DEF VoidResume, CallOK, CallNamesRow
<1>3. approvals \in [ApprovalIds -> Row] /\ approvals[a] \in Row /\ revision \in Nat
      /\ c.revision \in Nat /\ approvals[a].revision \in Nat
  BY <1>1 DEF Inv, TypeOK, Row, Call
<1>4. c.approval = a /\ Verdict(k) = "invalidated"
  <2>1. approvals' = [approvals EXCEPT ![c.approval].status = Verdict(k)]
    BY <1>1 DEF VoidResume
  <2>2. c.approval = a
    BY <1>3, <2>1 DEF Open, Allowed
  <2> QED
    BY <1>3, <2>1, <2>2 DEF Row
<1>5. \/ approvals[a].session # c.session
      \/ approvals[a].revision # c.revision
      \/ ~c.snapshot
  BY <1>1, <1>4 DEF Verdict
<1>6. CASE approvals[a].session # c.session
  <2>1. approvals[a].client = ClientOf[c.cred]
    BY <1>1, <1>4 DEF VoidResume, Resumable
  <2>2. /\ approvals[a].session \in SessionIds /\ home[approvals[a].session] # None
        /\ approvals[a].client = ClientOf[home[approvals[a].session]]
    BY DEF Inv, RowHome, Open, Allowed
  <2>3. home[approvals[a].session] \in Credentials /\ c.cred \in Credentials
    BY <1>1, <1>2, <2>2 DEF Inv, TypeOK, CallOK, CallAdmitted, Admitted
  <2>4. home[approvals[a].session] = c.cred
    BY <2>1, <2>2, <2>3 DEF OneCredential
  <2>5. Over(approvals[a].session)
    BY <1>1, <1>2, <1>4, <1>6, <2>4, NoneIsNoId DEF CauseOK, Naming
  <2>6. active' = active
    BY DEF VoidResume, sessionVars
  <2> QED
    BY <2>5, <2>6 DEF Over
<1>7. CASE approvals[a].revision # c.revision
  BY <1>1, <1>2, <1>3, <1>4, <1>7 DEF CauseOK
<1>8. CASE ~c.snapshot
  BY <1>1, <1>2, <1>4, <1>8 DEF CauseOK
<1> QED
  BY <1>5, <1>6, <1>7, <1>8

\* The other steps that void an open approval are invalidate and recovery.
LEMMA VoidingSteps ==
    ASSUME Inv, [Next]_vars, NEW a \in ApprovalIds, approvals[a].status \in Open,
           approvals'[a].status = "invalidated"
    PROVE  \/ \E k \in Calls : VoidResume(k)
           \/ \E k \in Calls : /\ calls[k].pc = "flush" /\ active' = active
                               /\ Matches([client |-> NoFilter, session |-> calls[k].owed], a)
           \/ \E p \in purges : Matches(p, a)
           \/ settings = "invalidate"
           \/ Restart
<1> USE DEF sessionVars, policyVars, historyVars
<1>1. /\ approvals \in [ApprovalIds -> Row] /\ approvals[a] \in Row
      /\ approvals[a].status # "invalidated"
  BY DEF Inv, TypeOK, Open, Allowed
<1>2. ASSUME NEW p, NEW H \in SUBSET ApprovalIds, NEW st, \A b \in H : Matches(p, b),
             approvals' = SetStatus(H, st)
      PROVE  Matches(p, a)
  <2>1. a \notin H => approvals'[a] = approvals[a]
    BY <1>2 DEF SetStatus
  <2> QED
    BY <1>1, <1>2, <2>1
<1>3. ASSUME NEW p, InvalidateRows(p) \/ (PartlyInvalidate(p) /\ dropping' = dropping)
      PROVE  Matches(p, a)
  BY <1>2, <1>3, InvalidatedRows
<1>4. ASSUME UNCHANGED approvals PROVE FALSE
  BY <1>1, <1>4
<1>5. ASSUME NEW st, st # "invalidated", NEW H, approvals' = SetStatus(H, st) PROVE FALSE
  <2>1. approvals'[a] = IF a \in H THEN [approvals[a] EXCEPT !.status = st] ELSE approvals[a]
    BY <1>5 DEF SetStatus
  <2> QED
    BY <1>1, <1>5, <2>1 DEF Row
<1>6. CASE \E k \in Calls : FlushExpired(k) \/ FailedFlush(k)
  BY <1>3, <1>6 DEF FlushExpired, FailedFlush
<1>7. CASE (\E p \in purges : Invalidate(p)) \/ InvalidateForPolicy \/ FailedInvalidation
  BY <1>3, <1>7 DEF Invalidate, InvalidateForPolicy, FailedInvalidation
<1>8. ASSUME NEW k \in Calls, NEW b \in ApprovalIds, CreateRow(k, b) PROVE FALSE
  BY <1>1, <1>8 DEF CreateRow, NoApproval
<1>9. ASSUME NEW k \in Calls, NEW e \in ExecutionIds, Dispatch(k, e) PROVE FALSE
  <2>1. PICK b \in ApprovalIds : b = calls[k].approval
    BY <1>9 DEF Dispatch, Inv, CallOK, CallNamesRow
  <2> DEFINE st == IF approvals[b].status = "allowed_once" THEN "consumed"
                   ELSE approvals[b].status
  <2>2. approvals' = [approvals EXCEPT ![b].execution = e, ![b].status = st]
    BY <1>1, <1>9, <2>1 DEF Dispatch
  <2>3. b = a => st # "invalidated"
    BY <1>1
  <2> HIDE DEF st
  <2>4. CASE b = a
    BY <1>1, <2>2, <2>3, <2>4 DEF Row
  <2>5. CASE b # a
    BY <1>1, <2>2, <2>5
  <2> QED
    BY <2>4, <2>5
<1>10. ASSUME NEW b \in ApprovalIds,
              \/ \E status \in Allowed : Allow(b, status)
              \/ Deny(b) \/ DecideLate(b)
       PROVE  FALSE
  <2>1. CASE Deny(b) \/ DecideLate(b)
    BY <1>1, <2>1 DEF Deny, DecideLate, Row
  <2>2. ASSUME NEW status \in Allowed, Allow(b, status) PROVE FALSE
    BY <1>1, <2>2 DEF Allow, Allowed, Row
  <2> QED
    BY <1>10, <2>1, <2>2
<1>11. ASSUME Tick PROVE FALSE
  <2>1. approvals'[a] = IF approvals[a].status \in Open /\ approvals[a].left >= 0
                        THEN [approvals[a] EXCEPT !.left = approvals[a].left - 1]
                        ELSE approvals[a]
    BY <1>11 DEF Tick
  <2> QED
    BY <1>1, <2>1 DEF Row
<1>12. ASSUME ExpireSweep PROVE FALSE
  BY <1>5, <1>12 DEF ExpireSweep
<1>13. ASSUME NEW k \in Calls, Admission(k) \/ FailedAccess(k) PROVE FALSE
  BY <1>4, <1>13 DEF Admission, JoinSession, OpenSession, FailedAccess
<1>14. ASSUME NEW k \in Calls,
              \/ RequestApproval(k) \/ StoreSnapshot(k) \/ ReadContext(k) \/ RefuseResume(k)
              \/ RefuseScope(k) \/ ForgetSnapshot(k) \/ AbandonOperation(k)
              \/ CompleteExecution(k)
              \/ \E outcome \in {"completed", "failed"} : RunOperation(k, outcome)
       PROVE  FALSE
  BY <1>4, <1>14 DEF RequestApproval, StoreSnapshot, ReadContext, RefuseResume, RefuseScope,
                     ForgetSnapshot, AbandonOperation, CompleteExecution, RunOperation
<1>15. ASSUME \/ Revocation \/ UpdateSettings
              \/ \E b \in ApprovalIds : DropSnapshot(b)
              \/ \E e \in ExecutionIds : Reconcile(e)
       PROVE  FALSE
  BY <1>4, <1>15 DEF Revocation, EndSession, EndCredential, RevokeCredential, RemoveClient,
                     InvalidateAll, EndSessions, UpdateSettings, DropSnapshot, Reconcile
<1>16. ASSUME UNCHANGED vars PROVE FALSE
  BY <1>4, <1>16 DEF vars
<1> QED
  BY <1>6, <1>7, <1>8, <1>9, <1>10, <1>11, <1>12, <1>13, <1>14, <1>15, <1>16
     DEF Next, Progress, LocalUser

\* With one credential per client, no resume, expiry, revocation, settings
\* change or failure voids an open approval that had no cause of its own; in
\* particular not a resume that was admitted long ago, that comes from another
\* client, or that read the settings and the snapshots before its transaction.
THEOREM VoidingHasCause == ASSUME OneCredential PROVE Spec => VoidedOnlyForCause
<1> DEFINE Caused(a) ==
      (approvals[a].status \in Open /\ approvals'[a].status = "invalidated") =>
         \/ \A cr \in Credentials : active'[cr] # approvals[a].session
         \/ approvals[a].revision # revision \/ settings = "invalidate"
         \/ \E p \in purges : p.client \in {NoFilter, approvals[a].client}
<1>1. ASSUME Inv, CauseInv, [Next]_vars, NEW a \in ApprovalIds PROVE Caused(a)
  <2> SUFFICES ASSUME approvals[a].status \in Open, approvals'[a].status = "invalidated"
               PROVE  \/ \A cr \in Credentials : active'[cr] # approvals[a].session
                      \/ approvals[a].revision # revision \/ settings = "invalidate"
                      \/ \E p \in purges : p.client \in {NoFilter, approvals[a].client}
    OBVIOUS
  <2>1. ASSUME NEW k \in Calls, VoidResume(k)
        PROVE  \/ \A cr \in Credentials : active'[cr] # approvals[a].session
               \/ approvals[a].revision # revision
    BY <1>1, <2>1, ResumeHasCause
  <2>2. ASSUME NEW k \in Calls, calls[k].pc = "flush", active' = active,
               Matches([client |-> NoFilter, session |-> calls[k].owed], a)
        PROVE  \A cr \in Credentials : active'[cr] # approvals[a].session
    <3>1. calls[k].owed \in SessionIds /\ Over(calls[k].owed)
      BY <1>1, <2>2 DEF CauseInv, CauseOK
    <3>2. approvals[a].session = calls[k].owed
      BY <2>2, <3>1, NoFilterIsNoId DEF Matches
    <3> QED
      BY <2>2, <3>1, <3>2 DEF Over
  <2>3. ASSUME NEW p \in purges, Matches(p, a)
        PROVE  p.client \in {NoFilter, approvals[a].client}
    BY <2>3 DEF Matches
  <2>4. ASSUME Restart PROVE \A cr \in Credentials : active'[cr] # approvals[a].session
    <3>1. approvals[a].session \in SessionIds
      BY <1>1 DEF Inv, RowHome, Open, Allowed
    <3> QED
      BY <2>4, <3>1, NoneIsNoId DEF Restart
  <2> QED
    BY <1>1, <2>1, <2>2, <2>3, <2>4, VoidingSteps
<1>2. Inv /\ CauseInv /\ [Next]_vars => [\A a \in ApprovalIds : Caused(a)]_vars
  BY <1>1
<1> QED
  BY <1>2, Invariance, CauseInvariance, PTL DEF Spec, VoidedOnlyForCause
=============================================================================
