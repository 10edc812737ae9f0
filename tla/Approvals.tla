------------------------------ MODULE Approvals ------------------------------
(***************************************************************************)
(* The approval engine of workstation-server (approvals.rs) with the       *)
(* operations of the service that drive it: requesting an approval from a  *)
(* tool call (tools/mod.rs authorize, lib.rs request_approval), the local  *)
(* decision (lib.rs decide_approval), approval_resume (tools/approval.rs), *)
(* and everything that revokes: session end and expiry, removal of a       *)
(* client, Emergency Stop, pause and MCP restart, policy changes and a     *)
(* restart of the process.                                                 *)
(*                                                                         *)
(* The control database serialises its writers (Db::write_sync), so one    *)
(* transaction is one action.  The snapshot map, the session map and the   *)
(* settings have locks of their own, so an operation that touches two of   *)
(* them is two actions and every other operation may run in between.       *)
(*                                                                         *)
(* Time is kept per approval as the ticks left before its expires_at is in *)
(* the past (-1 once it is), so there is no clock to bound.                *)
(***************************************************************************)
EXTENDS Integers, FiniteSets

CONSTANTS
    Clients,        \* client_id of the authenticated agents
    Credentials,    \* credential grants; one application session each
    ClientOf,       \* the client a credential belongs to
    SessionIds,     \* pool of session ids, each used at most once
    ApprovalIds,    \* pool of approval ids
    ExecutionIds,   \* pool of execution ids
    Calls,          \* tool calls that may be in flight at the same time
    Lifetime,       \* pending_approval_minutes, in ticks
    MaxRevision,    \* bound on the policy revision
    MaxPurges,      \* bound on invalidations in progress at the same time
    StorageFails,   \* whether accesses to the control database may fail
    None,           \* an absent value
    NoFilter        \* an absent filter argument of invalidate

ASSUME ClientOfType == ClientOf \in [Credentials -> Clients]
ASSUME BoundsType == Lifetime \in Nat /\ MaxRevision \in Nat /\ MaxPurges \in Nat
ASSUME NoneIsNoId ==
    None \notin SessionIds \cup ApprovalIds \cup ExecutionIds \cup Credentials \cup Clients
ASSUME NoFilterIsNoId == NoFilter \notin SessionIds \cup Clients

VARIABLES
    approvals,   \* table approvals of the control database
    executions,  \* table operation_executions
    ops,         \* ids whose PendingOperation snapshot is in memory
    active,      \* SessionService.active: credential -> session id
    home,        \* session id -> the credential it was opened for
    revision,    \* settings.policy_revision
    settings,    \* progress of update_settings
    purges,      \* calls of invalidate whose sessions have ended already
    dropping,    \* ids whose snapshot is about to be removed
    calls,       \* tool calls in flight
    ran,         \* history: runs of the approved operation
    consented,   \* history: approvals the local user allowed
    purged,      \* history: ended sessions whose invalidation has completed
    settled      \* history: last revision whose invalidation has completed

vars == <<approvals, executions, ops, active, home, revision, settings, purges,
          dropping, calls, ran, consented, purged, settled>>

sessionVars == <<active, home>>
policyVars  == <<revision, settings>>
historyVars == <<ran, consented, purged, settled>>

-----------------------------------------------------------------------------
(* Status values and the shape of the state.                               *)

Allowed == {"allowed_once", "allowed_session"}
Open    == {"pending"} \cup Allowed
Closed  == {"denied", "expired", "consumed", "invalidated"}

ExecutionStatus ==
    {"none", "dispatched", "completed", "failed", "outcome_unknown", "reconciled"}

NoApproval == [status |-> "none", client |-> None, session |-> None, revision |-> 0,
               left |-> 0, execution |-> None]

NoExecution == [status |-> "none", approval |-> None]

\* A call in flight: where it is, the credential and the session it was
\* admitted with, and what its handler has read so far.
Idle == [pc |-> "idle", cred |-> None, session |-> None, owed |-> None,
         approval |-> None, revision |-> 0, snapshot |-> FALSE, late |-> FALSE,
         execution |-> None, outcome |-> "none"]

\* The filter arguments of invalidate.  Its callers write "cancelled" or
\* "invalidated" as the new status; no code tells the two apart afterwards, so
\* the model has only the second.
Purge == [client : Clients \cup {NoFilter}, session : SessionIds \cup {NoFilter}]

Row ==
    [status : {"none"} \cup Open \cup Closed, client : Clients \cup {None},
     session : SessionIds \cup {None}, revision : Nat, left : -1..Lifetime,
     execution : ExecutionIds \cup {None}]

Call ==
    [pc : {"idle", "flush", "request", "insert", "store", "resume", "begin",
           "forget", "run", "complete"},
     cred : Credentials \cup {None}, session : SessionIds \cup {None},
     owed : SessionIds \cup {None}, approval : ApprovalIds \cup {None},
     revision : Nat, snapshot : BOOLEAN, late : BOOLEAN,
     execution : ExecutionIds \cup {None},
     outcome : {"none", "completed", "failed"}]

\* Approval ids a client has been told: create has stored the snapshot too.
Known == {a \in ApprovalIds :
            /\ approvals[a].status # "none"
            /\ \A k \in Calls : ~(calls[k].pc = "store" /\ calls[k].approval = a)}

\* Mutant: invalidate without the status filter.
MatchesAnyStatus(p, a) ==
    /\ approvals[a].status # "none"
    /\ p.client \in {NoFilter, approvals[a].client}
    /\ p.session \in {NoFilter, approvals[a].session}

\* The rows that invalidate(client_id, session_id, ..) selects.
Matches(p, a) ==
    /\ approvals[a].status \in Open
    /\ p.client \in {NoFilter, approvals[a].client}
    /\ p.session \in {NoFilter, approvals[a].session}

\* The ended sessions whose approvals such a call revokes.
Covered(p) ==
    {s \in SessionIds : /\ home[s] # None
                        /\ \A cr \in Credentials : active[cr] # s
                        /\ p.client \in {NoFilter, ClientOf[home[s]]}
                        /\ p.session \in {NoFilter, s}}

SetStatus(S, status) ==
    [a \in ApprovalIds |->
        IF a \in S THEN [approvals[a] EXCEPT !.status = status] ELSE approvals[a]]

-----------------------------------------------------------------------------
Init ==
    /\ approvals = [a \in ApprovalIds |-> NoApproval]
    /\ executions = [e \in ExecutionIds |-> NoExecution]
    /\ ops = {}
    /\ active = [cr \in Credentials |-> None]
    /\ home = [s \in SessionIds |-> None]
    /\ revision = 1
    /\ settings = "idle"
    /\ purges = {}
    /\ dropping = {}
    /\ calls = [k \in Calls |-> Idle]
    /\ ran = [a \in ApprovalIds |-> 0]
    /\ consented = {}
    /\ purged = {}
    /\ settled = 1

-----------------------------------------------------------------------------
(* Admission of a call (dispatch steps 1 to 3, session_for).  The handler   *)
(* either asks for an approval (target None) or is approval_resume for an   *)
(* id the client has been given before it made the call.                    *)

FirstStep(target) == IF target = None THEN "request" ELSE "resume"

\* The credential has an active session that has not expired.
JoinSession(k, cr, target) ==
    /\ calls[k].pc = "idle"
    /\ active[cr] # None
    /\ calls' = [calls EXCEPT ![k] =
                   [Idle EXCEPT !.pc = FirstStep(target), !.cred = cr,
                                !.session = active[cr], !.approval = target]]
    /\ UNCHANGED <<approvals, executions, ops, sessionVars, policyVars,
                   purges, dropping, historyVars>>

\* It has none, or one that resolve finds expired and replaces; the call then
\* owes the invalidation of the expired session (on_session_ended).
OpenSession(k, cr, s, target) ==
    /\ calls[k].pc = "idle"
    /\ home[s] = None
    /\ active' = [active EXCEPT ![cr] = s]
    /\ home' = [home EXCEPT ![s] = cr]
    /\ calls' = [calls EXCEPT ![k] =
                   [Idle EXCEPT
                      !.pc = IF active[cr] = None THEN FirstStep(target) ELSE "flush",
                      !.cred = cr, !.session = s, !.owed = active[cr],
                      !.approval = target]]
    /\ UNCHANGED <<approvals, executions, ops, policyVars, purges,
                   dropping, historyVars>>

\* Body of invalidate: one turn of the database's only writer; the snapshots are
\* removed after it.
InvalidateRows(p) ==
    LET hit == {a \in ApprovalIds : Matches(p, a)}
    IN  /\ approvals' = SetStatus(hit, "invalidated")
        /\ dropping' = dropping \cup hit
        /\ purged' = purged \cup Covered(p)

FlushExpired(k) ==
    LET p == [client |-> NoFilter, session |-> calls[k].owed]
    IN  /\ calls[k].pc = "flush"
        /\ InvalidateRows(p)
        /\ calls' = [calls EXCEPT ![k].pc = FirstStep(calls[k].approval),
                                  ![k].owed = None]
        /\ UNCHANGED <<executions, ops, sessionVars, policyVars, purges,
                       ran, consented, settled>>

-----------------------------------------------------------------------------
(* Requesting an approval: request_approval reads the settings, create      *)
(* inserts the row and then stores the snapshot.                            *)

RequestApproval(k) ==
    /\ calls[k].pc = "request"
    /\ calls' = [calls EXCEPT ![k].pc = "insert", ![k].revision = revision]
    /\ UNCHANGED <<approvals, executions, ops, sessionVars, policyVars,
                   purges, dropping, historyVars>>

\* Mutant: the expiry of a new request is one tick too late.
CreateRowLongLived(k, a) ==
    /\ calls[k].pc = "insert"
    /\ approvals[a].status = "none"
    /\ approvals' = [approvals EXCEPT ![a] =
                       [NoApproval EXCEPT !.status = "pending",
                                          !.client = ClientOf[calls[k].cred],
                                          !.session = calls[k].session,
                                          !.revision = calls[k].revision,
                                          !.left = Lifetime + 1]]
    /\ calls' = [calls EXCEPT ![k] = [Idle EXCEPT !.pc = "store", !.approval = a]]
    /\ UNCHANGED <<executions, ops, sessionVars, policyVars, purges, dropping,
                   historyVars>>

CreateRow(k, a) ==
    /\ calls[k].pc = "insert"
    /\ approvals[a].status = "none"
    /\ approvals' = [approvals EXCEPT ![a] =
                       [NoApproval EXCEPT !.status = "pending",
                                          !.client = ClientOf[calls[k].cred],
                                          !.session = calls[k].session,
                                          !.revision = calls[k].revision,
                                          !.left = Lifetime]]
    /\ calls' = [calls EXCEPT ![k] = [Idle EXCEPT !.pc = "store", !.approval = a]]
    /\ UNCHANGED <<executions, ops, sessionVars, policyVars, purges,
                   dropping, historyVars>>

StoreSnapshot(k) ==
    /\ calls[k].pc = "store"
    /\ ops' = ops \cup {calls[k].approval}
    /\ calls' = [calls EXCEPT ![k] = Idle]
    /\ UNCHANGED <<approvals, executions, sessionVars, policyVars, purges,
                   dropping, historyVars>>

-----------------------------------------------------------------------------
(* The local decision: one transaction, after which the snapshot of a       *)
(* denied request is removed.  What decide_approval does next for           *)
(* "allow for this session", the session grant, is in module Sessions.      *)

Decidable(a) == approvals[a].status = "pending"

Allow(a, status) ==
    /\ Decidable(a)
    /\ approvals[a].left >= 0
    /\ approvals' = [approvals EXCEPT ![a].status = status, ![a].left = Lifetime]
    /\ consented' = consented \cup {a}
    /\ UNCHANGED <<executions, ops, sessionVars, policyVars, purges, dropping, calls,
                   ran, purged, settled>>

Deny(a) ==
    /\ Decidable(a)
    /\ approvals[a].left >= 0
    /\ approvals' = [approvals EXCEPT ![a].status = "denied"]
    /\ dropping' = dropping \cup {a}
    /\ UNCHANGED <<executions, ops, sessionVars, policyVars, purges, calls,
                   historyVars>>

\* The decision comes too late: the request is marked expired.
DecideLate(a) ==
    /\ Decidable(a)
    /\ approvals[a].left < 0
    /\ approvals' = [approvals EXCEPT ![a].status = "expired"]
    /\ UNCHANGED <<executions, ops, sessionVars, policyVars, purges,
                   dropping, calls, historyVars>>

-----------------------------------------------------------------------------
(* approval_resume: the policy revision, the clock and the snapshot map are *)
(* read first, one right after the other; the transaction of begin_resume   *)
(* uses what was read.                                                      *)

ReadContext(k) ==
    /\ calls[k].pc = "resume"
    /\ calls' = [calls EXCEPT ![k].pc = "begin",
                              ![k].revision = revision,
                              ![k].snapshot = calls[k].approval \in ops,
                              ![k].late = approvals[calls[k].approval].left < 0]
    /\ UNCHANGED <<approvals, executions, ops, sessionVars, policyVars, purges,
                   dropping, historyVars>>

\* Mutants: the existing execution, the decision or the owner is not checked.
ResumableAgain(k) ==
    LET row == approvals[calls[k].approval]
    IN  row.client = ClientOf[calls[k].cred] /\ row.status \in Allowed

ResumableUndecided(k) ==
    LET row == approvals[calls[k].approval]
    IN  /\ row.client = ClientOf[calls[k].cred]
        /\ row.execution = None
        /\ row.status \in Open

ResumableByAnyone(k) ==
    LET row == approvals[calls[k].approval]
    IN  row.execution = None /\ row.status \in Allowed

\* The row is one this client may resume and nobody has resumed yet.
Resumable(k) ==
    LET row == approvals[calls[k].approval]
    IN  /\ row.client = ClientOf[calls[k].cred]
        /\ row.execution = None
        /\ row.status \in Allowed

\* Mutants: the session or the policy revision of the approval is not compared.
VerdictAnySession(k) ==
    LET row == approvals[calls[k].approval]
    IN  CASE calls[k].late                     -> "expired"
          [] row.revision # calls[k].revision  -> "invalidated"
          [] ~calls[k].snapshot                -> "invalidated"
          [] OTHER                             -> "ok"

VerdictAnyRevision(k) ==
    LET row == approvals[calls[k].approval]
    IN  CASE calls[k].late                     -> "expired"
          [] row.session # calls[k].session    -> "invalidated"
          [] ~calls[k].snapshot                -> "invalidated"
          [] OTHER                             -> "ok"

\* The checks of a resumable row, in the order of the code: the status each
\* failing check leaves behind, "ok" when all pass.
Verdict(k) ==
    LET row == approvals[calls[k].approval]
    IN  CASE calls[k].late                     -> "expired"
          [] row.session # calls[k].session    -> "invalidated"
          [] row.revision # calls[k].revision  -> "invalidated"
          [] ~calls[k].snapshot                -> "invalidated"
          [] OTHER                             -> "ok"

\* Not resumable: an error, or the state of the existing execution.
RefuseResume(k) ==
    /\ calls[k].pc = "begin"
    /\ ~Resumable(k)
    /\ calls' = [calls EXCEPT ![k] = Idle]
    /\ UNCHANGED <<approvals, executions, ops, sessionVars, policyVars,
                   purges, dropping, historyVars>>

\* The credential no longer has the scopes of the original operation.
RefuseScope(k) ==
    /\ calls[k].pc = "begin"
    /\ Resumable(k)
    /\ ~calls[k].late
    /\ approvals[calls[k].approval].session = calls[k].session
    /\ approvals[calls[k].approval].revision = calls[k].revision
    /\ calls' = [calls EXCEPT ![k] = Idle]
    /\ UNCHANGED <<approvals, executions, ops, sessionVars, policyVars,
                   purges, dropping, historyVars>>

VoidResume(k) ==
    /\ calls[k].pc = "begin"
    /\ Resumable(k)
    /\ Verdict(k) # "ok"
    /\ approvals' = [approvals EXCEPT ![calls[k].approval].status = Verdict(k)]
    /\ calls' = [calls EXCEPT ![k] = Idle]
    /\ UNCHANGED <<executions, ops, sessionVars, policyVars, purges,
                   dropping, historyVars>>

\* Mutant: the execution id is not stored with the approval.
DispatchUnassigned(k, e) ==
    LET a == calls[k].approval
    IN  /\ calls[k].pc = "begin"
        /\ Resumable(k)
        /\ Verdict(k) = "ok"
        /\ executions[e].status = "none"
        /\ approvals' = [approvals EXCEPT
                           ![a].status = IF @ = "allowed_once" THEN "consumed" ELSE @]
        /\ executions' = [executions EXCEPT ![e] =
                            [status |-> "dispatched", approval |-> a]]
        /\ calls' = [calls EXCEPT ![k] = [Idle EXCEPT !.pc = "forget", !.approval = a,
                                                      !.execution = e]]
        /\ UNCHANGED <<ops, sessionVars, policyVars, purges, dropping, historyVars>>

\* The execution id is assigned, an allow-once approval is consumed and the
\* execution recorded as dispatched, all in one transaction.
Dispatch(k, e) ==
    LET a == calls[k].approval
    IN  /\ calls[k].pc = "begin"
        /\ Resumable(k)
        /\ Verdict(k) = "ok"
        /\ executions[e].status = "none"
        /\ approvals' = [approvals EXCEPT
                           ![a].execution = e,
                           ![a].status = IF @ = "allowed_once" THEN "consumed" ELSE @]
        /\ executions' = [executions EXCEPT ![e] =
                            [status |-> "dispatched", approval |-> a]]
        /\ calls' = [calls EXCEPT ![k] = [Idle EXCEPT !.pc = "forget", !.approval = a,
                                                      !.execution = e]]
        /\ UNCHANGED <<ops, sessionVars, policyVars, purges, dropping,
                       historyVars>>

\* A consumed approval loses its snapshot; the call goes on with its copy.
ForgetSnapshot(k) ==
    /\ calls[k].pc = "forget"
    /\ ops' = IF approvals[calls[k].approval].status = "consumed"
              THEN ops \ {calls[k].approval} ELSE ops
    /\ calls' = [calls EXCEPT ![k].pc = "run"]
    /\ UNCHANGED <<approvals, executions, sessionVars, policyVars, purges,
                   dropping, historyVars>>

\* The stored operation runs, whatever its outcome.
RunOperation(k, outcome) ==
    /\ calls[k].pc = "run"
    /\ ran' = [ran EXCEPT ![calls[k].approval] = @ + 1]
    /\ calls' = [calls EXCEPT ![k].pc = "complete", ![k].outcome = outcome]
    /\ UNCHANGED <<approvals, executions, ops, sessionVars, policyVars,
                   purges, dropping, consented, purged, settled>>

\* Mutant: the early return forgets to complete the execution.
AbandonSilently(k) ==
    /\ calls[k].pc = "run"
    /\ calls' = [calls EXCEPT ![k] = Idle]
    /\ UNCHANGED <<approvals, executions, ops, sessionVars, policyVars, purges,
                   dropping, historyVars>>

\* It does not: the audit intent is refused, or authorize finds that the
\* target, the command or the policy decision changed since the approval.
AbandonOperation(k) ==
    /\ calls[k].pc = "run"
    /\ calls' = [calls EXCEPT ![k].pc = "complete", ![k].outcome = "failed"]
    /\ UNCHANGED <<approvals, executions, ops, sessionVars, policyVars,
                   purges, dropping, historyVars>>

CompleteExecution(k) ==
    /\ calls[k].pc = "complete"
    /\ executions' = [executions EXCEPT ![calls[k].execution].status = calls[k].outcome]
    /\ calls' = [calls EXCEPT ![k] = Idle]
    /\ UNCHANGED <<approvals, ops, sessionVars, policyVars, purges,
                   dropping, historyVars>>

\* The owner settles an execution whose outcome a restart left unknown.
Reconcile(e) ==
    /\ executions[e].status = "outcome_unknown"
    /\ executions' = [executions EXCEPT ![e].status = "reconciled"]
    /\ UNCHANGED <<approvals, ops, sessionVars, policyVars, purges,
                   dropping, calls, historyVars>>

-----------------------------------------------------------------------------
(* Revocation.  Sessions leave the active map first; the approvals are      *)
(* invalidated by a later transaction.                                      *)

EndSessions(crs, owed) ==
    /\ active' = [cr \in Credentials |-> IF cr \in crs THEN None ELSE active[cr]]
    /\ Cardinality(purges \cup owed) <= MaxPurges
    /\ purges' = purges \cup owed
    /\ UNCHANGED <<approvals, executions, ops, home, policyVars, dropping,
                   calls, historyVars>>

\* end_session (by the client or the local UI) and the expiry sweep.
EndSession(cr) ==
    /\ active[cr] # None
    /\ EndSessions({cr}, {[client |-> NoFilter, session |-> active[cr]]})

\* Token rotation and OAuth revocation end the session and nothing else.
EndCredential(cr) ==
    /\ active[cr] # None
    /\ EndSessions({cr}, {})

\* ui_revoke_credential with another credential of the client still usable.
RevokeCredential(cr) ==
    EndSessions({cr}, {[client |-> ClientOf[cr], session |-> NoFilter]})

\* client_access_removed: disable, disconnect, allow list.
RemoveClient(c) ==
    EndSessions({cr \in Credentials : ClientOf[cr] = c},
                {[client |-> c, session |-> NoFilter]})

\* invalidate_all: Emergency Stop, pause and MCP restart.
InvalidateAll ==
    EndSessions(Credentials, {[client |-> NoFilter, session |-> NoFilter]})

Invalidate(p) ==
    /\ p \in purges
    /\ InvalidateRows(p)
    /\ purges' = purges \ {p}
    /\ UNCHANGED <<executions, ops, sessionVars, policyVars, calls, ran,
                   consented, settled>>

DropSnapshot(a) ==
    /\ a \in dropping
    /\ ops' = ops \ {a}
    /\ dropping' = dropping \ {a}
    /\ UNCHANGED <<approvals, executions, sessionVars, policyVars, purges,
                   calls, historyVars>>

\* Mutant: the sweep overlooks requests that were never decided.
ExpireSweepAllowedOnly ==
    LET hit == {a \in ApprovalIds : /\ approvals[a].status = "allowed_once"
                                    /\ approvals[a].left < 0}
    IN  /\ hit # {}
        /\ approvals' = SetStatus(hit, "expired")
        /\ dropping' = dropping \cup hit
        /\ UNCHANGED <<executions, ops, sessionVars, policyVars, purges, calls,
                       historyVars>>

\* expire_sweep of the maintenance loop.
ExpireSweep ==
    LET hit == {a \in ApprovalIds : /\ approvals[a].status \in {"pending", "allowed_once"}
                                    /\ approvals[a].left < 0}
    IN  /\ hit # {}
        /\ approvals' = SetStatus(hit, "expired")
        /\ dropping' = dropping \cup hit
        /\ UNCHANGED <<executions, ops, sessionVars, policyVars, purges,
                       calls, historyVars>>

\* Time passes for every approval that may still be used.
Tick ==
    /\ \E a \in ApprovalIds : approvals[a].status \in Open /\ approvals[a].left >= 0
    /\ approvals' = [a \in ApprovalIds |->
                       IF approvals[a].status \in Open /\ approvals[a].left >= 0
                       THEN [approvals[a] EXCEPT !.left = @ - 1] ELSE approvals[a]]
    /\ UNCHANGED <<executions, ops, sessionVars, policyVars, purges,
                   dropping, calls, historyVars>>

-----------------------------------------------------------------------------
(* A security relevant change of the settings: the new revision is in force *)
(* first, the open approvals are invalidated after it.                      *)

UpdateSettings ==
    /\ settings = "idle"
    /\ revision < MaxRevision
    /\ revision' = revision + 1
    /\ settings' = "invalidate"
    /\ UNCHANGED <<approvals, executions, ops, sessionVars, purges,
                   dropping, calls, historyVars>>

InvalidateForPolicy ==
    /\ settings = "invalidate"
    /\ InvalidateRows([client |-> NoFilter, session |-> NoFilter])
    /\ settings' = "idle"
    /\ settled' = revision
    /\ UNCHANGED <<executions, ops, sessionVars, revision, purges, calls,
                   ran, consented>>

-----------------------------------------------------------------------------
(* The control database fails.  A call that cannot insert its request, or   *)
(* begin or read back its resume, returns the error; the outcome of an      *)
(* execution and an invalidation are dropped without a trace                *)
(* (complete_execution ignores the result, invalidate takes the empty       *)
(* list), and nobody tries them again.                                      *)

FailedAccess(k) ==
    /\ StorageFails
    /\ calls[k].pc \in {"insert", "begin", "forget", "complete"}
    /\ calls' = [calls EXCEPT ![k] = Idle]
    /\ UNCHANGED <<approvals, executions, ops, sessionVars, policyVars, purges,
                   dropping, historyVars>>

\* The rows of invalidate are updated one statement at a time: the ones before
\* the failing statement stay invalidated, and their ids are lost.
PartlyInvalidate(p) ==
    LET matching == {a \in ApprovalIds : Matches(p, a)}
    IN  \E hit \in SUBSET matching :
            /\ hit = {} \/ hit # matching
            /\ approvals' = SetStatus(hit, "invalidated")

FailedFlush(k) ==
    /\ StorageFails
    /\ calls[k].pc = "flush"
    /\ PartlyInvalidate([client |-> NoFilter, session |-> calls[k].owed])
    /\ calls' = [calls EXCEPT ![k].pc = FirstStep(calls[k].approval),
                              ![k].owed = None]
    /\ UNCHANGED <<executions, ops, sessionVars, policyVars, purges, dropping,
                   historyVars>>

FailedInvalidation ==
    /\ StorageFails
    /\ \/ \E p \in purges : /\ PartlyInvalidate(p)
                             /\ purges' = purges \ {p}
                             /\ UNCHANGED settings
       \/ /\ settings = "invalidate"
          /\ PartlyInvalidate([client |-> NoFilter, session |-> NoFilter])
          /\ settings' = "idle"
          /\ UNCHANGED purges
    /\ UNCHANGED <<executions, ops, sessionVars, revision, dropping, calls, historyVars>>

-----------------------------------------------------------------------------
(* The process stops at any point and starts again: memory is lost, and     *)
(* startup_recovery and end_all_persisted run before anything is accepted.  *)

\* Mutant: recovery does not look at the outcome that was recorded.
RecoveredAlways(x) ==
    IF x.status # "none" THEN [x EXCEPT !.status = "outcome_unknown"] ELSE x

Recovered(x) ==
    IF x.status = "dispatched" THEN [x EXCEPT !.status = "outcome_unknown"] ELSE x

Restart ==
    /\ approvals' = SetStatus({a \in ApprovalIds : approvals[a].status \in Open},
                              "invalidated")
    /\ executions' = [e \in ExecutionIds |-> Recovered(executions[e])]
    /\ ops' = {}
    /\ active' = [cr \in Credentials |-> None]
    /\ settings' = "idle"
    /\ purges' = {}
    /\ dropping' = {}
    /\ calls' = [k \in Calls |-> Idle]
    /\ purged' = {s \in SessionIds : home[s] # None}
    /\ settled' = revision
    /\ UNCHANGED <<home, revision, ran, consented>>

-----------------------------------------------------------------------------
Admission(k) ==
    \E cr \in Credentials, target \in Known \cup {None} :
        \/ JoinSession(k, cr, target)
        \/ \E s \in SessionIds : OpenSession(k, cr, s, target)

Progress(k) ==
    \/ FlushExpired(k) \/ RequestApproval(k) \/ StoreSnapshot(k)
    \/ ReadContext(k)
    \/ RefuseResume(k) \/ RefuseScope(k) \/ VoidResume(k)
    \/ ForgetSnapshot(k) \/ AbandonOperation(k) \/ CompleteExecution(k)
    \/ \E a \in ApprovalIds : CreateRow(k, a)
    \/ \E e \in ExecutionIds : Dispatch(k, e)
    \/ \E outcome \in {"completed", "failed"} : RunOperation(k, outcome)

LocalUser ==
    \/ \E a \in ApprovalIds :
         \/ \E status \in Allowed : Allow(a, status)
         \/ Deny(a)
         \/ DecideLate(a)
    \/ \E e \in ExecutionIds : Reconcile(e)

Revocation ==
    \/ \E cr \in Credentials :
         \/ EndSession(cr)
         \/ EndCredential(cr)
         \/ RevokeCredential(cr)
    \/ \E c \in Clients : RemoveClient(c)
    \/ InvalidateAll

Next ==
    \/ \E k \in Calls : Admission(k) \/ Progress(k) \/ FailedAccess(k) \/ FailedFlush(k)
    \/ LocalUser
    \/ Revocation
    \/ \E p \in purges : Invalidate(p)
    \/ \E a \in ApprovalIds : DropSnapshot(a)
    \/ ExpireSweep
    \/ Tick
    \/ UpdateSettings \/ InvalidateForPolicy
    \/ FailedInvalidation
    \/ Restart

Spec == Init /\ [][Next]_vars

\* Handlers run to completion once admitted, the maintenance loop wakes up
\* every 15 seconds and time passes; clients and the local user owe nothing.
Fairness ==
    /\ \A k \in Calls : WF_vars(Progress(k))
    /\ WF_vars(ExpireSweep)
    /\ WF_vars(Tick)

FairSpec == Spec /\ Fairness
-----------------------------------------------------------------------------
(* Properties.                                                             *)

\* Every variable has its type.
TypeOK ==
    /\ approvals \in [ApprovalIds -> Row]
    /\ executions \in [ExecutionIds ->
                        [status : ExecutionStatus, approval : ApprovalIds \cup {None}]]
    /\ ops \in SUBSET ApprovalIds
    /\ active \in [Credentials -> SessionIds \cup {None}]
    /\ home \in [SessionIds -> Credentials \cup {None}]
    /\ revision \in Nat /\ settled \in Nat
    /\ settings \in {"idle", "invalidate"}
    /\ purges \in SUBSET Purge
    /\ dropping \in SUBSET ApprovalIds
    /\ calls \in [Calls -> Call]
    /\ ran \in [ApprovalIds -> Nat]
    /\ consented \in SUBSET ApprovalIds
    /\ purged \in SUBSET SessionIds

\* However many resumes race, however often they are repeated and wherever the
\* process stops, the approved operation runs at most once (begin_resume:
\* "repeated resumes observe the same execution and never dispatch again").
AtMostOnce == \A a \in ApprovalIds : ran[a] <= 1

\* An operation that has run was allowed by the local user and left a durable
\* execution record before it ran, and a record that says "completed" is of an
\* operation that did run.
EffectIsAccountedFor ==
    /\ \A a \in ApprovalIds : ran[a] > 0 =>
         /\ a \in consented
         /\ \E e \in ExecutionIds : /\ approvals[a].execution = e
                                   /\ executions[e].approval = a
                                   /\ executions[e].status # "none"
    /\ \A e \in ExecutionIds :
         executions[e].status = "completed" => ran[executions[e].approval] = 1

\* A denied, expired, consumed or invalidated approval never changes status
\* again, whichever sweep, revocation or late resume reaches it.
ClosedStaysClosed ==
    [][\A a \in ApprovalIds :
         approvals[a].status \in Closed => approvals'[a].status = approvals[a].status]_vars

\* The outcome of an execution is written once: a completion never overwrites
\* another outcome, and one that a restart left unknown is only ever
\* reconciled by the owner.
ExecutionOutcomesFinal ==
    [][\A e \in ExecutionIds :
         LET old == executions[e].status
             new == executions'[e].status
         IN  /\ old \in {"completed", "failed", "reconciled"} => new = old
             /\ old = "outcome_unknown" => new \in {old, "reconciled"}
             /\ old # "none" => executions'[e].approval = executions[e].approval]_vars

\* Nothing is dispatched for a session after the invalidation that follows its
\* end has completed, nor under a policy revision after the invalidation that
\* follows the change has completed, although resume works with a session and
\* a revision that were read earlier and approvals are created without
\* looking at either again.
DispatchRespectsRevocation ==
    [][\A a \in ApprovalIds :
         (approvals[a].execution = None /\ approvals'[a].execution # None) =>
            /\ approvals[a].session \notin purged
            /\ approvals[a].revision >= settled]_vars

\* The engine implements the consent contract of module Consent.
PermissionOf(row) ==
    CASE row.status = "none"                             -> "unasked"
      [] row.execution # None /\ row.status # "none"     -> "spent"
      [] row.execution = None /\ row.status = "pending"  -> "asked"
      [] row.execution = None /\ row.status \in Allowed  -> "granted"
      [] row.execution = None /\ row.status \in Closed   -> "void"

Permission == [a \in ApprovalIds |-> PermissionOf(approvals[a])]

Abs == INSTANCE Consent WITH Requests <- ApprovalIds, permission <- Permission,
                             performed <- ran

ImplementsConsent == Abs!AbsSpec

\* With one credential per client, an approval that is still open is voided only
\* for a cause of its own: its session is over, the policy has changed since, or
\* an invalidation of its client is under way.  A resume by a stranger, one that
\* was admitted long ago or one that finds no snapshot never voids it otherwise.
VoidedOnlyForCause ==
    [][\A a \in ApprovalIds :
         (approvals[a].status \in Open /\ approvals'[a].status = "invalidated") =>
            \/ \A cr \in Credentials : active'[cr] # approvals[a].session
            \/ approvals[a].revision # revision \/ settings = "invalidate"
            \/ \E p \in purges : p.client \in {NoFilter, approvals[a].client}]_vars

\* A request nobody decides does not stay pending: the sweep expires it.
PendingResolves ==
    \A a \in ApprovalIds :
        approvals[a].status = "pending" ~> approvals[a].status # "pending"

\* approval_resume does not answer "executing" forever.
DispatchResolves ==
    \A e \in ExecutionIds :
        executions[e].status = "dispatched" ~> executions[e].status # "dispatched"

\* What plan.md says of revocation: ending a session, revoking or disabling a
\* credential "invalidate all relevant session grants and pending approvals".
\* Once every invalidation under way has finished, an open approval belongs to
\* an active session.
RevocationCancelsApprovals ==
    (purges = {} /\ \A k \in Calls : calls[k].pc = "idle") =>
        \A a \in ApprovalIds : approvals[a].status \in Open =>
            \E cr \in Credentials : active[cr] = approvals[a].session
=============================================================================
