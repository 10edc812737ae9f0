------------------------------ MODULE Sessions ------------------------------
(***************************************************************************)
(* Application sessions, their limits and the permissions granted for a    *)
(* session (crates/workstation-server/src/sessions.rs; session_for,        *)
(* decide_approval and update_settings of lib.rs).                         *)
(*                                                                         *)
(* SessionService keeps the sessions in a map behind a lock, one for each  *)
(* credential.  Callers, the local user and a settings change each take    *)
(* several steps, and the lock is held for one of them at a time.  The     *)
(* rows of the database are written and never read back: they are left     *)
(* out.  Approvals appear as far as they lead to a session grant; module   *)
(* Approvals has the rest of their life, and the two steps of ending a     *)
(* session and invalidating its approvals, which are one here.             *)
(***************************************************************************)
EXTENDS Naturals, FiniteSets, Sequences

CONSTANTS
    Credentials, ClientOf,  \* credential -> client
    ApprovalIds,
    Limits,                 \* the values of sessions.idle_timeout and absolute_lifetime
    MaxClients,             \* concurrency.max_simultaneous_clients
    MaxNow, MaxRevision,    \* bounds on the clock, on settings changes
    MaxSessions,            \* and on sessions opened
    None

VARIABLES
    now,
    settings,   \* [revision, idle, lifetime]
    opened,     \* the number of session ids in use
    active,     \* SessionService.active: credential -> session or None
    approvals,  \* approval -> [status, session, revision]
    calls,      \* credential -> the call in flight
    deciding,   \* the approval that was allowed for the session, grant to come
    updating    \* the steps of a settings change still to be done

vars == <<now, settings, opened, active, approvals, calls, deciding, updating>>

Clients == {ClientOf[c] : c \in Credentials}
Connected == {c \in Credentials : active[c] # None}

NewSession(s) ==
    [id |-> opened + 1, created |-> now, last |-> now, expires |-> now + s.lifetime, idle |-> s.idle, grants |-> {}]

Expired(session) == now >= session.expires \/ now >= session.last + session.idle

NoCall == [pc |-> "idle", settings |-> None, session |-> None]

Init ==
    /\ now = 0
    /\ settings \in {[revision |-> 1, idle |-> i, lifetime |-> l] : i \in Limits, l \in Limits}
    /\ opened = 0
    /\ active = [c \in Credentials |-> None]
    /\ approvals = [a \in ApprovalIds |-> [status |-> "none", session |-> None, revision |-> 0]]
    /\ calls = [c \in Credentials |-> NoCall]
    /\ deciding = None
    /\ updating = <<>>

Tick == now < MaxNow /\ now' = now + 1 /\ UNCHANGED <<settings, opened, active, approvals, calls, deciding, updating>>

Open == {"pending", "allowed_once", "allowed_session"}

\* invalidate for a set of sessions.
Invalidated(ids) ==
    [a \in ApprovalIds |-> IF approvals[a].status \in Open /\ approvals[a].session \in ids
                           THEN [approvals[a] EXCEPT !.status = "invalidated"] ELSE approvals[a]]

-----------------------------------------------------------------------------
\* A call: session_for checks the number of clients against a copy of the
\* settings, resolve opens or finds the session, touch counts as activity.

ActiveClients == {ClientOf[c] : c \in {c \in Connected : ~Expired(active[c])}}

Admit(c) ==
    /\ calls[c].pc = "idle"
    /\ ClientOf[c] \in ActiveClients \/ Cardinality(ActiveClients) < MaxClients
    /\ calls' = [calls EXCEPT ![c] = [NoCall EXCEPT !.pc = "admitted", !.settings = settings]]
    /\ UNCHANGED <<now, settings, opened, active, approvals, deciding, updating>>

Resolve(c) ==
    /\ calls[c].pc = "admitted"
    /\ LET old == active[c]
           stale == old # None /\ Expired(old)
           session == IF old # None /\ ~stale THEN old ELSE NewSession(calls[c].settings)
       IN  /\ session # old => opened < MaxSessions
           /\ opened' = IF session = old THEN opened ELSE opened + 1
           /\ active' = [active EXCEPT ![c] = session]
           /\ approvals' = IF stale THEN Invalidated({old.id}) ELSE approvals
           /\ calls' = [calls EXCEPT ![c] = [@ EXCEPT !.pc = "resolved", !.session = session.id]]
    /\ UNCHANGED <<now, settings, deciding, updating>>

\* The new session cannot be stored; an expired one is gone all the same, and
\* nobody is told.
ResolveFails(c) ==
    /\ calls[c].pc = "admitted"
    /\ active[c] # None => Expired(active[c])
    /\ active' = [active EXCEPT ![c] = None]
    /\ calls' = [calls EXCEPT ![c] = NoCall]
    /\ UNCHANGED <<now, settings, opened, approvals, deciding, updating>>

\* The session with an id, if it is still there.
Holds(c, id) == active[c] # None /\ active[c].id = id

Touch(c) ==
    /\ calls[c].pc = "resolved"
    /\ active' = IF Holds(c, calls[c].session) /\ ~Expired(active[c])
                 THEN [active EXCEPT ![c].last = now] ELSE active
    /\ calls' = [calls EXCEPT ![c].pc = "running"]
    /\ UNCHANGED <<now, settings, opened, approvals, deciding, updating>>

\* request_approval reads the policy revision, create stores the request.
AskUser(c) ==
    /\ calls[c].pc = "running"
    /\ calls' = [calls EXCEPT ![c].pc = "asking", ![c].settings = settings]
    /\ UNCHANGED <<now, settings, opened, active, approvals, deciding, updating>>

CreateApproval(c, a) ==
    /\ calls[c].pc = "asking" /\ approvals[a].status = "none"
    /\ approvals' = [approvals EXCEPT ![a] = [status |-> "pending", session |-> calls[c].session,
                                              revision |-> calls[c].settings.revision]]
    /\ calls' = [calls EXCEPT ![c] = NoCall]
    /\ UNCHANGED <<now, settings, opened, active, deciding, updating>>

Finish(c) ==
    /\ calls[c].pc = "running"
    /\ calls' = [calls EXCEPT ![c] = NoCall]
    /\ UNCHANGED <<now, settings, opened, active, approvals, deciding, updating>>

\* A running task of the client is a heartbeat: touch_client.
TouchClient(client) ==
    /\ active' = [c \in Credentials |-> IF ClientOf[c] = client /\ c \in Connected /\ ~Expired(active[c])
                                        THEN [active[c] EXCEPT !.last = now] ELSE active[c]]
    /\ UNCHANGED <<now, settings, opened, approvals, calls, deciding, updating>>

-----------------------------------------------------------------------------
\* decide_approval: the decision, then the grant.

Decide(a) ==
    /\ deciding = None /\ approvals[a].status = "pending"
    /\ \/ /\ \E s \in {"denied", "allowed_once"} : approvals' = [approvals EXCEPT ![a].status = s]
          /\ UNCHANGED deciding
       \/ approvals' = [approvals EXCEPT ![a].status = "allowed_session"] /\ deciding' = a
    /\ UNCHANGED <<now, settings, opened, active, calls, updating>>

\* add_grant; a session that has ended gets none.
AddGrant ==
    /\ deciding # None
    /\ active' = [c \in Credentials |-> IF Holds(c, approvals[deciding].session)
                                        THEN [active[c] EXCEPT !.grants = @ \cup {deciding}] ELSE active[c]]
    /\ deciding' = None
    /\ UNCHANGED <<now, settings, opened, approvals, calls, updating>>

-----------------------------------------------------------------------------
\* Ending sessions.  Revocation of one credential leaves the approvals alone.

EndWhere(ended, revoked) ==
    /\ ended # {}
    /\ active' = [c \in Credentials |-> IF c \in ended THEN None ELSE active[c]]
    /\ approvals' = Invalidated({active[c].id : c \in revoked})
    /\ UNCHANGED <<now, settings, opened, calls, deciding, updating>>

EndSession(c) == EndWhere({c} \cap Connected, {c})
EndCredential(c) == EndWhere({c} \cap Connected, {})
EndClient(client) == LET cs == {c \in Connected : ClientOf[c] = client} IN EndWhere(cs, cs)
EndAll == EndWhere(Connected, Connected)
Sweep == LET cs == {c \in Connected : Expired(active[c])} IN EndWhere(cs, cs)

\* No session survives a restart.
Restart ==
    /\ active' = [c \in Credentials |-> None]
    /\ approvals' = Invalidated({approvals[a].session : a \in ApprovalIds})
    /\ calls' = [c \in Credentials |-> NoCall]
    /\ deciding' = None /\ updating' = <<>>
    /\ UNCHANGED <<now, settings, opened>>

-----------------------------------------------------------------------------
\* update_settings, step by step, for a change that raises the policy revision.

SaveSettings(next) ==
    /\ updating = <<>> /\ settings.revision < MaxRevision
    /\ settings' = [next EXCEPT !.revision = settings.revision + 1]
    /\ updating' = <<"limits", "grants", "approvals">>
    /\ UNCHANGED <<now, opened, active, approvals, calls, deciding>>

Updating(step) == updating # <<>> /\ Head(updating) = step /\ updating' = Tail(updating)

ApplyLimits ==
    /\ Updating("limits")
    /\ active' = [c \in Credentials |->
                     IF c \notin Connected THEN None
                     ELSE LET cap == active[c].created + settings.lifetime
                          IN  [active[c] EXCEPT !.idle = settings.idle, !.expires = IF cap < @ THEN cap ELSE @]]
    /\ UNCHANGED <<now, settings, opened, approvals, calls, deciding>>

ClearGrants ==
    /\ Updating("grants")
    /\ active' = [c \in Credentials |-> IF c \in Connected THEN [active[c] EXCEPT !.grants = {}] ELSE None]
    /\ UNCHANGED <<now, settings, opened, approvals, calls, deciding>>

InvalidateOpen ==
    /\ Updating("approvals")
    /\ approvals' = Invalidated({approvals[a].session : a \in ApprovalIds})
    /\ UNCHANGED <<now, settings, opened, active, calls, deciding>>

-----------------------------------------------------------------------------
Next ==
    \/ Tick \/ AddGrant \/ EndAll \/ Sweep \/ Restart \/ ApplyLimits \/ ClearGrants \/ InvalidateOpen
    \/ \E c \in Credentials :
           \/ Admit(c) \/ Resolve(c) \/ ResolveFails(c) \/ Touch(c) \/ AskUser(c) \/ Finish(c)
           \/ EndSession(c) \/ EndCredential(c)
           \/ \E a \in ApprovalIds : CreateApproval(c, a)
    \/ \E client \in Clients : EndClient(client) \/ TouchClient(client)
    \/ \E a \in ApprovalIds : Decide(a)
    \/ \E i \in Limits, l \in Limits : SaveSettings([revision |-> 0, idle |-> i, lifetime |-> l])

Spec == Init /\ [][Next]_vars

-----------------------------------------------------------------------------
\* Once a settings change is complete, no session holds a permission that was
\* given under an earlier policy: update_settings revokes the session grants
\* and invalidates the open approvals for just that.
GrantsFollowPolicy ==
    updating = <<>> =>
        \A c \in Connected : \A a \in active[c].grants : approvals[a].revision = settings.revision
=============================================================================
