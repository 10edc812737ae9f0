------------------------------ MODULE Pipeline ------------------------------
(***************************************************************************)
(* One tool call from admission to delivery (tools/mod.rs dispatch and     *)
(* finish): the audit intent of a mutation, its idempotency key, the       *)
(* handler, the Data Shared record, the queued audit completion and the    *)
(* delivery of the result; and the audit store behind it (bounded queue,   *)
(* batching writer, fault state, recovery).                                *)
(*                                                                         *)
(* A call keeps its id for ever: the id is also that of its audit row and  *)
(* of its Data Shared row.  A result is identified by the call whose       *)
(* handler produced it.  Policy, approvals and sessions are in other       *)
(* modules; here a handler ends with one of the results finish tells apart.*)
(***************************************************************************)
EXTENDS Naturals, Sequences, FiniteSets

CONSTANTS
    Calls,      \* pool of tool calls
    Keys,       \* idempotency keys of one client
    Digests,    \* digests of arguments
    MaxQueue,   \* capacity of the audit queue
    MaxBatch,   \* largest batch of the writer
    None        \* no key, no digest, no call

ASSUME NoneAssumption == None \notin Calls \cup Keys \cup Digests
ASSUME QueueAssumption == MaxQueue \in Nat \ {0} /\ MaxBatch \in Nat \ {0}

VARIABLES
    calls,      \* progress of the calls
    event,      \* durable: result_status of the audit row of a call
    share,      \* durable: transmission of the Data Shared row of a call
    idem,       \* durable: idempotency_keys
    queue,      \* audit queue
    batch,      \* what the writer is about to commit
    fault,      \* AuditStore.fault
    blocked,    \* AuditStore.admission_blocked
    ran,        \* history: calls whose handler has run
    runs,       \* history: handler runs under the present life of a key
    received,   \* history: calls whose client was sent the result
    excused     \* history: lost records the user was told of, or that a restart lost

vars == <<calls, event, share, idem, queue, batch, fault, blocked, ran, runs, received,
          excused>>

auditVars   == <<event, share, queue, batch, fault, blocked>>
historyVars == <<ran, runs, received, excused>>

\* What finish tells apart: a value, which may also say approval_required, or an
\* error, which may also be a denial.
Results == {"ok", "error"}

\* How a response body ends: written, dropped before its end, or broken by an error.
Transmissions == {"sent", "interrupted", "failed"}

NoCall == [pc |-> "idle", mutating |-> FALSE, key |-> None, digest |-> None,
           result |-> "none", from |-> None, data |-> FALSE]
NoKey  == [status |-> "none", digest |-> None, from |-> None]

Op(kind, k, status) == [kind |-> kind, call |-> k, status |-> status]

At(k, pc) == calls[k].pc = pc
Goto(k, pc) == calls' = [calls EXCEPT ![k].pc = pc]

Init ==
    /\ calls = [k \in Calls |-> NoCall]
    /\ event = [k \in Calls |-> "none"]
    /\ share = [k \in Calls |-> "none"]
    /\ idem = [i \in Keys |-> NoKey]
    /\ queue = <<>> /\ batch = <<>>
    /\ fault = FALSE /\ blocked = FALSE
    /\ ran = {} /\ runs = [i \in Keys |-> 0] /\ received = {} /\ excused = {}

-----------------------------------------------------------------------------
(* dispatch.                                                               *)

\* A call past the availability gate, the scopes and the session.  Only a
\* mutation has an intent and may carry a key, with the digest of its arguments.
Begin(k, mutating, key, digest) ==
    /\ At(k, "idle")
    /\ ~mutating => key = None
    /\ key = None <=> digest = None
    /\ calls' = [calls EXCEPT ![k] =
                   [NoCall EXCEPT !.pc = IF mutating THEN "intent" ELSE "handler",
                                  !.mutating = mutating, !.key = key, !.digest = digest]]
    /\ UNCHANGED <<auditVars, idem, historyVars>>

\* Mutant: the handler runs although the intent could not be written.
IntentIgnored(k) ==
    /\ At(k, "intent")
    /\ Goto(k, IF calls[k].key = None THEN "handler" ELSE "idem")
    /\ \/ ~fault /\ event' = [event EXCEPT ![k] = "intent"] /\ UNCHANGED fault
       \/ fault' = TRUE /\ UNCHANGED event
    /\ UNCHANGED <<share, idem, queue, batch, blocked, historyVars>>

\* AuditStore::intent; without it the call is refused with AUDIT_UNAVAILABLE.
Intent(k) ==
    /\ At(k, "intent")
    /\ \/ /\ ~fault
          /\ event' = [event EXCEPT ![k] = "intent"]
          /\ Goto(k, IF calls[k].key = None THEN "handler" ELSE "idem")
          /\ UNCHANGED fault
       \/ /\ fault' = TRUE      \* there was a fault, or the write fails
          /\ Goto(k, "reply")
          /\ UNCHANGED event
    /\ UNCHANGED <<share, idem, queue, batch, blocked, historyVars>>

\* Mutant: a key that is in progress does not keep a second call from running.
IdemBeginEager(k) ==
    LET c   == calls[k]
        row == idem[c.key]
    IN  /\ At(k, "idem")
        /\ \/ /\ row.status # "done"
              /\ idem' = [idem EXCEPT ![c.key] = [status |-> "in_progress", digest |-> c.digest,
                                                  from |-> None]]
              /\ Goto(k, "handler")
           \/ /\ row.status = "done" /\ row.digest = c.digest
              /\ calls' = [calls EXCEPT ![k].pc = "share", ![k].result = "ok",
                                        ![k].from = row.from]
              /\ UNCHANGED idem
        /\ UNCHANGED <<auditVars, historyVars>>

\* Mutant: the digest of the arguments is not compared.
IdemBeginAnyArguments(k) ==
    LET c   == calls[k]
        row == idem[c.key]
    IN  /\ At(k, "idem")
        /\ \/ /\ row.status = "none"
              /\ idem' = [idem EXCEPT ![c.key] = [status |-> "in_progress", digest |-> c.digest,
                                                  from |-> None]]
              /\ Goto(k, "handler")
           \/ /\ row.status = "done"
              /\ calls' = [calls EXCEPT ![k].pc = "share", ![k].result = "ok",
                                        ![k].from = row.from]
              /\ UNCHANGED idem
        /\ UNCHANGED <<auditVars, historyVars>>

\* idem_begin, one transaction: a new key proceeds, a finished call is replayed,
\* one in progress and one with other arguments are refused, and so is the call
\* when the transaction fails.  A refused call forgets the key, so that finish
\* does not touch the row.
IdemBegin(k) ==
    LET c   == calls[k]
        row == idem[c.key]
    IN  /\ At(k, "idem")
        /\ \/ /\ row.status = "none"
              /\ idem' = [idem EXCEPT ![c.key] = [status |-> "in_progress", digest |-> c.digest,
                                                  from |-> None]]
              /\ Goto(k, "handler")
           \/ /\ row.status = "done" /\ row.digest = c.digest
              /\ calls' = [calls EXCEPT ![k].pc = "share", ![k].result = "ok",
                                        ![k].from = row.from]
              /\ UNCHANGED idem
           \/ /\ calls' = [calls EXCEPT ![k].pc = "share", ![k].result = "error",
                                        ![k].key = None]
              /\ UNCHANGED idem
        /\ UNCHANGED <<auditVars, historyVars>>

\* run_handler: the handler runs in a task of its own to its end.
RunHandler(k, result) ==
    LET key == calls[k].key
    IN  /\ At(k, "handler")
        /\ calls' = [calls EXCEPT ![k].pc = "share", ![k].result = result, ![k].from = k]
        /\ ran' = ran \cup {k}
        /\ runs' = [i \in Keys |-> IF i = key THEN runs[i] + 1 ELSE runs[i]]
        /\ UNCHANGED <<auditVars, idem, received, excused>>

-----------------------------------------------------------------------------
(* finish.                                                                 *)

\* record_share: the result is released only with its Data Shared record; a
\* failing write faults the store.
RecordShare(k) ==
    /\ At(k, "share")
    /\ \/ /\ ~fault /\ ~blocked
          /\ share' = [share EXCEPT ![k] = "prepared"]
          /\ calls' = [calls EXCEPT ![k].pc = "audit", ![k].data = TRUE]
          /\ UNCHANGED fault
       \/ /\ fault' = (fault \/ ~blocked)
          /\ Goto(k, "audit")
          /\ UNCHANGED share
    /\ UNCHANGED <<event, idem, queue, batch, blocked, historyVars>>

\* complete (of an intent) or record (of another call): waits while the queue
\* is full.
QueueOutcome(k) ==
    /\ At(k, "audit")
    /\ Len(queue) < MaxQueue
    /\ queue' = Append(queue, Op("outcome", k, calls[k].result))
    /\ Goto(k, "finish")
    /\ UNCHANGED <<event, share, batch, fault, blocked, idem, historyVars>>

\* idem_finish, unless the call failed.  Its own failure is ignored: the key
\* stays in progress.
IdemFinish(k) ==
    LET c == calls[k]
    IN  /\ At(k, "finish")
        /\ Goto(k, "reply")
        /\ \/ /\ c.key # None /\ c.result # "error" /\ idem[c.key].status # "none"
              /\ idem' = [idem EXCEPT ![c.key].status = "done", ![c.key].from = c.from]
           \/ UNCHANGED idem
        /\ UNCHANGED <<auditVars, historyVars>>

\* TrackedBody: the response leaves or the connection breaks; the transmission
\* is queued unless the queue is full.
Deliver(k, transmission) ==
    /\ At(k, "reply")
    /\ calls' = [calls EXCEPT ![k].pc = "done", ![k].data = FALSE]
    /\ received' = IF calls[k].data THEN received \cup {k} ELSE received
    /\ queue' = IF calls[k].data /\ Len(queue) < MaxQueue
                THEN Append(queue, Op("transmission", k, transmission)) ELSE queue
    /\ UNCHANGED <<event, share, batch, fault, blocked, idem, ran, runs, excused>>

-----------------------------------------------------------------------------
(* The audit store.                                                        *)

\* The writer takes what is queued, up to a full batch.
TakeBatch ==
    LET n == IF Len(queue) < MaxBatch THEN Len(queue) ELSE MaxBatch
    IN  /\ batch = <<>> /\ queue # <<>>
        /\ batch' = SubSeq(queue, 1, n)
        /\ queue' = SubSeq(queue, n + 1, Len(queue))
        /\ UNCHANGED <<calls, event, share, fault, blocked, idem, historyVars>>

\* What the operations of one kind in the batch make of a column.
Applied(kind, old) ==
    [k \in Calls |->
        LET hits == {i \in DOMAIN batch : batch[i].kind = kind /\ batch[i].call = k}
        IN  IF hits = {} THEN old[k] ELSE batch[CHOOSE i \in hits : TRUE].status]

\* Mutant: a batch that could not be written is only logged.
FailBatchSilently ==
    /\ batch # <<>>
    /\ batch' = <<>>
    /\ UNCHANGED <<calls, event, share, queue, fault, blocked, idem, historyVars>>

\* One transaction for the whole batch; when it fails all of it is lost and the
\* store has a fault.
CommitBatch ==
    /\ batch # <<>>
    /\ batch' = <<>>
    /\ event' = Applied("outcome", event)
    /\ share' = Applied("transmission", share)
    /\ UNCHANGED <<calls, queue, fault, blocked, idem, historyVars>>

FailBatch ==
    /\ batch # <<>>
    /\ batch' = <<>>
    /\ fault' = TRUE
    /\ UNCHANGED <<calls, event, share, queue, blocked, idem, historyVars>>

\* Calls whose outcome was queued and is neither stored nor about to be.
Queued(k) ==
    \/ \E i \in DOMAIN queue : queue[i].kind = "outcome" /\ queue[i].call = k
    \/ \E i \in DOMAIN batch : batch[i].kind = "outcome" /\ batch[i].call = k

Lost == {k \in Calls : /\ calls[k].pc \in {"finish", "reply", "done"}
                       /\ calls[k].result # "none"
                       /\ event[k] \in {"none", "intent"}
                       /\ ~Queued(k)}

\* clear_fault of the local user, who has been shown it.
ClearFault ==
    /\ fault
    /\ fault' = FALSE
    /\ excused' = excused \cup Lost
    /\ UNCHANGED <<calls, event, share, queue, batch, blocked, idem, ran, runs, received>>

\* run_retention: the reserved records do, or do not, fit the configured size.
\* The old rows it deletes, with a boundary row in their place, are not modelled.
RunRetention(b) ==
    /\ b # blocked \/ (b /\ ~fault)
    /\ blocked' = b
    /\ fault' = (fault \/ b)
    /\ UNCHANGED <<calls, event, share, queue, batch, idem, historyVars>>

-----------------------------------------------------------------------------
\* A key is forgotten after a day; no call takes that long.
ExpireKey(i) ==
    /\ idem[i].status # "none"
    /\ \A k \in Calls : calls[k].key = i => calls[k].pc \in {"idle", "intent", "idem", "done"}
    /\ idem' = [idem EXCEPT ![i] = NoKey]
    /\ runs' = [runs EXCEPT ![i] = 0]
    /\ UNCHANGED <<calls, auditVars, ran, received, excused>>

\* Mutant: recovery marks every audit row.
UnknownAll(status) == IF status = "none" THEN status ELSE "outcome_unknown"

\* mark_incomplete_unknown.
Unknown(status) == IF status = "intent" THEN "outcome_unknown" ELSE status

\* The process stops at any point and recovers: the queue, the calls in flight
\* and the fault state are lost.
Restart ==
    /\ calls' = [k \in Calls |-> IF At(k, "idle") THEN calls[k]
                                 ELSE [calls[k] EXCEPT !.pc = "done", !.data = FALSE]]
    /\ event' = [k \in Calls |-> Unknown(event[k])]
    /\ share' = [k \in Calls |-> IF share[k] = "prepared" THEN "interrupted" ELSE share[k]]
    /\ queue' = <<>> /\ batch' = <<>>
    /\ fault' = FALSE /\ blocked' = FALSE
    /\ excused' = excused \cup {k \in Calls : ~At(k, "idle") /\ event[k] = "none"}
    /\ UNCHANGED <<idem, ran, runs, received>>

-----------------------------------------------------------------------------
Step(k) ==
    \/ Intent(k) \/ IdemBegin(k) \/ (\E result \in Results : RunHandler(k, result))
    \/ RecordShare(k) \/ QueueOutcome(k) \/ IdemFinish(k)
    \/ \E transmission \in Transmissions : Deliver(k, transmission)

Writer == TakeBatch \/ CommitBatch \/ FailBatch

Next ==
    \/ \E k \in Calls :
         \/ Step(k)
         \/ \E mutating \in BOOLEAN, key \in Keys \cup {None}, digest \in Digests \cup {None} :
              Begin(k, mutating, key, digest)
    \/ Writer \/ ClearFault \/ Restart
    \/ \E b \in BOOLEAN : RunRetention(b)
    \/ \E i \in Keys : ExpireKey(i)

Spec == Init /\ [][Next]_vars

-----------------------------------------------------------------------------
(* Properties.                                                             *)

OpType == [kind : {"outcome", "transmission"}, call : Calls,
           status : Results \cup Transmissions]

\* Every variable has its type.
TypeOK ==
    /\ calls \in [Calls -> [pc : {"idle", "intent", "idem", "handler", "share", "audit",
                                  "finish", "reply", "done"},
                            mutating : BOOLEAN, key : Keys \cup {None},
                            digest : Digests \cup {None}, result : Results \cup {"none"},
                            from : Calls \cup {None}, data : BOOLEAN]]
    /\ event \in [Calls -> Results \cup {"none", "intent", "outcome_unknown"}]
    /\ share \in [Calls -> {"none", "prepared"} \cup Transmissions]
    /\ idem \in [Keys -> [status : {"none", "in_progress", "done"},
                          digest : Digests \cup {None}, from : Calls \cup {None}]]
    /\ queue \in Seq(OpType) /\ Len(queue) <= MaxQueue
    /\ batch \in Seq(OpType) /\ Len(batch) <= MaxBatch
    /\ fault \in BOOLEAN /\ blocked \in BOOLEAN
    /\ ran \in SUBSET Calls /\ runs \in [Keys -> Nat]
    /\ received \in SUBSET Calls /\ excused \in SUBSET Calls

\* However calls with one key race, fail and are repeated after a restart, the
\* handler runs at most once while the key is remembered ("never automatically
\* replay the side effect", plan.md).
KeyOnce == \A i \in Keys : runs[i] <= 1

\* The result a keyed call returns is that of a run with the same key and the
\* same arguments, its own or an earlier one.
ReplayFaithful ==
    \A k \in Calls : calls[k].from # None =>
        LET j == calls[k].from
        IN  /\ j \in ran
            /\ j # k => /\ calls[j].key = calls[k].key
                        /\ calls[j].digest = calls[k].digest

\* Records come before what they record: a mutation has run only with a
\* durable audit row, and data has left only with a Data Shared row.
RecordedFirst ==
    /\ \A k \in ran : calls[k].mutating => event[k] # "none"
    /\ \A k \in received : share[k] # "none"

\* An audit row never claims another outcome than the call had, and an outcome
\* once stored, or given up as unknown, stays as it is.
OutcomeHonest ==
    /\ [](\A k \in Calls : event[k] \in Results => event[k] = calls[k].result)
    /\ [][\A k \in Calls : event[k] \in Results \cup {"outcome_unknown"} =>
             event'[k] = event[k]]_vars

\* A record that is lost is not lost silently: the store has a fault that the
\* user has not cleared since, unless the process was restarted.
LossIsVisible == fault \/ Lost \subseteq excused
=============================================================================
