--------------------------- MODULE PipelineProofs ---------------------------
(***************************************************************************)
(* Proofs about module Pipeline, for any calls, keys, digests and sizes of *)
(* the audit queue and of a batch.                                         *)
(*                                                                         *)
(* The properties need what the progress of a call says about its record   *)
(* and its rows (ProgressInv), what an operation on its way to the audit   *)
(* store says about its call (OpInv), which calls hold a key that is       *)
(* running or finished (KeyInv), and whose result a finished key keeps     *)
(* (ReplayInv).                                                            *)
(***************************************************************************)
EXTENDS Pipeline, SequenceTheorems, TLAPS

Before == {"idle", "intent", "idem", "handler"}
Middle == {"share", "audit", "finish"}
After  == {"finish", "reply", "done"}

\* A call has a result from the handler or the replay on; it has its audit row
\* from the intent on if it mutates, and its Data Shared row while it carries
\* data; its outcome is stored only when it has been queued, and is unknown
\* only after a restart.
ProgressOK(k) ==
    LET c == calls[k]
    IN  /\ c.pc \in Before => c.result = "none" /\ c.from = None /\ k \notin ran
        /\ c.pc \in Middle => c.result \in Results
        /\ c.pc \in {"idle", "intent"} => event[k] = "none"
        /\ c.pc = "idem" => c.key # None
        /\ (c.mutating /\ c.pc \in {"idem", "handler"}) => event[k] # "none"
        /\ (c.mutating /\ k \in ran) => event[k] # "none"
        /\ c.data => share[k] # "none"
        /\ k \in received => share[k] # "none"
        /\ event[k] \in Results => c.pc \in After /\ event[k] = c.result
        /\ event[k] = "outcome_unknown" => c.pc = "done"

ProgressInv == \A k \in Calls : ProgressOK(k)

\* An outcome on its way to the store is the one its call had, and no restart
\* has declared it unknown; a transmission is one of the three.
OpOK(op) ==
    /\ op.kind = "outcome" => /\ calls[op.call].pc \in After
                              /\ op.status \in Results
                              /\ op.status = calls[op.call].result
                              /\ event[op.call] # "outcome_unknown"
    /\ op.kind = "transmission" => op.status \in Transmissions

OpInv == /\ \A i \in DOMAIN queue : OpOK(queue[i])
         /\ \A i \in DOMAIN batch : OpOK(batch[i])

\* A key that is not stored has not run.  The call that is in the handler with
\* a key is the only one, and the key has not run before; a call that is past
\* the handler or the replay has seen its key run or finished.
KeyInv ==
    /\ \A i \in Keys : runs[i] <= 1 /\ (idem[i].status = "none" => runs[i] = 0)
    /\ \A k \in Calls : (At(k, "handler") /\ calls[k].key # None) =>
          /\ idem[calls[k].key].status = "in_progress"
          /\ runs[calls[k].key] = 0
    /\ \A k, j \in Calls : (At(k, "handler") /\ At(j, "handler") /\ calls[k].key # None
                            /\ calls[j].key = calls[k].key) => j = k
    /\ \A k \in Calls : (calls[k].pc \in Middle /\ calls[k].key # None) =>
          \/ runs[calls[k].key] = 1
          \/ idem[calls[k].key].status = "done"

\* A key keeps the result of a run with this key and the arguments stored with
\* it; a call between the key's transaction and idem_finish has these arguments.
ReplayInv ==
    /\ \A i \in Keys : idem[i].from # None =>
          /\ idem[i].from \in ran
          /\ calls[idem[i].from].key = i
          /\ calls[idem[i].from].digest = idem[i].digest
    /\ \A k \in Calls : (calls[k].pc \in Middle \cup {"handler"} /\ calls[k].key # None) =>
          /\ idem[calls[k].key].status # "none"
          /\ idem[calls[k].key].digest = calls[k].digest

\* The inductive invariant.
IInv == TypeOK /\ ProgressInv /\ OpInv /\ KeyInv /\ ReplayInv /\ ReplayFaithful /\ LossIsVisible

Pcs == {"idle", "intent", "idem", "handler", "share", "audit", "finish", "reply", "done"}

CallType == [pc : Pcs, mutating : BOOLEAN, key : Keys \cup {None},
             digest : Digests \cup {None}, result : Results \cup {"none"},
             from : Calls \cup {None}, data : BOOLEAN]

\* A step of call k that gives it these five fields and leaves everything else
\* about the calls alone.
Moves(k, p, key, result, from, data) ==
    /\ calls' \in [Calls -> CallType]
    /\ \A j \in Calls \ {k} : calls'[j] = calls[j]
    /\ calls'[k].pc = p
    /\ calls'[k].mutating = calls[k].mutating
    /\ calls'[k].key = key
    /\ calls'[k].digest = calls[k].digest
    /\ calls'[k].result = result
    /\ calls'[k].from = from
    /\ calls'[k].data = data


-----------------------------------------------------------------------------
(* Facts about the sequences of the audit store.                           *)

\* Appending keeps every operation and adds one.
LEMMA AppendFacts ==
    ASSUME NEW S, NEW q \in Seq(S), NEW e \in S
    PROVE  /\ Append(q, e) \in Seq(S)
           /\ Len(Append(q, e)) = Len(q) + 1
           /\ \A i \in DOMAIN q : i \in DOMAIN Append(q, e) /\ Append(q, e)[i] = q[i]
           /\ Len(q) + 1 \in DOMAIN Append(q, e)
           /\ Append(q, e)[Len(q) + 1] = e
           /\ \A i \in DOMAIN Append(q, e) :
                 (i \in DOMAIN q /\ Append(q, e)[i] = q[i]) \/ Append(q, e)[i] = e
  BY AppendProperties

\* TakeBatch cuts the queue in two: what it takes is at most a batch, and every
\* operation is in the batch or still queued.
LEMMA CutFacts ==
    ASSUME NEW S, NEW q \in Seq(S), NEW n \in 0..Len(q)
    PROVE  /\ SubSeq(q, 1, n) \in Seq(S)
           /\ Len(SubSeq(q, 1, n)) = n
           /\ SubSeq(q, n + 1, Len(q)) \in Seq(S)
           /\ Len(SubSeq(q, n + 1, Len(q))) = Len(q) - n
           /\ \A i \in DOMAIN SubSeq(q, 1, n) :
                 i \in DOMAIN q /\ SubSeq(q, 1, n)[i] = q[i]
           /\ \A i \in DOMAIN SubSeq(q, n + 1, Len(q)) :
                 i + n \in DOMAIN q /\ SubSeq(q, n + 1, Len(q))[i] = q[i + n]
           /\ \A i \in DOMAIN q :
                 \/ i \in DOMAIN SubSeq(q, 1, n) /\ SubSeq(q, 1, n)[i] = q[i]
                 \/ /\ i - n \in DOMAIN SubSeq(q, n + 1, Len(q))
                    /\ SubSeq(q, n + 1, Len(q))[i - n] = q[i]
<1> DEFINE a == SubSeq(q, 1, n)
           z == SubSeq(q, n + 1, Len(q))
<1>1. /\ Len(q) \in Nat /\ DOMAIN q = 1..Len(q) /\ n \in Nat /\ n <= Len(q)
      /\ \A i \in 1..Len(q) : q[i] \in S
  BY LenProperties
<1>2. a \in Seq(S) /\ Len(a) = n /\ \A i \in 1..n : a[i] = q[i]
  BY <1>1, SubSeqProperties
<1>3. z \in Seq(S) /\ Len(z) = Len(q) - n /\ \A i \in 1..(Len(q) - n) : z[i] = q[n + i]
  <2> DEFINE m == n + 1
             l == Len(q)
  <2>1. m \in Int /\ l \in Int /\ \A i \in m..l : q[i] \in S
    BY <1>1
  <2>2. /\ SubSeq(q, m, l) \in Seq(S)
        /\ Len(SubSeq(q, m, l)) = IF m <= l THEN l - m + 1 ELSE 0
        /\ \A i \in 1..(l - m + 1) : SubSeq(q, m, l)[i] = q[m + i - 1]
    BY <2>1, SubSeqProperties
  <2>3. \A i \in 1..(Len(q) - n) : i \in 1..(l - m + 1) /\ m + i - 1 = n + i
    BY <1>1
  <2>4. \A x, y \in Nat : y <= x =>
            (IF y + 1 <= x THEN x - (y + 1) + 1 ELSE 0) = x - y
    OBVIOUS
  <2>5. Len(z) = Len(q) - n
    BY <1>1, <2>2, <2>4
  <2> QED
    BY <2>2, <2>3, <2>5
<1>4. DOMAIN a = 1..n /\ DOMAIN z = 1..(Len(q) - n)
  BY <1>2, <1>3, LenProperties
<1> HIDE DEF a, z
<1>5. \A i \in DOMAIN a : i \in DOMAIN q /\ a[i] = q[i]
  BY <1>1, <1>2, <1>4
<1>6. \A i \in DOMAIN z : i + n \in DOMAIN q /\ z[i] = q[i + n]
  BY <1>1, <1>3, <1>4
<1>7. ASSUME NEW i \in DOMAIN q
      PROVE  \/ i \in DOMAIN a /\ a[i] = q[i]
             \/ i - n \in DOMAIN z /\ z[i - n] = q[i]
  <2>1. CASE i <= n
    BY <1>1, <1>2, <1>4, <2>1
  <2>2. CASE i > n
    <3>1. i - n \in 1..(Len(q) - n) /\ n + (i - n) = i
      BY <1>1, <2>2
    <3> QED
      BY <1>3, <1>4, <3>1
  <2> QED
    BY <1>1, <2>1, <2>2
<1> QED
  BY <1>2, <1>3, <1>5, <1>6, <1>7 DEF a, z


\* A step that replaces the record of call k by one with the same arguments.
LEMMA Put ==
    ASSUME NEW k \in Calls, calls \in [Calls -> CallType], NEW c \in CallType,
           calls' = [calls EXCEPT ![k] = c],
           c.mutating = calls[k].mutating, c.digest = calls[k].digest
    PROVE  Moves(k, c.pc, c.key, c.result, c.from, c.data)
<1>1. /\ calls'[k] = c
      /\ calls' \in [Calls -> CallType]
      /\ \A j \in Calls \ {k} : calls'[j] = calls[j]
  OBVIOUS
<1> QED
  BY <1>1 DEF Moves

\* A step that only moves the call on.
LEMMA GotoMoves ==
    ASSUME NEW k \in Calls, calls \in [Calls -> CallType], NEW p \in Pcs,
           calls' = [calls EXCEPT ![k].pc = p]
    PROVE  Moves(k, p, calls[k].key, calls[k].result, calls[k].from, calls[k].data)
<1> DEFINE c == [calls[k] EXCEPT !.pc = p]
<1>1. calls[k] \in CallType
  OBVIOUS
<1>2. /\ c \in CallType
      /\ c.pc = p /\ c.key = calls[k].key /\ c.result = calls[k].result
      /\ c.from = calls[k].from /\ c.data = calls[k].data
      /\ c.mutating = calls[k].mutating /\ c.digest = calls[k].digest
  BY <1>1 DEF CallType, Pcs
<1>3. calls' = [calls EXCEPT ![k] = c]
  OBVIOUS
<1> HIDE DEF c
<1>4. Moves(k, c.pc, c.key, c.result, c.from, c.data)
  BY <1>2, <1>3, Put
<1> QED
  BY <1>2, <1>4

\* A step that gives the call a result.
LEMMA ResultMoves ==
    ASSUME NEW k \in Calls, calls \in [Calls -> CallType], NEW p \in Pcs,
           NEW r \in Results, NEW f \in Calls \cup {None},
           calls' = [calls EXCEPT ![k].pc = p, ![k].result = r, ![k].from = f]
    PROVE  Moves(k, p, calls[k].key, r, f, calls[k].data)
<1> DEFINE c == [calls[k] EXCEPT !.pc = p, !.result = r, !.from = f]
<1>1. calls[k] \in CallType
  OBVIOUS
<1>2. /\ c \in CallType
      /\ c.pc = p /\ c.key = calls[k].key /\ c.result = r /\ c.from = f /\ c.data = calls[k].data
      /\ c.mutating = calls[k].mutating /\ c.digest = calls[k].digest
  BY <1>1, ZenonT(40) DEF CallType, Pcs
<1>3. calls' = [calls EXCEPT ![k] = c]
  OBVIOUS
<1> HIDE DEF c
<1>4. Moves(k, c.pc, c.key, c.result, c.from, c.data)
  BY <1>2, <1>3, Put
<1> QED
  BY <1>2, <1>4

\* A step that refuses the call and makes it forget its key.
LEMMA RefusalMoves ==
    ASSUME NEW k \in Calls, calls \in [Calls -> CallType], NEW p \in Pcs, NEW r \in Results,
           calls' = [calls EXCEPT ![k].pc = p, ![k].result = r, ![k].key = None]
    PROVE  Moves(k, p, None, r, calls[k].from, calls[k].data)
<1> DEFINE c == [calls[k] EXCEPT !.pc = p, !.result = r, !.key = None]
<1>1. calls[k] \in CallType
  OBVIOUS
<1>2. /\ c \in CallType
      /\ c.pc = p /\ c.key = None /\ c.result = r
      /\ c.from = calls[k].from /\ c.data = calls[k].data
      /\ c.mutating = calls[k].mutating /\ c.digest = calls[k].digest
  BY <1>1 DEF CallType, Pcs
<1>3. calls' = [calls EXCEPT ![k] = c]
  OBVIOUS
<1> HIDE DEF c
<1>4. Moves(k, c.pc, c.key, c.result, c.from, c.data)
  BY <1>2, <1>3, Put
<1> QED
  BY <1>2, <1>4

\* A step that attaches the data of the result, or lets it go.
LEMMA DataMoves ==
    ASSUME NEW k \in Calls, calls \in [Calls -> CallType], NEW p \in Pcs, NEW d \in BOOLEAN,
           calls' = [calls EXCEPT ![k].pc = p, ![k].data = d]
    PROVE  Moves(k, p, calls[k].key, calls[k].result, calls[k].from, d)
<1> DEFINE c == [calls[k] EXCEPT !.pc = p, !.data = d]
<1>1. calls[k] \in CallType
  OBVIOUS
<1>2. /\ c \in CallType
      /\ c.pc = p /\ c.key = calls[k].key /\ c.result = calls[k].result
      /\ c.from = calls[k].from /\ c.data = d
      /\ c.mutating = calls[k].mutating /\ c.digest = calls[k].digest
  BY <1>1, ZenonT(40) DEF CallType, Pcs
<1>3. calls' = [calls EXCEPT ![k] = c]
  OBVIOUS
<1> HIDE DEF c
<1>4. Moves(k, c.pc, c.key, c.result, c.from, c.data)
  BY <1>2, <1>3, Put
<1> QED
  BY <1>2, <1>4

-----------------------------------------------------------------------------
(* Steps that leave the keys alone.                                        *)

\* Call j keeps its key and its arguments, or has not run and returns nothing;
\* with a key it does not enter the handler or what follows it.
QuietCall(j) ==
    /\ calls'[j].from = calls[j].from
    /\ \/ calls'[j].key = calls[j].key /\ calls'[j].digest = calls[j].digest
       \/ j \notin ran /\ calls[j].from = None
    /\ (calls'[j].key # None /\ calls'[j].pc \in Middle \cup {"handler"}) =>
          /\ calls'[j].key = calls[j].key /\ calls'[j].digest = calls[j].digest
          /\ calls[j].pc \in Middle \cup {"handler"}
          /\ calls'[j].pc = "handler" <=> calls[j].pc = "handler"

\* Such a step keeps what is known of the keys and of the results they keep.
LEMMA QuietKeys ==
    ASSUME IInv, TypeOK', UNCHANGED <<idem, runs, ran>>, \A j \in Calls : QuietCall(j)
    PROVE  KeyInv' /\ ReplayInv' /\ ReplayFaithful'
<1>1. /\ calls \in [Calls -> CallType] /\ calls' \in [Calls -> CallType]
      /\ idem' = idem /\ runs' = runs /\ ran' = ran /\ ran \subseteq Calls
      /\ None \notin Calls
  BY NoneAssumption DEF IInv, TypeOK, CallType, Pcs
<1>2. KeyInv'
  BY <1>1 DEF IInv, KeyInv, QuietCall, At, Middle
<1>3. ReplayInv'
  <2>1. ASSUME NEW i \in Keys, idem[i].from # None
        PROVE  /\ idem[i].from \in ran
               /\ calls'[idem[i].from].key = i
               /\ calls'[idem[i].from].digest = idem[i].digest
    <3>1. /\ idem[i].from \in ran
          /\ calls[idem[i].from].key = i
          /\ calls[idem[i].from].digest = idem[i].digest
      BY <2>1 DEF IInv, ReplayInv
    <3> QED
      BY <1>1, <3>1 DEF QuietCall
  <2>2. ASSUME NEW j \in Calls, calls'[j].pc \in Middle \cup {"handler"}, calls'[j].key # None
        PROVE  /\ idem[calls'[j].key].status # "none"
               /\ idem[calls'[j].key].digest = calls'[j].digest
    BY <2>2 DEF IInv, ReplayInv, QuietCall
  <2> QED
    BY <1>1, <2>1, <2>2 DEF ReplayInv
<1>4. ReplayFaithful'
  <2> SUFFICES ASSUME NEW j \in Calls, calls'[j].from # None
               PROVE  /\ calls'[j].from \in ran
                      /\ calls'[j].from # j =>
                            /\ calls'[calls'[j].from].key = calls'[j].key
                            /\ calls'[calls'[j].from].digest = calls'[j].digest
    BY <1>1 DEF ReplayFaithful
  <2>1. calls'[j].from = calls[j].from /\ calls[j].from \in ran
    BY DEF IInv, ReplayFaithful, QuietCall
  <2>2. calls[j].from # j => /\ calls[calls[j].from].key = calls[j].key
                             /\ calls[calls[j].from].digest = calls[j].digest
    BY <2>1 DEF IInv, ReplayFaithful
  <2> QED
    BY <1>1, <2>1, <2>2 DEF QuietCall
<1> QED
  BY <1>2, <1>3, <1>4

\* An operation on its way stays right when its call keeps its result and no
\* restart intervenes.
LEMMA OpKeeps ==
    ASSUME NEW op \in OpType, OpOK(op),
           \A j \in Calls : calls[j].pc \in After =>
               calls'[j].pc \in After /\ calls'[j].result = calls[j].result,
           \A j \in Calls : event'[j] = "outcome_unknown" => event[j] = "outcome_unknown"
    PROVE  OpOK(op)'
<1>1. op.call \in Calls
  BY DEF OpType
<1> QED
  BY <1>1 DEF OpOK

\* The same for all of them, when nothing is queued.
LEMMA OpsKeep ==
    ASSUME TypeOK, OpInv, UNCHANGED <<queue, batch>>,
           \A j \in Calls : calls[j].pc \in After =>
               calls'[j].pc \in After /\ calls'[j].result = calls[j].result,
           \A j \in Calls : event'[j] = "outcome_unknown" => event[j] = "outcome_unknown"
    PROVE  OpInv'
<1>1. /\ \A i \in DOMAIN queue : queue[i] \in OpType
      /\ \A i \in DOMAIN batch : batch[i] \in OpType
  BY LenProperties DEF TypeOK
<1>2. \A op \in OpType : OpOK(op) => OpOK(op)'
  BY OpKeeps
<1> QED
  BY <1>1, <1>2 DEF OpInv

\* A loss stays visible when no fault is cleared, nobody leaves the excused
\* ones and a call newly lost is excused.
LEMMA LossKeeps ==
    ASSUME LossIsVisible, fault => fault', excused \subseteq excused',
           \A j \in Calls : j \in Lost' => j \in Lost \/ fault' \/ j \in excused'
    PROVE  LossIsVisible'
  BY DEF LossIsVisible, Lost
-----------------------------------------------------------------------------
(* One lemma per action of a call.                                         *)

\* The parts of TypeOK that the leaves below use.
LEMMA Types ==
    ASSUME TypeOK
    PROVE  /\ calls \in [Calls -> CallType]
           /\ event \in [Calls -> Results \cup {"none", "intent", "outcome_unknown"}]
           /\ share \in [Calls -> {"none", "prepared"} \cup Transmissions]
           /\ queue \in Seq(OpType) /\ Len(queue) \in Nat /\ DOMAIN queue = 1..Len(queue)
           /\ batch \in Seq(OpType) /\ Len(batch) \in Nat /\ DOMAIN batch = 1..Len(batch)
           /\ \A i \in DOMAIN queue : queue[i] \in OpType
           /\ \A i \in DOMAIN batch : batch[i] \in OpType
           /\ None \notin Calls /\ None \notin Keys
           /\ ran \subseteq Calls /\ received \subseteq Calls /\ excused \subseteq Calls
  BY NoneAssumption, LenProperties DEF TypeOK, CallType, Pcs

\* A new call has no result and is not in the handler with a key.
LEMMA BeginStep ==
    ASSUME IInv, NEW k \in Calls, NEW m \in BOOLEAN, NEW i \in Keys \cup {None},
           NEW d \in Digests \cup {None}
    PROVE  Begin(k, m, i, d) => IInv'
<1>1. SUFFICES ASSUME Begin(k, m, i, d) PROVE IInv'
  OBVIOUS
<1> DEFINE p == IF m THEN "intent" ELSE "handler"
           c == [NoCall EXCEPT !.pc = p, !.mutating = m, !.key = i, !.digest = d]
<1>2. calls' = [calls EXCEPT ![k] = c] /\ UNCHANGED <<auditVars, idem, historyVars>>
  BY <1>1 DEF Begin
<1>3. p \in Pcs /\ p \in {"intent", "handler"} /\ (p = "handler" => ~m /\ i = None)
  BY <1>1 DEF Begin, Pcs
<1> HIDE DEF p
<1>4. /\ c \in CallType
      /\ c.pc = p /\ c.mutating = m /\ c.key = i /\ c.result = "none"
      /\ c.from = None /\ c.data = FALSE
  <2>1. NoCall \in CallType
    BY DEF NoCall, CallType, Pcs
  <2>2. c \in CallType
    BY <1>3, <2>1 DEF CallType
  <2>3. /\ c.pc = p /\ c.mutating = m /\ c.key = i /\ c.result = "none"
        /\ c.from = None /\ c.data = FALSE
    BY DEF NoCall
  <2> QED
    BY <2>2, <2>3
<1>5. calls[k].pc = "idle"
  BY <1>1 DEF Begin, At
<1> HIDE DEF c
<1>6. /\ calls' \in [Calls -> CallType] /\ calls'[k] = c
      /\ \A j \in Calls \ {k} : calls'[j] = calls[j]
  BY <1>2, <1>4 DEF IInv, TypeOK, CallType, Pcs
<1>7. TypeOK'
  BY <1>2, <1>6 DEF IInv, TypeOK, auditVars, historyVars, CallType, Pcs
<1>8. calls[k].from = None /\ k \notin ran /\ event[k] = "none" /\ calls[k].result = "none"
      /\ (k \in received => share[k] # "none")
  BY <1>5 DEF IInv, ProgressInv, ProgressOK, Before
<1>9. ProgressInv'
  <2>1. ProgressOK(k)'
    BY <1>2, <1>3, <1>4, <1>6, <1>8
       DEF ProgressOK, Before, Middle, After, Results, auditVars, historyVars
  <2> QED
    BY <1>2, <1>6, <2>1 DEF IInv, ProgressInv, ProgressOK, auditVars, historyVars
<1>10. OpInv'
  BY <1>2, <1>5, <1>6, OpsKeep DEF IInv, After, auditVars
<1>11. KeyInv' /\ ReplayInv' /\ ReplayFaithful'
  <2>1. \A j \in Calls : QuietCall(j)
    BY <1>3, <1>4, <1>6, <1>8 DEF QuietCall, Middle
  <2> QED
    BY <1>2, <1>7, <2>1, QuietKeys DEF historyVars
<1>12. LossIsVisible'
  <2>1. \A j \in Calls : j \in Lost' => j \in Lost
    BY <1>2, <1>4, <1>6 DEF Lost, Queued, auditVars
  <2> QED
    BY <1>2, <2>1, LossKeeps DEF IInv, auditVars, historyVars
<1> QED
  BY <1>7, <1>9, <1>10, <1>11, <1>12 DEF IInv

\* AuditStore::intent gives the call its audit row, or faults the store and refuses it.
LEMMA IntentStep ==
    ASSUME IInv, NEW k \in Calls
    PROVE  Intent(k) => IInv'
<1>1. SUFFICES ASSUME Intent(k) PROVE IInv'
  OBVIOUS
<1> DEFINE c == calls[k]
<1>2. /\ calls[k].pc = "intent" /\ TypeOK
      /\ UNCHANGED <<share, idem, queue, batch, blocked, ran, runs, received, excused>>
  BY <1>1 DEF Intent, At, IInv, historyVars
<1>3. /\ c.result = "none" /\ c.from = None /\ k \notin ran /\ event[k] = "none"
      /\ (k \in received => share[k] # "none") /\ (c.data => share[k] # "none")
  BY <1>2 DEF IInv, ProgressInv, ProgressOK, Before
<1>4. PICK p \in {"idem", "handler", "reply"} :
        /\ Moves(k, p, c.key, c.result, c.from, c.data)
        /\ \/ /\ p = IF c.key = None THEN "handler" ELSE "idem"
              /\ event' = [event EXCEPT ![k] = "intent"] /\ fault' = fault
           \/ p = "reply" /\ event' = event /\ fault' = TRUE
  <2>1. \A p \in Pcs : Goto(k, p) => Moves(k, p, c.key, c.result, c.from, c.data)
    BY <1>2, Types, GotoMoves DEF Goto
  <2>2. {"idem", "handler", "reply"} \subseteq Pcs
    BY DEF Pcs
  <2> QED
    BY <1>1, <2>1, <2>2 DEF Intent
<1>5. /\ calls' \in [Calls -> CallType]
      /\ \A j \in Calls \ {k} : calls'[j] = calls[j] /\ event'[j] = event[j]
      /\ event'[k] \in {"none", "intent"} /\ (event'[k] = "none" => p = "reply")
      /\ event' \in [Calls -> Results \cup {"none", "intent", "outcome_unknown"}]
  BY <1>2, <1>3, <1>4, Types DEF Moves
<1>6. TypeOK'
  BY <1>2, <1>4, <1>5 DEF TypeOK, CallType, Pcs
<1>7. ProgressInv'
  <2>1. ProgressOK(k)'
    BY <1>2, <1>3, <1>4, <1>5 DEF ProgressOK, Before, Middle, After, Moves, Results
  <2> QED
    BY <1>2, <1>5, <2>1 DEF IInv, ProgressInv, ProgressOK
<1>8. OpInv'
  BY <1>2, <1>5, OpsKeep DEF IInv, After
<1>9. KeyInv' /\ ReplayInv' /\ ReplayFaithful'
  <2>1. \A j \in Calls : QuietCall(j)
    BY <1>3, <1>4, <1>5 DEF QuietCall, Middle, Moves
  <2> QED
    BY <1>2, <1>6, <2>1, QuietKeys
<1>10. LossIsVisible'
  <2>1. \A j \in Calls : j \in Lost' => j \in Lost
    BY <1>2, <1>3, <1>4, <1>5 DEF Lost, Queued, Moves
  <2> QED
    BY <1>2, <1>4, <2>1, LossKeeps DEF IInv
<1> QED
  BY <1>6, <1>7, <1>8, <1>9, <1>10 DEF IInv

\* idem_begin: a key that is not stored is nobody's, so the call that stores it is
\* alone in the handler; a replay takes what the key keeps; a refusal forgets the key.
LEMMA IdemBeginStep ==
    ASSUME IInv, NEW k \in Calls
    PROVE  IdemBegin(k) => IInv'
<1>1. SUFFICES ASSUME IdemBegin(k) PROVE IInv'
  OBVIOUS
<1> DEFINE c == calls[k]
           x == calls[k].key
           row == [status |-> "in_progress", digest |-> c.digest, from |-> None]
<1>2. /\ c.pc = "idem" /\ TypeOK
      /\ UNCHANGED <<event, share, queue, batch, fault, blocked, ran, runs, received, excused>>
  BY <1>1 DEF IdemBegin, At, IInv, auditVars, historyVars
<1>3. /\ c \in CallType /\ c.result = "none" /\ c.from = None /\ k \notin ran /\ x \in Keys
      /\ event[k] \in {"none", "intent"} /\ (c.mutating => event[k] # "none")
      /\ (k \in received => share[k] # "none") /\ (c.data => share[k] # "none")
  <2>1. c \in CallType
    BY <1>2, Types
  <2>2. /\ c.result = "none" /\ c.from = None /\ k \notin ran /\ x # None
        /\ (c.mutating => event[k] # "none") /\ event[k] \notin Results
        /\ event[k] # "outcome_unknown"
        /\ (k \in received => share[k] # "none") /\ (c.data => share[k] # "none")
    BY <1>2 DEF IInv, ProgressInv, ProgressOK, Before, After
  <2> QED
    BY <1>2, <2>1, <2>2, Types DEF CallType
<1>4. PICK p \in {"handler", "share"}, key \in {x, None}, r \in {"none", "ok", "error"},
           f \in Calls \cup {None} :
        /\ Moves(k, p, key, r, f, c.data)
        /\ \/ /\ p = "handler" /\ key = x /\ r = "none" /\ f = None /\ idem[x].status = "none"
              /\ idem' = [idem EXCEPT ![x] = row]
           \/ /\ p = "share" /\ key = x /\ r = "ok" /\ f = idem[x].from /\ idem' = idem
              /\ idem[x].status = "done" /\ idem[x].digest = c.digest
           \/ p = "share" /\ key = None /\ r = "error" /\ f = None /\ idem' = idem
  <2>1. Goto(k, "handler") => Moves(k, "handler", x, "none", None, c.data)
    BY <1>2, <1>3, Types, GotoMoves DEF Goto, Pcs
  <2>2. idem[x].from \in Calls \cup {None} /\ "ok" \in Results /\ "error" \in Results
        /\ "share" \in Pcs
    BY <1>2, <1>3 DEF TypeOK, Results, Pcs
  <2>3. calls' = [calls EXCEPT ![k].pc = "share", ![k].result = "ok", ![k].from = idem[x].from]
           => Moves(k, "share", x, "ok", idem[x].from, c.data)
    BY <1>2, <2>2, Types, ResultMoves
  <2>4. calls' = [calls EXCEPT ![k].pc = "share", ![k].result = "error", ![k].key = None]
           => Moves(k, "share", None, "error", None, c.data)
    BY <1>2, <1>3, <2>2, Types, RefusalMoves
  <2> QED
    BY <1>1, <2>1, <2>2, <2>3, <2>4 DEF IdemBegin
<1>5. /\ calls' \in [Calls -> CallType]
      /\ \A j \in Calls \ {k} : calls'[j] = calls[j]
  BY <1>4 DEF Moves
<1>6. /\ idem' \in [Keys -> [status : {"none", "in_progress", "done"},
                             digest : Digests \cup {None}, from : Calls \cup {None}]]
      /\ \A i \in Keys : i # x => idem'[i] = idem[i]
      /\ \/ idem'[x] = idem[x]
         \/ idem[x].status = "none" /\ idem'[x] = row
  <2> DEFINE RowType == [status : {"none", "in_progress", "done"},
                         digest : Digests \cup {None}, from : Calls \cup {None}]
  <2>1. row \in RowType
    BY <1>3 DEF CallType
  <2>2. idem \in [Keys -> RowType]
    BY <1>2 DEF TypeOK
  <2>3. idem' = idem \/ (idem[x].status = "none" /\ idem' = [idem EXCEPT ![x] = row])
    BY <1>4
  <2> HIDE DEF row, RowType
  <2>4. /\ idem' \in [Keys -> RowType]
        /\ \A i \in Keys : i # x => idem'[i] = idem[i]
        /\ \/ idem'[x] = idem[x]
           \/ idem[x].status = "none" /\ idem'[x] = row
    BY <1>3, <2>1, <2>2, <2>3
  <2> QED
    BY <2>4 DEF RowType
<1>7. TypeOK'
  BY <1>2, <1>5, <1>6 DEF TypeOK, CallType, Pcs
<1>8. ProgressInv'
  <2>1. ProgressOK(k)'
    BY <1>2, <1>3, <1>4, <1>5 DEF ProgressOK, Before, Middle, After, Moves, Results
  <2> QED
    BY <1>2, <1>5, <2>1 DEF IInv, ProgressInv, ProgressOK
<1>9. OpInv'
  BY <1>2, <1>5, OpsKeep DEF IInv, After
<1>10. LossIsVisible'
  <2>1. \A j \in Calls : j \in Lost' => j \in Lost
    BY <1>2, <1>4, <1>5 DEF Lost, Queued, Moves
  <2> QED
    BY <1>2, <2>1, LossKeeps DEF IInv
<1>11. KeyInv' /\ ReplayInv' /\ ReplayFaithful'
  <2>1. CASE p = "share" /\ key = None
    <3>1. \A j \in Calls : QuietCall(j)
      BY <1>3, <1>4, <1>5, <2>1, NoneAssumption DEF QuietCall, Moves
    <3> QED
      BY <1>2, <1>4, <1>7, <2>1, <3>1, QuietKeys
  <2>2. CASE p = "share" /\ key = x
    <3>1. /\ idem' = idem /\ idem[x].status = "done" /\ idem[x].digest = c.digest
          /\ calls'[k].pc = "share" /\ calls'[k].key = x /\ calls'[k].digest = c.digest
          /\ calls'[k].from = idem[x].from
      BY <1>3, <1>4, <2>2, NoneAssumption DEF Moves
    <3>2. KeyInv'
      BY <1>2, <1>5, <3>1 DEF IInv, KeyInv, At, Middle
    <3>3. \A j \in ran : calls'[j] = calls[j]
      BY <1>2, <1>3, <1>5, Types
    <3>4. ReplayInv'
      BY <1>2, <1>5, <3>1, <3>3 DEF IInv, ReplayInv, Middle
    <3>5. ReplayFaithful'
      <4>1. idem[x].from # None => /\ idem[x].from \in ran
                                   /\ calls[idem[x].from].key = x
                                   /\ calls[idem[x].from].digest = c.digest
        BY <1>3, <3>1 DEF IInv, ReplayInv
      <4> QED
        BY <1>2, <1>5, <3>1, <3>3, <4>1 DEF IInv, ReplayFaithful
    <3> QED
      BY <3>2, <3>4, <3>5
  <2>3. CASE p = "handler"
    <3>1. /\ idem[x].status = "none" /\ idem'[x] = row
          /\ calls'[k].pc = "handler" /\ calls'[k].key = x /\ calls'[k].digest = c.digest
          /\ calls'[k].from = None
      BY <1>2, <1>3, <1>4, <2>3 DEF Moves, TypeOK
    <3>2. /\ row.status = "in_progress" /\ row.digest = c.digest /\ row.from = None
      OBVIOUS
    <3> HIDE DEF row
    <3>3. /\ runs[x] = 0
          /\ \A j \in Calls : calls[j].key = x => calls[j].pc \notin Middle \cup {"handler"}
      <4>1. x # None /\ idem[x].status = "none"
        BY <1>3, <3>1, NoneAssumption
      <4> QED
        BY <1>3, <4>1 DEF IInv, KeyInv, ReplayInv, At, Middle
    <3>4. /\ \A j \in Calls \ {k} : calls[j].key # None /\ calls[j].pc \in Middle \cup {"handler"} =>
                calls[j].key \in Keys /\ idem'[calls[j].key] = idem[calls[j].key]
          /\ idem'[x].status = "in_progress" /\ idem'[x].digest = c.digest
          /\ idem'[x].from = None /\ runs' = runs
      BY <1>2, <1>6, <3>1, <3>2, <3>3, Types DEF CallType
    <3>5. KeyInv'
      BY <1>2, <1>3, <1>5, <1>6, <3>1, <3>3, <3>4 DEF IInv, KeyInv, At, Middle
    <3>6. \A j \in ran : calls'[j] = calls[j]
      BY <1>2, <1>3, <1>5, Types
    <3>7. ReplayInv'
      BY <1>2, <1>3, <1>5, <1>6, <3>1, <3>6, <3>4 DEF IInv, ReplayInv, Middle
    <3>8. ReplayFaithful'
      BY <1>2, <1>5, <3>1, <3>6 DEF IInv, ReplayFaithful
    <3> QED
      BY <3>5, <3>7, <3>8
  <2> QED
    BY <1>4, <2>1, <2>2, <2>3
<1> QED
  BY <1>7, <1>8, <1>9, <1>10, <1>11 DEF IInv

\* run_handler: the first run under this key, with the audit row in place.
LEMMA RunHandlerStep ==
    ASSUME IInv, NEW k \in Calls, NEW r \in Results
    PROVE  RunHandler(k, r) => IInv'
<1>1. SUFFICES ASSUME RunHandler(k, r) PROVE IInv'
  OBVIOUS
<1> DEFINE c == calls[k]
           x == calls[k].key
<1>2. /\ c.pc = "handler" /\ TypeOK /\ ran' = ran \cup {k}
      /\ runs' = [i \in Keys |-> IF i = x THEN runs[i] + 1 ELSE runs[i]]
      /\ UNCHANGED <<event, share, queue, batch, fault, blocked, idem, received, excused>>
  BY <1>1 DEF RunHandler, At, IInv, auditVars
<1>3. /\ c.result = "none" /\ c.from = None /\ k \notin ran
      /\ (c.mutating => event[k] # "none") /\ event[k] \notin Results
      /\ event[k] # "outcome_unknown"
      /\ (k \in received => share[k] # "none") /\ (c.data => share[k] # "none")
  BY <1>2 DEF IInv, ProgressInv, ProgressOK, Before, After
<1>4. Moves(k, "share", x, r, k, c.data)
  <2>1. calls' = [calls EXCEPT ![k].pc = "share", ![k].result = r, ![k].from = k]
    BY <1>1 DEF RunHandler
  <2> QED
    BY <1>2, <2>1, Types, ResultMoves DEF Pcs
<1>5. /\ calls' \in [Calls -> CallType]
      /\ \A j \in Calls \ {k} : calls'[j] = calls[j]
      /\ calls'[k].pc = "share" /\ calls'[k].key = x /\ calls'[k].digest = c.digest
      /\ calls'[k].from = k /\ calls'[k].result = r /\ calls'[k].mutating = c.mutating
      /\ calls'[k].data = c.data
  BY <1>4 DEF Moves
<1>6. runs' \in [Keys -> Nat]
  BY <1>2 DEF TypeOK
<1>7. TypeOK'
  BY <1>2, <1>5, <1>6 DEF TypeOK, CallType, Pcs
<1>8. ProgressInv'
  <2>1. ProgressOK(k)'
    BY <1>2, <1>3, <1>5 DEF ProgressOK, Before, Middle, After
  <2> QED
    BY <1>2, <1>5, <2>1 DEF IInv, ProgressInv, ProgressOK
<1>9. OpInv'
  BY <1>2, <1>5, OpsKeep DEF IInv, After
<1>10. LossIsVisible'
  <2>1. \A j \in Calls : j \in Lost' => j \in Lost
    BY <1>2, <1>5 DEF Lost, Queued
  <2> QED
    BY <1>2, <2>1, LossKeeps DEF IInv
<1>11. KeyInv'
  <2>1. \A i \in Keys : i # x => runs'[i] = runs[i]
    BY <1>2
  <2>2. x # None => /\ x \in Keys /\ runs[x] = 0 /\ runs'[x] = 1
                    /\ idem[x].status = "in_progress"
                    /\ \A j \in Calls \ {k} : calls[j].key = x => calls[j].pc # "handler"
    <3>1. x # None => x \in Keys
      BY <1>2, Types DEF CallType
    <3> QED
      BY <1>2, <3>1 DEF IInv, KeyInv, At
  <2>3. \A j \in Calls : calls[j].key # None => calls[j].key \in Keys
    BY <1>2, Types DEF CallType
  <2>4. \A i \in Keys : runs'[i] <= 1 /\ (idem[i].status = "none" => runs'[i] = 0)
    BY <1>2, <2>1, <2>2, NoneAssumption DEF IInv, KeyInv
  <2>5. ASSUME NEW j \in Calls, calls'[j].pc = "handler", calls[j].key # None
        PROVE  j # k /\ calls[j].key # x
    BY <1>5, <2>2, <2>5
  <2>6. ASSUME NEW j \in Calls, calls'[j].pc \in Middle, calls[j].key # None
        PROVE  runs'[calls[j].key] = 1 \/ idem[calls[j].key].status = "done"
    BY <1>5, <2>1, <2>2, <2>3, <2>6 DEF IInv, KeyInv
  <2>7. \A j \in Calls : calls'[j].key = calls[j].key
    BY <1>5
  <2> QED
    BY <1>2, <1>5, <2>1, <2>3, <2>4, <2>5, <2>6, <2>7 DEF IInv, KeyInv, At
<1>12. ReplayInv' /\ ReplayFaithful'
  <2>1. \A j \in Calls : calls'[j].key = calls[j].key /\ calls'[j].digest = calls[j].digest
    BY <1>5
  <2>2. ReplayInv'
    BY <1>2, <1>5, <2>1, Types, SMTT(30) DEF IInv, ReplayInv, Middle
  <2>3. ReplayFaithful'
    BY <1>2, <1>5, <2>1, Types DEF IInv, ReplayFaithful
  <2> QED
    BY <2>2, <2>3
<1> QED
  BY <1>7, <1>8, <1>9, <1>10, <1>11, <1>12 DEF IInv

\* record_share: data is attached only with its Data Shared row.
LEMMA RecordShareStep ==
    ASSUME IInv, NEW k \in Calls
    PROVE  RecordShare(k) => IInv'
<1>1. SUFFICES ASSUME RecordShare(k) PROVE IInv'
  OBVIOUS
<1> DEFINE c == calls[k]
<1>2. /\ c.pc = "share" /\ TypeOK
      /\ UNCHANGED <<event, idem, queue, batch, blocked, ran, runs, received, excused>>
      /\ (fault => fault') /\ fault' \in BOOLEAN
  BY <1>1 DEF RecordShare, At, IInv, TypeOK, historyVars
<1>3. ProgressOK(k)
  BY DEF IInv, ProgressInv
<1>4. PICK d \in BOOLEAN :
        /\ Moves(k, "audit", c.key, c.result, c.from, d)
        /\ \/ d = TRUE /\ share' = [share EXCEPT ![k] = "prepared"]
           \/ d = c.data /\ share' = share
  <2>1. Goto(k, "audit") => Moves(k, "audit", c.key, c.result, c.from, c.data)
    BY <1>2, Types, GotoMoves DEF Goto, Pcs
  <2>2. calls' = [calls EXCEPT ![k].pc = "audit", ![k].data = TRUE] =>
           Moves(k, "audit", c.key, c.result, c.from, TRUE)
    BY <1>2, Types, DataMoves DEF Pcs
  <2>3. c.data \in BOOLEAN
    BY <1>2, Types DEF CallType
  <2> QED
    BY <1>1, <2>1, <2>2, <2>3 DEF RecordShare
<1>5. /\ calls' \in [Calls -> CallType]
      /\ \A j \in Calls \ {k} : calls'[j] = calls[j]
      /\ calls'[k].pc = "audit" /\ calls'[k].key = c.key /\ calls'[k].digest = c.digest
      /\ calls'[k].from = c.from /\ calls'[k].result = c.result
      /\ calls'[k].mutating = c.mutating /\ calls'[k].data = d
  BY <1>4 DEF Moves
<1>6. /\ share' \in [Calls -> {"none", "prepared"} \cup Transmissions]
      /\ \A j \in Calls : share[j] # "none" => share'[j] # "none"
      /\ d => share'[k] # "none"
  BY <1>2, <1>3, <1>4, Types DEF ProgressOK
<1>7. TypeOK'
  BY <1>2, <1>5, <1>6 DEF TypeOK, CallType, Pcs
<1>8. ProgressInv'
  <2>1. ProgressOK(k)'
    BY <1>2, <1>3, <1>5, <1>6 DEF ProgressOK, Before, Middle, After
  <2> QED
    BY <1>2, <1>5, <1>6, <2>1 DEF IInv, ProgressInv, ProgressOK
<1>9. OpInv'
  BY <1>2, <1>5, OpsKeep DEF IInv, After
<1>10. KeyInv' /\ ReplayInv' /\ ReplayFaithful'
  <2>1. \A j \in Calls : QuietCall(j)
    BY <1>2, <1>5 DEF QuietCall, Middle
  <2> QED
    BY <1>2, <1>7, <2>1, QuietKeys
<1>11. LossIsVisible'
  <2>1. \A j \in Calls : j \in Lost' => j \in Lost
    BY <1>2, <1>5 DEF Lost, Queued
  <2> QED
    BY <1>2, <2>1, LossKeeps DEF IInv
<1> QED
  BY <1>7, <1>8, <1>9, <1>10, <1>11 DEF IInv

\* The outcome that is queued is the one of the call.
LEMMA QueueOutcomeStep ==
    ASSUME IInv, NEW k \in Calls
    PROVE  QueueOutcome(k) => IInv'
<1> DEFINE c == calls[k]
<1>0. PICK op : op = Op("outcome", k, c.result)
  OBVIOUS
<1>1. SUFFICES ASSUME QueueOutcome(k) PROVE IInv'
  OBVIOUS
<1>2. /\ c.pc = "audit" /\ TypeOK /\ Len(queue) < MaxQueue /\ queue' = Append(queue, op)
      /\ UNCHANGED <<event, share, batch, fault, blocked, idem, ran, runs, received, excused>>
  BY <1>0, <1>1 DEF QueueOutcome, At, IInv, historyVars
<1>3. ProgressOK(k)
  BY DEF IInv, ProgressInv
<1>4. Moves(k, "finish", c.key, c.result, c.from, c.data)
  BY <1>1, <1>2, Types, GotoMoves DEF QueueOutcome, Goto, Pcs
<1>5. /\ calls' \in [Calls -> CallType]
      /\ \A j \in Calls \ {k} : calls'[j] = calls[j]
      /\ calls'[k].pc = "finish" /\ calls'[k].key = c.key /\ calls'[k].digest = c.digest
      /\ calls'[k].from = c.from /\ calls'[k].result = c.result
      /\ calls'[k].mutating = c.mutating /\ calls'[k].data = c.data
  BY <1>4 DEF Moves
<1>6. /\ op \in OpType /\ op.kind = "outcome" /\ op.call = k /\ op.status = c.result
      /\ c.result \in Results /\ event[k] # "outcome_unknown"
  BY <1>0, <1>2, <1>3 DEF ProgressOK, Op, OpType, Middle
<1>7. /\ queue' \in Seq(OpType) /\ Len(queue') = Len(queue) + 1
      /\ \A i \in DOMAIN queue : i \in DOMAIN queue' /\ queue'[i] = queue[i]
      /\ Len(queue) + 1 \in DOMAIN queue' /\ queue'[Len(queue) + 1] = op
      /\ \A i \in DOMAIN queue' : (i \in DOMAIN queue /\ queue'[i] = queue[i]) \/ queue'[i] = op
  BY <1>2, <1>6, Types, AppendFacts
<1>8. TypeOK'
  BY <1>2, <1>5, <1>7, Types, QueueAssumption DEF TypeOK, CallType, Pcs
<1>9. ProgressInv'
  <2>1. ProgressOK(k)'
    BY <1>2, <1>3, <1>5 DEF ProgressOK, Before, Middle, After
  <2> QED
    BY <1>2, <1>5, <2>1 DEF IInv, ProgressInv, ProgressOK
<1>10. OpInv'
  <2>1. OpOK(op)'
    BY <1>2, <1>5, <1>6 DEF OpOK, After
  <2>2. \A o \in OpType : OpOK(o) => OpOK(o)'
    BY <1>2, <1>5, OpKeeps DEF After
  <2> QED
    BY <1>2, <1>7, <2>1, <2>2, Types DEF IInv, OpInv
<1>11. KeyInv' /\ ReplayInv' /\ ReplayFaithful'
  <2>1. \A j \in Calls : QuietCall(j)
    BY <1>2, <1>5 DEF QuietCall, Middle
  <2> QED
    BY <1>2, <1>8, <2>1, QuietKeys
<1>12. LossIsVisible'
  <2>1. Queued(k)'
    BY <1>6, <1>7 DEF Queued
  <2>2. \A j \in Calls : Queued(j) => Queued(j)'
    BY <1>2, <1>7 DEF Queued
  <2>3. \A j \in Calls : j \in Lost' => j \in Lost
    BY <1>2, <1>5, <2>1, <2>2 DEF Lost
  <2> QED
    BY <1>2, <2>3, LossKeeps DEF IInv
<1> QED
  BY <1>8, <1>9, <1>10, <1>11, <1>12 DEF IInv

\* idem_finish keeps a result of this key and these arguments, and no other call is in
\* the handler with the key.
LEMMA IdemFinishStep ==
    ASSUME IInv, NEW k \in Calls
    PROVE  IdemFinish(k) => IInv'
<1>1. SUFFICES ASSUME IdemFinish(k) PROVE IInv'
  OBVIOUS
<1> DEFINE c == calls[k]
           x == calls[k].key
<1>2. /\ c.pc = "finish" /\ TypeOK
      /\ UNCHANGED <<event, share, queue, batch, fault, blocked, ran, runs, received, excused>>
  BY <1>1 DEF IdemFinish, At, IInv, auditVars, historyVars
<1>3. ProgressOK(k)
  BY DEF IInv, ProgressInv
<1>4. Moves(k, "reply", c.key, c.result, c.from, c.data)
  BY <1>1, <1>2, Types, GotoMoves DEF IdemFinish, Goto, Pcs
<1>5. /\ calls' \in [Calls -> CallType]
      /\ \A j \in Calls \ {k} : calls'[j] = calls[j]
      /\ calls'[k].pc = "reply" /\ calls'[k].key = c.key /\ calls'[k].digest = c.digest
      /\ calls'[k].from = c.from /\ calls'[k].result = c.result
      /\ calls'[k].mutating = c.mutating /\ calls'[k].data = c.data
  BY <1>4 DEF Moves
<1>6. c \in CallType
  BY <1>2, Types
<1>7. ASSUME x # None, idem[x].status # "none",
             idem' = [idem EXCEPT ![x].status = "done", ![x].from = c.from]
      PROVE  TypeOK' /\ KeyInv' /\ ReplayInv' /\ ReplayFaithful'
  <2> DEFINE row == [idem[x] EXCEPT !.status = "done", !.from = c.from]
             RowType == [status : {"none", "in_progress", "done"},
                         digest : Digests \cup {None}, from : Calls \cup {None}]
  <2>1. x \in Keys /\ idem \in [Keys -> RowType]
    BY <1>2, <1>6, <1>7 DEF CallType, TypeOK
  <2>2. /\ row \in RowType /\ row.status = "done" /\ row.from = c.from
        /\ row.digest = idem[x].digest
    <3>1. idem[x] \in RowType /\ c.from \in Calls \cup {None}
      BY <1>6, <2>1 DEF CallType
    <3> QED
      BY <3>1
  <2>3. idem' = [idem EXCEPT ![x] = row]
    BY <1>7
  <2> HIDE DEF row, RowType
  <2>4. idem' \in [Keys -> RowType] /\ idem'[x] = row /\ \A i \in Keys \ {x} : idem'[i] = idem[i]
    BY <2>1, <2>2, <2>3
  <2>5. TypeOK'
    BY <1>2, <1>5, <2>4 DEF TypeOK, CallType, Pcs, RowType
  <2>6. \A j \in Calls : calls[j].key # None => calls[j].key \in Keys
    BY <1>2, Types DEF CallType
  <2>7. \A j \in Calls : calls'[j].key = calls[j].key /\ calls'[j].digest = calls[j].digest
                         /\ calls'[j].from = calls[j].from
    BY <1>5
  <2>8. KeyInv'
    <3>1. \A j \in Calls : calls[j].key = x => calls[j].pc # "handler"
      BY <1>2, <1>7, <2>1 DEF IInv, KeyInv, At, Middle
    <3> QED
      BY <1>2, <1>5, <2>2, <2>4, <2>6, <2>7, <3>1 DEF IInv, KeyInv, At, Middle
  <2>9. ReplayInv'
    <3>1. idem[x].digest = c.digest
      BY <1>2, <1>7 DEF IInv, ReplayInv, Middle
    <3>2. c.from # None => /\ c.from \in ran /\ calls[c.from].key = x
                           /\ calls[c.from].digest = c.digest
      BY DEF IInv, ReplayFaithful
    <3>3. \A j \in ran : j \in Calls
      BY <1>2, Types
    <3> QED
      BY <1>2, <1>5, <2>2, <2>4, <2>6, <2>7, <3>1, <3>2, <3>3 DEF IInv, ReplayInv, Middle
  <2>10. ReplayFaithful'
    BY <1>2, <2>7, Types DEF IInv, ReplayFaithful
  <2> QED
    BY <2>5, <2>8, <2>9, <2>10
<1>8. ASSUME idem' = idem PROVE TypeOK' /\ KeyInv' /\ ReplayInv' /\ ReplayFaithful'
  <2>1. TypeOK'
    BY <1>2, <1>5, <1>8 DEF TypeOK, CallType, Pcs
  <2>2. \A j \in Calls : QuietCall(j)
    BY <1>2, <1>5 DEF QuietCall, Middle
  <2> QED
    BY <1>2, <1>8, <2>1, <2>2, QuietKeys
<1>9. TypeOK' /\ KeyInv' /\ ReplayInv' /\ ReplayFaithful'
  BY <1>1, <1>7, <1>8 DEF IdemFinish
<1>10. ProgressInv'
  <2>1. ProgressOK(k)'
    BY <1>2, <1>3, <1>5 DEF ProgressOK, Before, Middle, After
  <2> QED
    BY <1>2, <1>5, <2>1 DEF IInv, ProgressInv, ProgressOK
<1>11. OpInv'
  BY <1>2, <1>5, OpsKeep DEF IInv, After
<1>12. LossIsVisible'
  <2>1. \A j \in Calls : j \in Lost' => j \in Lost
    BY <1>2, <1>5 DEF Lost, Queued
  <2> QED
    BY <1>2, <2>1, LossKeeps DEF IInv
<1> QED
  BY <1>9, <1>10, <1>11, <1>12 DEF IInv

\* TrackedBody lets go only of data that was recorded.
LEMMA DeliverStep ==
    ASSUME IInv, NEW k \in Calls, NEW t \in Transmissions
    PROVE  Deliver(k, t) => IInv'
<1>1. SUFFICES ASSUME Deliver(k, t) PROVE IInv'
  OBVIOUS
<1> DEFINE c == calls[k]
           op == Op("transmission", k, t)
<1>2. /\ c.pc = "reply" /\ TypeOK
      /\ UNCHANGED <<event, share, batch, fault, blocked, idem, ran, runs, excused>>
      /\ received' = received \/ (received' = received \cup {k} /\ c.data = TRUE)
      /\ queue' = queue \/ (queue' = Append(queue, op) /\ Len(queue) < MaxQueue)
  <2>1. c.data \in BOOLEAN
    BY Types DEF IInv, CallType
  <2> QED
    BY <1>1, <2>1 DEF Deliver, At, IInv
<1>3. ProgressOK(k)
  BY DEF IInv, ProgressInv
<1>4. Moves(k, "done", c.key, c.result, c.from, FALSE)
  <2>1. calls' = [calls EXCEPT ![k].pc = "done", ![k].data = FALSE]
    BY <1>1 DEF Deliver
  <2> QED
    BY <1>2, <2>1, Types, DataMoves DEF Pcs
<1>5. /\ calls' \in [Calls -> CallType]
      /\ \A j \in Calls \ {k} : calls'[j] = calls[j]
      /\ calls'[k].pc = "done" /\ calls'[k].key = c.key /\ calls'[k].digest = c.digest
      /\ calls'[k].from = c.from /\ calls'[k].result = c.result
      /\ calls'[k].mutating = c.mutating /\ calls'[k].data = FALSE
  BY <1>4 DEF Moves
<1>6. op \in OpType /\ op.kind = "transmission" /\ op.status \in Transmissions
  BY DEF Op, OpType
<1> HIDE DEF op
<1>7. /\ queue' \in Seq(OpType) /\ Len(queue') <= MaxQueue
      /\ \A i \in DOMAIN queue : i \in DOMAIN queue' /\ queue'[i] = queue[i]
      /\ \A i \in DOMAIN queue' : (i \in DOMAIN queue /\ queue'[i] = queue[i]) \/ queue'[i] = op
  <2>1. CASE queue' = queue
    BY <1>2, <2>1, Types DEF TypeOK
  <2>2. CASE queue' = Append(queue, op) /\ Len(queue) < MaxQueue
    <3>1. queue \in Seq(OpType) /\ Len(queue) \in Nat
      BY <1>2, Types
    <3>2. /\ queue' \in Seq(OpType) /\ Len(queue') = Len(queue) + 1
          /\ \A i \in DOMAIN queue : i \in DOMAIN queue' /\ queue'[i] = queue[i]
          /\ \A i \in DOMAIN queue' :
                (i \in DOMAIN queue /\ queue'[i] = queue[i]) \/ queue'[i] = op
      BY <1>6, <2>2, <3>1, AppendFacts
    <3>3. Len(queue') <= MaxQueue
      BY <2>2, <3>1, <3>2, QueueAssumption
    <3> QED
      BY <3>2, <3>3
  <2> QED
    BY <1>2, <2>1, <2>2
<1>8. TypeOK'
  BY <1>2, <1>5, <1>7 DEF TypeOK, CallType, Pcs
<1>9. ProgressInv'
  <2>1. ProgressOK(k)'
    BY <1>2, <1>3, <1>5 DEF ProgressOK, Before, Middle, After
  <2> QED
    BY <1>2, <1>5, <2>1 DEF IInv, ProgressInv, ProgressOK
<1>10. OpInv'
  <2>1. OpOK(op)'
    BY <1>6 DEF OpOK
  <2>2. \A o \in OpType : OpOK(o) => OpOK(o)'
    BY <1>2, <1>5, OpKeeps DEF After
  <2> QED
    BY <1>2, <1>7, <2>1, <2>2, Types DEF IInv, OpInv
<1>11. KeyInv' /\ ReplayInv' /\ ReplayFaithful'
  <2>1. \A j \in Calls : QuietCall(j)
    BY <1>2, <1>5 DEF QuietCall, Middle
  <2> QED
    BY <1>2, <1>8, <2>1, QuietKeys
<1>12. LossIsVisible'
  <2>1. \A j \in Calls : Queued(j) => Queued(j)'
    BY <1>2, <1>7 DEF Queued
  <2>2. \A j \in Calls : j \in Lost' => j \in Lost
    BY <1>2, <1>5, <2>1 DEF Lost
  <2> QED
    BY <1>2, <2>2, LossKeeps DEF IInv
<1> QED
  BY <1>8, <1>9, <1>10, <1>11, <1>12 DEF IInv

-----------------------------------------------------------------------------
(* The audit store, the keys and the restart.                              *)

\* Whatever leaves the calls and the keys alone keeps what is known of the keys.
LEMMA StoreQuiet ==
    ASSUME IInv, TypeOK', UNCHANGED <<calls, idem, runs, ran>>
    PROVE  KeyInv' /\ ReplayInv' /\ ReplayFaithful'
<1>1. \A j \in Calls : QuietCall(j)
  BY DEF QuietCall
<1> QED
  BY <1>1, QuietKeys

\* The writer loses nothing between the queue and its batch.
LEMMA TakeBatchStep ==
    ASSUME IInv
    PROVE  TakeBatch => IInv'
<1>1. SUFFICES ASSUME TakeBatch PROVE IInv'
  OBVIOUS
<1> DEFINE n == IF Len(queue) < MaxBatch THEN Len(queue) ELSE MaxBatch
<1>2. /\ batch = <<>> /\ TypeOK
      /\ batch' = SubSeq(queue, 1, n) /\ queue' = SubSeq(queue, n + 1, Len(queue))
      /\ UNCHANGED <<calls, event, share, fault, blocked, idem, ran, runs, received, excused>>
  BY <1>1 DEF TakeBatch, historyVars, IInv
<1>3. n \in 0..Len(queue) /\ n <= MaxBatch
  BY <1>2, Types, QueueAssumption
<1> HIDE DEF n
<1>4. queue \in Seq(OpType) /\ Len(queue) \in Nat
  BY <1>2, Types
<1>5. /\ batch' \in Seq(OpType) /\ Len(batch') = n
      /\ queue' \in Seq(OpType) /\ Len(queue') = Len(queue) - n
      /\ \A i \in DOMAIN batch' : i \in DOMAIN queue /\ batch'[i] = queue[i]
      /\ \A i \in DOMAIN queue' : i + n \in DOMAIN queue /\ queue'[i] = queue[i + n]
      /\ \A i \in DOMAIN queue : \/ i \in DOMAIN batch' /\ batch'[i] = queue[i]
                                 \/ i - n \in DOMAIN queue' /\ queue'[i - n] = queue[i]
  BY <1>2, <1>3, <1>4, CutFacts
<1>6. TypeOK'
  <2>1. Len(queue') <= MaxQueue /\ Len(batch') <= MaxBatch
    BY <1>2, <1>3, <1>4, <1>5, QueueAssumption DEF TypeOK
  <2> QED
    BY <1>2, <1>5, <2>1 DEF TypeOK
<1>7. ProgressInv'
  BY <1>2 DEF IInv, ProgressInv, ProgressOK
<1>8. OpInv'
  <2>1. \A op \in OpType : OpOK(op) => OpOK(op)'
    BY <1>2 DEF OpOK
  <2> QED
    BY <1>2, <1>5, <2>1, Types DEF IInv, OpInv
<1>9. LossIsVisible'
  <2>1. ASSUME NEW j \in Calls, Queued(j) PROVE Queued(j)'
    <3>1. PICK i \in DOMAIN queue : queue[i].kind = "outcome" /\ queue[i].call = j
      BY <1>2, <2>1 DEF Queued
    <3>2. CASE i \in DOMAIN batch' /\ batch'[i] = queue[i]
      BY <3>1, <3>2 DEF Queued
    <3>3. CASE i - n \in DOMAIN queue' /\ queue'[i - n] = queue[i]
      BY <3>1, <3>3 DEF Queued
    <3> QED
      BY <1>5, <3>2, <3>3
  <2>2. \A j \in Calls : j \in Lost' => j \in Lost
    BY <1>2, <2>1 DEF Lost
  <2> QED
    BY <1>2, <2>2, LossKeeps DEF IInv
<1>10. KeyInv' /\ ReplayInv' /\ ReplayFaithful'
  BY <1>2, <1>6, StoreQuiet
<1> QED
  BY <1>6, <1>7, <1>8, <1>9, <1>10 DEF IInv

\* What a batch makes of a column: every call with an operation of this kind
\* gets the status of such an operation, the others keep theirs.
LEMMA AppliedFacts ==
    ASSUME NEW kind, NEW old, NEW k \in Calls
    PROVE  \/ /\ Applied(kind, old)[k] = old[k]
              /\ \A i \in DOMAIN batch : batch[i].kind = kind => batch[i].call # k
           \/ \E i \in DOMAIN batch : /\ batch[i].kind = kind /\ batch[i].call = k
                                      /\ Applied(kind, old)[k] = batch[i].status
<1> DEFINE hits == {i \in DOMAIN batch : batch[i].kind = kind /\ batch[i].call = k}
<1>1. Applied(kind, old)[k] = IF hits = {} THEN old[k] ELSE batch[CHOOSE i \in hits : TRUE].status
  BY DEF Applied
<1>2. hits # {} => (CHOOSE i \in hits : TRUE) \in hits
  OBVIOUS
<1> QED
  BY <1>1, <1>2

\* A committed batch stores the outcomes the calls had.
LEMMA CommitBatchStep ==
    ASSUME IInv
    PROVE  CommitBatch => IInv'
<1>1. SUFFICES ASSUME CommitBatch PROVE IInv'
  OBVIOUS
<1>2. /\ batch' = <<>> /\ TypeOK
      /\ event' = Applied("outcome", event) /\ share' = Applied("transmission", share)
      /\ UNCHANGED <<calls, queue, fault, blocked, idem, ran, runs, received, excused>>
  BY <1>1 DEF CommitBatch, historyVars, IInv
<1>3. ASSUME NEW j \in Calls
      PROVE  \/ /\ event'[j] = event[j]
                /\ \A i \in DOMAIN batch : batch[i].kind = "outcome" => batch[i].call # j
             \/ /\ event'[j] \in Results /\ event'[j] = calls[j].result
                /\ calls[j].pc \in After /\ event[j] # "outcome_unknown"
  BY <1>2, AppliedFacts DEF IInv, OpInv, OpOK
<1>4. ASSUME NEW j \in Calls
      PROVE  share'[j] = share[j] \/ share'[j] \in Transmissions
  BY <1>2, AppliedFacts DEF IInv, OpInv, OpOK
<1>5. /\ event' \in [Calls -> Results \cup {"none", "intent", "outcome_unknown"}]
      /\ share' \in [Calls -> {"none", "prepared"} \cup Transmissions]
  <2>1. \A j \in Calls : /\ event'[j] \in Results \cup {"none", "intent", "outcome_unknown"}
                         /\ share'[j] \in {"none", "prepared"} \cup Transmissions
    BY <1>2, <1>3, <1>4, Types
  <2>2. /\ event' = [j \in Calls |-> event'[j]] /\ share' = [j \in Calls |-> share'[j]]
    BY <1>2 DEF Applied
  <2> QED
    BY <2>1, <2>2
<1>6. batch' \in Seq(OpType) /\ Len(batch') = 0 /\ DOMAIN batch' = {}
  BY <1>2
<1>7. TypeOK'
  BY <1>2, <1>5, <1>6, QueueAssumption DEF TypeOK
<1>8. ProgressInv'
  <2>1. ASSUME NEW j \in Calls PROVE ProgressOK(j)'
    <3>1. ProgressOK(j)
      BY DEF IInv, ProgressInv
    <3>2. /\ event[j] # "none" => event'[j] # "none"
          /\ event'[j] # event[j] => calls[j].pc \in After
      BY <1>3 DEF Results
    <3>3. share[j] # "none" => share'[j] # "none"
      BY <1>4 DEF Transmissions
    <3> QED
      BY <1>2, <1>3, <3>1, <3>2, <3>3 DEF ProgressOK, After, Results
  <2> QED
    BY <2>1 DEF ProgressInv
<1>9. OpInv'
  <2>1. \A j \in Calls : event'[j] = "outcome_unknown" => event[j] = "outcome_unknown"
    BY <1>3 DEF Results
  <2>2. \A op \in OpType : OpOK(op) => OpOK(op)'
    BY <1>2, <2>1, OpKeeps
  <2> QED
    BY <1>2, <1>6, <2>2, Types DEF IInv, OpInv
<1>10. LossIsVisible'
  <2>1. ASSUME NEW j \in Calls, j \in Lost' PROVE j \in Lost
    <3>1. event'[j] \in {"none", "intent"} /\ ~Queued(j)'
      BY <2>1 DEF Lost
    <3>2. event'[j] = event[j]
          /\ \A i \in DOMAIN batch : batch[i].kind = "outcome" => batch[i].call # j
      BY <1>3, <3>1 DEF Results
    <3> QED
      BY <1>2, <2>1, <3>1, <3>2 DEF Lost, Queued
  <2> QED
    BY <1>2, <2>1, LossKeeps DEF IInv
<1>11. KeyInv' /\ ReplayInv' /\ ReplayFaithful'
  BY <1>2, <1>7, StoreQuiet
<1> QED
  BY <1>7, <1>8, <1>9, <1>10, <1>11 DEF IInv

\* A failed batch faults the store.
LEMMA FailBatchStep ==
    ASSUME IInv
    PROVE  FailBatch => IInv'
<1>1. SUFFICES ASSUME FailBatch PROVE IInv'
  OBVIOUS
<1>2. /\ batch' = <<>> /\ TypeOK /\ fault' = TRUE
      /\ UNCHANGED <<calls, event, share, queue, blocked, idem, ran, runs, received, excused>>
  BY <1>1 DEF FailBatch, historyVars, IInv
<1>3. batch' \in Seq(OpType) /\ Len(batch') = 0 /\ DOMAIN batch' = {}
  BY <1>2
<1>4. TypeOK'
  BY <1>2, <1>3, QueueAssumption DEF TypeOK
<1>5. ProgressInv' /\ LossIsVisible'
  BY <1>2 DEF IInv, ProgressInv, ProgressOK, LossIsVisible
<1>6. OpInv'
  <2>1. \A op : OpOK(op) => OpOK(op)'
    BY <1>2 DEF OpOK
  <2> QED
    BY <1>2, <1>3, <2>1 DEF IInv, OpInv
<1>7. KeyInv' /\ ReplayInv' /\ ReplayFaithful'
  BY <1>2, <1>4, StoreQuiet
<1> QED
  BY <1>4, <1>5, <1>6, <1>7 DEF IInv

\* clear_fault excuses what is lost at that moment.
LEMMA ClearFaultStep ==
    ASSUME IInv
    PROVE  ClearFault => IInv'
<1>1. SUFFICES ASSUME ClearFault PROVE IInv'
  OBVIOUS
<1>2. /\ TypeOK /\ fault' = FALSE /\ excused' = excused \cup Lost
      /\ UNCHANGED <<calls, event, share, queue, batch, blocked, idem, ran, runs, received>>
  BY <1>1 DEF ClearFault, IInv
<1>3. TypeOK'
  BY <1>2 DEF TypeOK, Lost
<1>4. ProgressInv' /\ OpInv'
  BY <1>2 DEF IInv, ProgressInv, ProgressOK, OpInv, OpOK
<1>5. LossIsVisible'
  <2>1. Lost' = Lost
    BY <1>2 DEF Lost, Queued
  <2> QED
    BY <1>2, <2>1 DEF LossIsVisible
<1>6. KeyInv' /\ ReplayInv' /\ ReplayFaithful'
  BY <1>2, <1>3, StoreQuiet
<1> QED
  BY <1>3, <1>4, <1>5, <1>6 DEF IInv

\* run_retention never clears a fault.
LEMMA RunRetentionStep ==
    ASSUME IInv, NEW b \in BOOLEAN
    PROVE  RunRetention(b) => IInv'
<1>1. SUFFICES ASSUME RunRetention(b) PROVE IInv'
  OBVIOUS
<1>2. /\ TypeOK /\ fault' \in BOOLEAN /\ blocked' \in BOOLEAN /\ (fault => fault')
      /\ UNCHANGED <<calls, event, share, queue, batch, idem, ran, runs, received, excused>>
  BY <1>1 DEF RunRetention, IInv, historyVars
<1>3. TypeOK'
  BY <1>2 DEF TypeOK
<1>4. ProgressInv' /\ OpInv'
  BY <1>2 DEF IInv, ProgressInv, ProgressOK, OpInv, OpOK
<1>5. LossIsVisible'
  <2>1. Lost' = Lost
    BY <1>2 DEF Lost, Queued
  <2> QED
    BY <1>2, <2>1 DEF IInv, LossIsVisible
<1>6. KeyInv' /\ ReplayInv' /\ ReplayFaithful'
  BY <1>2, <1>3, StoreQuiet
<1> QED
  BY <1>3, <1>4, <1>5, <1>6 DEF IInv

\* Only a key that no call is working under is forgotten.
LEMMA ExpireKeyStep ==
    ASSUME IInv, NEW x \in Keys
    PROVE  ExpireKey(x) => IInv'
<1>1. SUFFICES ASSUME ExpireKey(x) PROVE IInv'
  OBVIOUS
<1>2. /\ TypeOK
      /\ \A j \in Calls : calls[j].key = x => calls[j].pc \in {"idle", "intent", "idem", "done"}
      /\ idem' = [idem EXCEPT ![x] = NoKey] /\ runs' = [runs EXCEPT ![x] = 0]
      /\ UNCHANGED <<calls, event, share, queue, batch, fault, blocked, ran, received, excused>>
  BY <1>1 DEF ExpireKey, IInv, auditVars
<1>3. NoKey.status = "none" /\ NoKey.from = None /\ NoKey.digest = None
      /\ NoKey \in [status : {"none", "in_progress", "done"},
                    digest : Digests \cup {None}, from : Calls \cup {None}]
  BY DEF NoKey
<1>4. /\ idem'[x] = NoKey /\ runs'[x] = 0
      /\ \A i \in Keys \ {x} : idem'[i] = idem[i] /\ runs'[i] = runs[i]
      /\ idem' \in [Keys -> [status : {"none", "in_progress", "done"},
                             digest : Digests \cup {None}, from : Calls \cup {None}]]
      /\ runs' \in [Keys -> Nat]
  BY <1>2, <1>3 DEF TypeOK
<1>5. TypeOK'
  BY <1>2, <1>4 DEF TypeOK
<1>6. ProgressInv' /\ OpInv'
  BY <1>2 DEF IInv, ProgressInv, ProgressOK, OpInv, OpOK
<1>7. LossIsVisible'
  <2>1. Lost' = Lost
    BY <1>2 DEF Lost, Queued
  <2> QED
    BY <1>2, <2>1 DEF IInv, LossIsVisible
<1>8. \A j \in Calls : (calls[j].key # None /\ calls[j].pc \in Middle \cup {"handler"}) =>
         calls[j].key \in Keys \ {x}
  BY <1>2, Types DEF Middle, CallType
<1>9. KeyInv'
  BY <1>2, <1>3, <1>4, <1>8 DEF IInv, KeyInv, At
<1>10. ReplayInv'
  BY <1>2, <1>3, <1>4, <1>8 DEF IInv, ReplayInv
<1>11. ReplayFaithful'
  BY <1>2 DEF IInv, ReplayFaithful
<1> QED
  BY <1>5, <1>6, <1>7, <1>9, <1>10, <1>11 DEF IInv

\* A restart ends every call and settles every intent as unknown.
LEMMA RestartStep ==
    ASSUME IInv
    PROVE  Restart => IInv'
<1>1. SUFFICES ASSUME Restart PROVE IInv'
  OBVIOUS
<1>2. /\ TypeOK /\ queue' = <<>> /\ batch' = <<>> /\ fault' = FALSE /\ blocked' = FALSE
      /\ event' = [j \in Calls |-> Unknown(event[j])]
      /\ share' = [j \in Calls |-> IF share[j] = "prepared" THEN "interrupted" ELSE share[j]]
      /\ excused' = excused \cup {j \in Calls : calls[j].pc # "idle" /\ event[j] = "none"}
      /\ UNCHANGED <<idem, ran, runs, received>>
  BY <1>1 DEF Restart, At, IInv
<1>3. ASSUME NEW j \in Calls
      PROVE  /\ calls'[j] \in CallType
             /\ calls'[j].pc = IF calls[j].pc = "idle" THEN "idle" ELSE "done"
             /\ calls'[j].key = calls[j].key /\ calls'[j].digest = calls[j].digest
             /\ calls'[j].from = calls[j].from /\ calls'[j].result = calls[j].result
             /\ calls'[j].mutating = calls[j].mutating
             /\ calls'[j].data => calls[j].data
  <2> DEFINE c == [calls[j] EXCEPT !.pc = "done", !.data = FALSE]
  <2>1. calls[j] \in CallType
    BY <1>2, Types
  <2>2. /\ c \in CallType
        /\ c.pc = "done" /\ c.key = calls[j].key /\ c.digest = calls[j].digest
        /\ c.from = calls[j].from /\ c.result = calls[j].result
        /\ c.mutating = calls[j].mutating /\ c.data = FALSE
    BY <2>1 DEF CallType, Pcs
  <2>3. calls'[j] = IF calls[j].pc = "idle" THEN calls[j] ELSE c
    BY <1>1 DEF Restart, At
  <2> HIDE DEF c
  <2> QED
    BY <2>1, <2>2, <2>3
<1>4. calls' \in [Calls -> CallType]
  <2>1. calls' = [j \in Calls |-> calls'[j]]
    BY <1>1 DEF Restart
  <2> QED
    BY <1>3, <2>1
<1>5. queue' \in Seq(OpType) /\ batch' \in Seq(OpType) /\ Len(queue') = 0 /\ Len(batch') = 0
      /\ DOMAIN queue' = {} /\ DOMAIN batch' = {}
  BY <1>2
<1>6. /\ event' \in [Calls -> Results \cup {"none", "intent", "outcome_unknown"}]
      /\ share' \in [Calls -> {"none", "prepared"} \cup Transmissions]
      /\ excused' \in SUBSET Calls
  BY <1>2, Types DEF Unknown, Transmissions
<1>7. TypeOK'
  <2>1. Len(queue') <= MaxQueue /\ Len(batch') <= MaxBatch
    BY <1>5, QueueAssumption
  <2>2. fault' \in BOOLEAN /\ blocked' \in BOOLEAN
    BY <1>2
  <2> QED
    BY <1>2, <1>4, <1>5, <1>6, <2>1, <2>2 DEF TypeOK, CallType, Pcs
<1>8. ASSUME NEW j \in Calls
      PROVE  /\ event'[j] = IF event[j] = "intent" THEN "outcome_unknown" ELSE event[j]
             /\ share[j] # "none" => share'[j] # "none"
  BY <1>2 DEF Unknown
<1>9. ProgressInv'
  <2>1. ASSUME NEW j \in Calls PROVE ProgressOK(j)'
    <3>1. ProgressOK(j)
      BY DEF IInv, ProgressInv
    <3> QED
      BY <1>2, <1>3, <1>8, <3>1 DEF ProgressOK, Before, Middle, After, Results
  <2> QED
    BY <2>1 DEF ProgressInv
<1>10. OpInv'
  BY <1>5 DEF OpInv
<1>11. KeyInv' /\ ReplayInv' /\ ReplayFaithful'
  <2>1. \A j \in Calls : QuietCall(j)
    BY <1>3 DEF QuietCall, Middle
  <2> QED
    BY <1>2, <1>7, <2>1, QuietKeys
<1>12. LossIsVisible'
  <2>1. ASSUME NEW j \in Calls, j \in Lost' PROVE j \in excused'
    <3>1. calls'[j].result # "none" /\ event'[j] \in {"none", "intent"}
      BY <2>1 DEF Lost
    <3>2. calls[j].pc # "idle"
      BY <1>3, <3>1 DEF IInv, ProgressInv, ProgressOK, Before
    <3>3. event[j] = "none"
      BY <1>8, <3>1
    <3> QED
      BY <1>2, <3>2, <3>3
  <2> QED
    BY <2>1 DEF LossIsVisible, Lost
<1> QED
  BY <1>7, <1>9, <1>10, <1>11, <1>12 DEF IInv

-----------------------------------------------------------------------------
(* The theorems.                                                           *)

\* The invariant holds initially.
LEMMA InitIInv == Init => IInv
<1>1. SUFFICES ASSUME Init PROVE IInv
  OBVIOUS
<1>2. /\ NoCall \in CallType /\ NoCall.pc = "idle" /\ NoCall.result = "none"
      /\ NoCall.from = None /\ NoCall.data = FALSE /\ NoCall.key = None
  BY DEF NoCall, CallType, Pcs
<1>3. /\ NoKey.status = "none" /\ NoKey.from = None
      /\ NoKey \in [status : {"none", "in_progress", "done"},
                    digest : Digests \cup {None}, from : Calls \cup {None}]
  BY DEF NoKey
<1>4. /\ \A k \in Calls : calls[k] = NoCall /\ event[k] = "none" /\ share[k] = "none"
      /\ \A i \in Keys : idem[i] = NoKey /\ runs[i] = 0
      /\ queue = <<>> /\ batch = <<>> /\ ran = {} /\ received = {} /\ excused = {}
  BY <1>1 DEF Init
<1>5. TypeOK
  <2>1. /\ queue \in Seq(OpType) /\ Len(queue) = 0 /\ batch \in Seq(OpType) /\ Len(batch) = 0
        /\ 0 <= MaxQueue /\ 0 <= MaxBatch
    BY <1>4, QueueAssumption
  <2>2. /\ calls \in [Calls -> CallType]
        /\ idem \in [Keys -> [status : {"none", "in_progress", "done"},
                              digest : Digests \cup {None}, from : Calls \cup {None}]]
    BY <1>1, <1>2, <1>3 DEF Init
  <2> QED
    BY <1>1, <2>1, <2>2 DEF Init, TypeOK, CallType, Pcs
<1>6. ProgressInv
  BY <1>2, <1>4 DEF ProgressInv, ProgressOK, Middle, Results
<1>7. OpInv
  BY <1>4 DEF OpInv
<1>8. KeyInv /\ ReplayInv /\ ReplayFaithful
  BY <1>2, <1>3, <1>4 DEF KeyInv, ReplayInv, ReplayFaithful, At, Middle
<1>9. LossIsVisible
  BY <1>2, <1>4 DEF LossIsVisible, Lost
<1> QED
  BY <1>5, <1>6, <1>7, <1>8, <1>9 DEF IInv

\* Every step keeps it.
LEMMA NextIInv == IInv /\ [Next]_vars => IInv'
<1>1. SUFFICES ASSUME IInv, [Next]_vars PROVE IInv'
  OBVIOUS
<1>2. ASSUME NEW k \in Calls, Step(k) PROVE IInv'
  BY <1>1, <1>2, IntentStep, IdemBeginStep, RunHandlerStep, RecordShareStep, QueueOutcomeStep,
     IdemFinishStep, DeliverStep DEF Step
<1>3. ASSUME NEW k \in Calls, NEW m \in BOOLEAN, NEW i \in Keys \cup {None},
             NEW d \in Digests \cup {None}, Begin(k, m, i, d)
      PROVE  IInv'
  BY <1>1, <1>3, BeginStep
<1>4. CASE Writer
  BY <1>1, <1>4, TakeBatchStep, CommitBatchStep, FailBatchStep DEF Writer
<1>5. CASE ClearFault \/ Restart
  BY <1>1, <1>5, ClearFaultStep, RestartStep
<1>6. ASSUME NEW b \in BOOLEAN, RunRetention(b) PROVE IInv'
  BY <1>1, <1>6, RunRetentionStep
<1>7. ASSUME NEW i \in Keys, ExpireKey(i) PROVE IInv'
  BY <1>1, <1>7, ExpireKeyStep
<1>8. CASE UNCHANGED vars
  <2>1. TypeOK'
    BY <1>1, <1>8 DEF vars, IInv, TypeOK
  <2>2. ProgressInv' /\ OpInv'
    BY <1>1, <1>8 DEF vars, IInv, ProgressInv, ProgressOK, OpInv, OpOK
  <2>3. LossIsVisible'
    BY <1>1, <1>8 DEF vars, IInv, LossIsVisible, Lost, Queued
  <2>4. KeyInv' /\ ReplayInv' /\ ReplayFaithful'
    BY <1>1, <1>8, <2>1, StoreQuiet DEF vars
  <2> QED
    BY <2>1, <2>2, <2>3, <2>4 DEF IInv
<1> QED
  BY <1>1, <1>2, <1>3, <1>4, <1>5, <1>6, <1>7, <1>8 DEF Next

\* The inductive invariant holds in every reachable state.
THEOREM Invariance == Spec => []IInv
  BY InitIInv, NextIInv, PTL DEF Spec

\* Every variable keeps its type: the audit queue never exceeds its capacity, a
\* batch its size, and only outcomes a call can have reach the audit rows.
THEOREM TypeCorrect == Spec => []TypeOK
<1>1. IInv => TypeOK
  BY DEF IInv
<1> QED
  BY <1>1, Invariance, PTL

\* The handler of a keyed mutation runs at most once while idem_begin remembers
\* the key, however many calls race for it and however often the process dies.
THEOREM KeyRunsOnce == Spec => []KeyOnce
<1>1. IInv => KeyOnce
  BY DEF IInv, KeyInv, KeyOnce
<1> QED
  BY <1>1, Invariance, PTL

\* What a replay returns is the result of a run with the same key and the same
\* arguments.
THEOREM ReplayIsFaithful == Spec => []ReplayFaithful
<1>1. IInv => ReplayFaithful
  BY DEF IInv
<1> QED
  BY <1>1, Invariance, PTL

\* No mutation has run without its durable audit row, and no data has left
\* without its Data Shared row.
THEOREM RecordsComeFirst == Spec => []RecordedFirst
<1>1. IInv => RecordedFirst
  BY DEF IInv, TypeOK, ProgressInv, ProgressOK, RecordedFirst
<1> QED
  BY <1>1, Invariance, PTL

\* While the store has no fault, every outcome that finish queued is stored, on
\* its way, declared unknown by recovery, or was lost in a way the user was shown.
THEOREM LossesAreVisible == Spec => []LossIsVisible
<1>1. IInv => LossIsVisible
  BY DEF IInv
<1> QED
  BY <1>1, Invariance, PTL

\* A stored outcome, or one given up as unknown, is not overwritten by any step.
LEMMA OutcomeStays ==
    ASSUME IInv, [Next]_vars, NEW j \in Calls, event[j] \in Results \cup {"outcome_unknown"}
    PROVE  event'[j] = event[j]
<1>1. /\ calls[j].pc \in After /\ (event[j] \in Results => event[j] = calls[j].result)
  BY DEF IInv, ProgressInv, ProgressOK, After, Results
<1>2. event[j] \notin {"none", "intent"} /\ TypeOK
  BY DEF Results, IInv
<1>3. ASSUME NEW k \in Calls, Intent(k) PROVE event'[j] = event[j]
  BY <1>1, <1>2, <1>3, Types DEF Intent, At, After
<1>4. ASSUME CommitBatch PROVE event'[j] = event[j]
  <2>1. event' = Applied("outcome", event)
    BY <1>4 DEF CommitBatch
  <2>2. \A i \in DOMAIN batch : (batch[i].kind = "outcome" /\ batch[i].call = j) =>
           batch[i].status = event[j]
    BY <1>1 DEF IInv, OpInv, OpOK
  <2> QED
    BY <2>1, <2>2, AppliedFacts
<1>5. ASSUME Restart PROVE event'[j] = event[j]
  BY <1>2, <1>5 DEF Restart, Unknown
<1>6. ASSUME NEW k \in Calls, Step(k) PROVE event'[j] = event[j]
  BY <1>3, <1>6 DEF Step, IdemBegin, RunHandler, RecordShare, QueueOutcome, IdemFinish, Deliver,
                    auditVars, historyVars
<1> QED
  BY <1>3, <1>4, <1>5, <1>6 DEF Next, Begin, Writer, TakeBatch, FailBatch, ClearFault,
     RunRetention, ExpireKey, auditVars, historyVars, vars

\* An audit row never claims another outcome than its call had, and once it has
\* one, or is declared unknown by mark_incomplete_unknown, no step changes it.
THEOREM OutcomesAreHonest == Spec => OutcomeHonest
<1>1. IInv => \A k \in Calls : event[k] \in Results => event[k] = calls[k].result
  BY DEF IInv, ProgressInv, ProgressOK
<1>2. IInv /\ [Next]_vars =>
         [\A k \in Calls : event[k] \in Results \cup {"outcome_unknown"} =>
             event'[k] = event[k]]_vars
  BY OutcomeStays
<1> QED
  BY <1>1, <1>2, Invariance, PTL DEF Spec, OutcomeHonest
=============================================================================
