----------------------------- MODULE OAuthProofs -----------------------------
(***************************************************************************)
(* Proofs about module OAuth, for any number of principals, registrations, *)
(* requests, credentials and token requests in flight, with or without     *)
(* failing writes.                                                         *)
(*                                                                         *)
(* The properties need how far a request and its code have come together   *)
(* (RequestOK), that whoever is between taking a code and noting what was  *)
(* issued works for a settled approval that is nobody else's (CallOK,      *)
(* Exclusive), what a credential goes back to (CredOK), and that a grant   *)
(* has at most one unused token, or a request that will issue it           *)
(* (TokenInv, CallOK).                                                     *)
(***************************************************************************)
EXTENDS OAuth, SequenceTheorems, TLAPS

RequestType == [state : {"unused", "open", "gone"}, reg : Regs \cup {None},
                suggested : Clients \cup {None}, decision : {"none", "approve", "deny"},
                bind : Clients \cup {None}, expired : BOOLEAN]
CodeType == [state : {"none", "live", "used", "gone"}, bind : Clients \cup {None},
             expired : BOOLEAN, issued : Creds \cup {None}]
CredType == [state : {"none", "oauth", "revoked"}, client : Clients \cup {None},
             reg : Regs \cup {None}, enabled : BOOLEAN, from : Reqs \cup {None}]
Steps    == {"idle", "take", "bind", "insert", "record", "note", "issue", "read", "consume",
             "punish"}
CallType == [step : Steps, req : Reqs \cup {None}, reg : Regs \cup {None},
             known : Clients \cup {None}, cred : Creds \cup {None}, gen : 0..MaxGen]

\* The steps of a token request that has taken a code, and of one that is
\* bound to issue the next tokens of a credential.
Holding == {"bind", "insert", "record", "note"}
Issuing == {"record", "note", "issue"}

\* A request whose code is still to come has not been polled to its end; a code
\* that can be taken goes back to an approval, for the principal the user named.
RequestOK(r) ==
    /\ request[r].state \in {"unused", "open"} => code[r].state = "none"
    /\ code[r].state = "live" =>
          /\ request[r].decision = "approve"
          /\ request[r].bind # None => code[r].bind = request[r].bind
    /\ code[r].state \in {"none", "live"} => r \notin burnt
    /\ code[r].issued # None => cred[code[r].issued].state # "none"

\* Request r is settled: approved, for registration g and principal p, and its
\* code was first taken by someone who proved the request.
Consented(r, g, p) ==
    /\ request[r].state = "gone" /\ request[r].decision = "approve"
    /\ request[r].reg = g
    /\ request[r].bind # None => p = request[r].bind
    /\ r \notin burnt
    /\ code[r].state \in {"used", "gone"}

\* A credential goes back to a settled approval of its own; one that was
\* punished is revoked.
CredOK(c) ==
    /\ cred[c].state = "none" => cred[c].from = None /\ gen[c] = 0
    /\ cred[c].state # "none" =>
          /\ cred[c].from # None
          /\ Consented(cred[c].from, cred[c].reg, cred[c].client)
          /\ \A d \in Creds : cred[d].from = cred[c].from => d = c
    /\ c \in punished => cred[c].state = "revoked"

\* What a token request knows at its step.
CallOK(c) ==
    /\ c.step \in Holding \cup {"take"} => c.req # None
    /\ c.step \in Holding => Consented(c.req, c.reg, c.known)
    /\ c.step \in {"bind", "insert"} => \A d \in Creds : cred[d].from # c.req
    /\ c.step \in {"insert", "record", "note"} => c.known # None
    /\ c.step \in Issuing \cup {"read", "consume", "punish"} =>
          c.cred # None /\ cred[c.cred].state # "none"
    /\ c.step \in Issuing => \A t \in tokens \ used : t[1] # c.cred

\* No two token requests hold one code, or are bound to issue for one credential.
Exclusive ==
    \A j, k \in Calls : j # k =>
        /\ (calls[j].step \in Holding /\ calls[k].step \in Holding) => calls[j].req # calls[k].req
        /\ (calls[j].step \in Issuing /\ calls[k].step \in Issuing) => calls[j].cred # calls[k].cred

\* A grant has at most one token that was never used, expired or not.
TokenInv ==
    /\ \A t \in tokens : t[2] <= gen[t[1]]
    /\ used \subseteq tokens
    /\ \A s, t \in tokens \ used : s[1] = t[1] => s = t

\* The inductive invariant.
IInv ==
    /\ TypeOK
    /\ \A r \in Reqs : RequestOK(r)
    /\ \A c \in Creds : CredOK(c)
    /\ \A k \in Calls : CallOK(calls[k])
    /\ Exclusive
    /\ TokenInv

-----------------------------------------------------------------------------
(* What a step may do without touching what the invariant is about.        *)

\* A settled request and its code stay as they are for everyone who relies on
\* them; nobody burns a code that was taken before.
ConsentKept ==
    \A r \in Reqs :
        /\ request[r].state = "gone" =>
              /\ request'[r].state = "gone" /\ request'[r].decision = request[r].decision
              /\ request'[r].reg = request[r].reg /\ request'[r].bind = request[r].bind
        /\ code[r].state \in {"used", "gone"} =>
              code'[r].state \in {"used", "gone"} /\ (r \in burnt' => r \in burnt)

\* Credentials keep what they go back to; a revoked one stays revoked, and only
\* a revoked one joins the punished.
CredsKept ==
    \A c \in Creds :
        /\ cred'[c].from = cred[c].from /\ cred'[c].reg = cred[c].reg
        /\ cred'[c].client = cred[c].client
        /\ cred'[c].state = "none" <=> cred[c].state = "none"
        /\ cred[c].state = "revoked" => cred'[c].state = "revoked"
        /\ c \in punished' => c \in punished \/ cred'[c].state = "revoked"

\* The types of the variables, with the names used here.
LEMMA Types ==
    ASSUME TypeOK
    PROVE  /\ request \in [Reqs -> RequestType]
           /\ code \in [Reqs -> CodeType]
           /\ cred \in [Creds -> CredType]
           /\ calls \in [Calls -> CallType]
           /\ gen \in [Creds -> 0..MaxGen] /\ MaxGen \in Nat
           /\ bound \in [Regs -> Clients \cup {None}]
           /\ client \in [Clients -> {"absent", "enabled", "disabled"}]
           /\ registry \in Seq(Regs)
           /\ tokens \subseteq Token /\ used \subseteq Token /\ dead \subseteq Token
           /\ burnt \subseteq Reqs /\ punished \subseteq Creds
           /\ None \notin Clients /\ None \notin Regs /\ None \notin Reqs /\ None \notin Creds
  BY NoneAssumption, BoundsAssumption
     DEF TypeOK, RequestType, CodeType, CredType, CallType, Steps

\* A settled approval stays settled.
LEMMA ConsentStays ==
    ASSUME ConsentKept, NEW r \in Reqs, NEW g, NEW p, Consented(r, g, p)
    PROVE  Consented(r, g, p)'
  BY DEF ConsentKept, Consented

\* What a token request knows stays true.
LEMMA CallKeeps ==
    ASSUME ConsentKept, CredsKept, NEW c \in CallType, CallOK(c),
           c.step \in Issuing => \A t \in tokens' \ used' : t[1] = c.cred => t \in tokens \ used
    PROVE  CallOK(c)'
<1>1. c.step \in Holding => Consented(c.req, c.reg, c.known)'
  <2>1. c.step \in Holding => c.req \in Reqs /\ Consented(c.req, c.reg, c.known)
    BY DEF CallOK, CallType
  <2> QED
    BY <2>1, ConsentStays
<1>2. c.step \in Issuing \cup {"read", "consume", "punish"} =>
         c.cred \in Creds /\ cred'[c.cred].state # "none"
  BY DEF CallOK, CallType, CredsKept
<1>3. c.step \in {"bind", "insert"} => \A d \in Creds : cred'[d].from # c.req
  BY DEF CallOK, CredsKept
<1> QED
  BY <1>1, <1>2, <1>3 DEF CallOK

\* What a credential goes back to stays true.
LEMMA CredKeeps ==
    ASSUME ConsentKept, CredsKept, cred \in [Creds -> CredType], NEW c \in Creds, CredOK(c),
           cred[c].state = "none" => gen'[c] = gen[c]
    PROVE  CredOK(c)'
<1>1. cred'[c].from = cred[c].from /\ cred'[c].reg = cred[c].reg /\ cred'[c].client = cred[c].client
  BY DEF CredsKept
<1>2. ASSUME cred[c].state # "none"
      PROVE  Consented(cred[c].from, cred[c].reg, cred[c].client)'
  <2>1. PICK r, g, p : r = cred[c].from /\ g = cred[c].reg /\ p = cred[c].client
    OBVIOUS
  <2>2. r \in Reqs /\ Consented(r, g, p)
    BY <1>2, <2>1 DEF CredOK, CredType
  <2>3. Consented(r, g, p)'
    BY <2>2, ConsentStays
  <2> QED
    BY <1>1, <2>1, <2>3
<1>3. \A d \in Creds : cred'[d].from = cred[d].from
  BY DEF CredsKept
<1> QED
  BY <1>1, <1>2, <1>3 DEF CredOK, CredsKept

\* A step that settles nothing, issues nothing and takes no token request
\* further, but may answer one.
LEMMA Frame ==
    ASSUME IInv, TypeOK', ConsentKept, CredsKept, \A r \in Reqs : RequestOK(r)',
           UNCHANGED <<gen, tokens, used>>,
           \A k \in Calls : calls'[k] = calls[k] \/ calls'[k].step = "idle"
    PROVE  IInv'
<1>1. \A c \in Creds : CredOK(c)'
  BY CredKeeps, Types DEF IInv
<1>2. ASSUME NEW k \in Calls PROVE CallOK(calls[k])'
  <2>1. CASE calls'[k].step = "idle"
    BY <2>1 DEF CallOK, Holding, Issuing
  <2>2. CASE calls'[k] = calls[k]
    <3>1. PICK c \in CallType : c = calls[k]
      BY Types DEF IInv
    <3>2. CallOK(c)'
      BY <3>1, CallKeeps DEF IInv
    <3> QED
      BY <2>2, <3>1, <3>2
  <2> QED
    BY <2>1, <2>2
<1>3. Exclusive'
  BY DEF IInv, Exclusive, Holding, Issuing
<1>4. TokenInv'
  BY DEF IInv, TokenInv
<1> QED
  BY <1>1, <1>2, <1>3, <1>4 DEF IInv

\* Requests and codes that no step touches stay in order.
LEMMA RequestsKeep ==
    ASSUME IInv, CredsKept, UNCHANGED <<request, code, burnt>>
    PROVE  ConsentKept /\ \A r \in Reqs : RequestOK(r)'
<1>1. ConsentKept
  BY DEF ConsentKept
<1>2. ASSUME NEW r \in Reqs PROVE RequestOK(r)'
  <2>1. RequestOK(r) /\ code[r].issued \in Creds \cup {None}
    BY Types DEF IInv, CodeType
  <2> QED
    BY <2>1 DEF RequestOK, CredsKept
<1> QED
  BY <1>1, <1>2

\* A step that does not touch the credentials keeps them.
LEMMA CredsSame ==
    ASSUME UNCHANGED <<cred, punished>>
    PROVE  CredsKept
  BY DEF CredsKept

\* A step that takes token request k to record c, with what c then knows.
LEMMA MovesOn ==
    ASSUME IInv, TypeOK', ConsentKept, CredsKept, \A r \in Reqs : RequestOK(r)',
           UNCHANGED <<gen, tokens, used>>,
           NEW k \in Calls, NEW c \in CallType, CallOK(c)', calls' = [calls EXCEPT ![k] = c],
           \A j \in Calls \ {k} :
               /\ (c.step \in Holding /\ calls[j].step \in Holding) => calls[j].req # c.req
               /\ (c.step \in Issuing /\ calls[j].step \in Issuing) => calls[j].cred # c.cred
    PROVE  IInv'
<1>1. \A d \in Creds : CredOK(d)'
  BY CredKeeps, Types DEF IInv
<1>2. calls'[k] = c /\ \A j \in Calls \ {k} : calls'[j] = calls[j]
  BY Types DEF IInv
<1>3. ASSUME NEW j \in Calls PROVE CallOK(calls[j])'
  <2>1. CASE j = k
    BY <1>2, <2>1
  <2>2. CASE j # k
    <3>1. PICK d \in CallType : d = calls[j] /\ CallOK(d)
      BY Types DEF IInv
    <3>2. CallOK(d)'
      BY <3>1, CallKeeps
    <3> QED
      BY <1>2, <2>2, <3>1, <3>2
  <2> QED
    BY <2>1, <2>2
<1>4. Exclusive'
  BY <1>2 DEF IInv, Exclusive
<1>5. TokenInv'
  BY DEF IInv, TokenInv
<1> QED
  BY <1>1, <1>3, <1>4, <1>5 DEF IInv

\* The same when nothing else changes and the request goes on with what it holds.
LEMMA Moves ==
    ASSUME IInv, TypeOK', NEW k \in Calls, NEW c \in CallType, CallOK(c),
           calls' = [calls EXCEPT ![k] = c],
           c.step \in Holding => calls[k].step \in Holding /\ c.req = calls[k].req,
           c.step \in Issuing => calls[k].step \in Issuing /\ c.cred = calls[k].cred,
           UNCHANGED <<request, code, burnt, cred, punished, gen, tokens, used>>
    PROVE  IInv'
<1>1. CredsKept /\ ConsentKept /\ \A r \in Reqs : RequestOK(r)'
  BY CredsSame, RequestsKeep
<1>2. CallOK(c)'
  BY <1>1, CallKeeps
<1>3. \A j \in Calls \ {k} :
         /\ (c.step \in Holding /\ calls[j].step \in Holding) => calls[j].req # c.req
         /\ (c.step \in Issuing /\ calls[j].step \in Issuing) => calls[j].cred # c.cred
  BY DEF IInv, Exclusive
<1> QED
  BY <1>1, <1>2, <1>3, MovesOn

-----------------------------------------------------------------------------
(* Registration.                                                           *)

\* Taking one registration out of the registry keeps all the others.
LEMMA WithoutFacts ==
    ASSUME registry \in Seq(Regs), NEW i \in 1..Len(registry)
    PROVE  /\ Without(i) \in Seq(Regs)
           /\ Len(Without(i)) = Len(registry) - 1
           /\ \A j \in 1..Len(registry) : j # i =>
                 \E m \in 1..Len(Without(i)) : Without(i)[m] = registry[j]
<1> DEFINE l == Len(registry)
           a == SubSeq(registry, 1, i - 1)
           z == SubSeq(registry, i + 1, l)
<1>1. l \in Nat /\ i \in Nat /\ 1 <= i /\ i <= l /\ \A j \in 1..l : registry[j] \in Regs
  BY LenProperties
<1>2. a \in Seq(Regs) /\ Len(a) = i - 1 /\ \A j \in 1..(i - 1) : a[j] = registry[j]
  <2> DEFINE n == i - 1
  <2>1. n \in Int /\ \A j \in 1..n : registry[j] \in Regs
    BY <1>1
  <2>2. /\ SubSeq(registry, 1, n) \in Seq(Regs)
        /\ Len(SubSeq(registry, 1, n)) = IF 1 <= n THEN n - 1 + 1 ELSE 0
        /\ \A j \in 1..(n - 1 + 1) : SubSeq(registry, 1, n)[j] = registry[1 + j - 1]
    BY <2>1, SubSeqProperties
  <2>3. n - 1 + 1 = n /\ (1 <= n \/ n = 0) /\ \A j \in 1..n : 1 + j - 1 = j
    BY <1>1
  <2> QED
    BY <2>2, <2>3
<1>3. z \in Seq(Regs) /\ Len(z) = l - i /\ \A j \in 1..(l - i) : z[j] = registry[i + j]
  <2> DEFINE m == i + 1
  <2>1. m \in Int /\ l \in Int /\ \A j \in m..l : registry[j] \in Regs
    BY <1>1
  <2>2. /\ SubSeq(registry, m, l) \in Seq(Regs)
        /\ Len(SubSeq(registry, m, l)) = IF m <= l THEN l - m + 1 ELSE 0
        /\ \A j \in 1..(l - m + 1) : SubSeq(registry, m, l)[j] = registry[m + j - 1]
    BY <2>1, SubSeqProperties
  <2>3. /\ l - m + 1 = l - i /\ (m <= l \/ l - i = 0)
        /\ \A j \in 1..(l - i) : m + j - 1 = i + j
    BY <1>1
  <2> QED
    BY <2>2, <2>3
<1> HIDE DEF a, z, l
<1>4. /\ a \o z \in Seq(Regs) /\ Len(a \o z) = Len(a) + Len(z)
      /\ \A j \in 1..Len(a) : (a \o z)[j] = a[j]
      /\ \A j \in 1..Len(z) : (a \o z)[Len(a) + j] = z[j]
  <2>1. /\ a \o z \in Seq(Regs) /\ Len(a \o z) = Len(a) + Len(z)
        /\ \A j \in 1..(Len(a) + Len(z)) :
              (a \o z)[j] = IF j <= Len(a) THEN a[j] ELSE z[j - Len(a)]
    BY <1>2, <1>3, ConcatProperties
  <2>2. Len(a) \in Nat /\ Len(z) \in Nat
    BY <1>1, <1>2, <1>3
  <2>3. ASSUME NEW j \in 1..Len(z) PROVE (a \o z)[Len(a) + j] = z[j]
    <3>1. /\ Len(a) + j \in 1..(Len(a) + Len(z)) /\ ~(Len(a) + j <= Len(a))
          /\ (Len(a) + j) - Len(a) = j
      BY <2>2
    <3> QED
      BY <2>1, <3>1
  <2>4. ASSUME NEW j \in 1..Len(a) PROVE (a \o z)[j] = a[j]
    <3>1. j \in 1..(Len(a) + Len(z)) /\ j <= Len(a)
      BY <2>2
    <3> QED
      BY <2>1, <3>1
  <2> QED
    BY <2>1, <2>3, <2>4
<1>5. Without(i) = a \o z
  BY DEF Without, a, z, l
<1>6. Len(a \o z) = l - 1
  BY <1>1, <1>2, <1>3, <1>4
<1>7. ASSUME NEW j \in 1..l, j # i PROVE \E m \in 1..Len(a \o z) : (a \o z)[m] = registry[j]
  <2>1. CASE j < i
    <3>1. j \in 1..(i - 1) /\ j \in 1..(l - 1)
      BY <1>1, <2>1
    <3> QED
      BY <1>2, <1>4, <1>6, <3>1
  <2>2. CASE j > i
    <3> DEFINE m == j - i
    <3>1. m \in 1..(l - i) /\ i + m = j /\ (i - 1) + m \in 1..(l - 1)
      BY <1>1, <2>2
    <3>2. (a \o z)[(i - 1) + m] = registry[j]
      BY <1>2, <1>3, <1>4, <3>1, SMTT(30)
    <3> QED
      BY <1>6, <3>1, <3>2
  <2> QED
    BY <1>1, <1>7, <2>1, <2>2
<1> QED
  BY <1>4, <1>5, <1>6, <1>7 DEF l

\* The registry after a registration: at most MaxRegs long, and without one
\* unused registration at most.
LEMMA RegisterFacts ==
    ASSUME TypeOK, NEW g \in Regs, Register(g)
    PROVE  /\ registry' \in Seq(Regs) /\ Len(registry') <= MaxRegs
           /\ \A j \in 1..Len(registry) : bound[registry[j]] # None =>
                 \E m \in 1..Len(registry') : registry'[m] = registry[j]
<1>1. registry \in Seq(Regs) /\ Len(registry) \in Nat /\ Len(registry) <= MaxRegs /\ MaxRegs \in Nat
  BY LenProperties, BoundsAssumption DEF TypeOK
<1>2. CASE Len(registry) < MaxRegs /\ registry' = Append(registry, g)
  <2>1. /\ registry' \in Seq(Regs) /\ Len(registry') = Len(registry) + 1
        /\ \A j \in 1..Len(registry) : registry'[j] = registry[j]
    BY <1>1, <1>2, AppendProperties
  <2>2. Len(registry') <= MaxRegs /\ \A j \in 1..Len(registry) : j \in 1..Len(registry')
    BY <1>1, <1>2, <2>1
  <2> QED
    BY <2>1, <2>2
<1>3. ASSUME NEW i \in Unbound,
             registry' \in {Append(Without(i), g)} \cup (IF Faults THEN {Without(i)} ELSE {})
      PROVE  /\ registry' \in Seq(Regs) /\ Len(registry') <= MaxRegs
             /\ \A j \in 1..Len(registry) : bound[registry[j]] # None =>
                   \E m \in 1..Len(registry') : registry'[m] = registry[j]
  <2> DEFINE w == Without(i)
  <2>1. i \in 1..Len(registry) /\ bound[registry[i]] = None
    BY DEF Unbound
  <2>2. w \in Seq(Regs) /\ Len(w) = Len(registry) - 1
        /\ \A j \in 1..Len(registry) : j # i => \E m \in 1..Len(w) : w[m] = registry[j]
    BY <1>1, <2>1, WithoutFacts
  <2>3. registry' = Append(w, g) \/ registry' = w
    BY <1>3
  <2> HIDE DEF w
  <2>4. Len(w) \in Nat
    BY <2>2, LenProperties
  <2>5. CASE registry' = w
    <3>1. Len(w) <= MaxRegs
      BY <1>1, <2>2
    <3> QED
      BY <2>1, <2>2, <2>5, <3>1
  <2>6. CASE registry' = Append(w, g)
    <3>1. /\ registry' \in Seq(Regs) /\ Len(registry') = Len(w) + 1
          /\ \A j \in 1..Len(w) : registry'[j] = w[j]
      BY <2>2, <2>6, AppendProperties
    <3>2. Len(registry') <= MaxRegs /\ \A j \in 1..Len(w) : j \in 1..Len(registry')
      BY <1>1, <2>2, <2>4, <3>1
    <3>3. ASSUME NEW j \in 1..Len(registry), bound[registry[j]] # None
          PROVE  \E m \in 1..Len(registry') : registry'[m] = registry[j]
      <4>1. PICK m \in 1..Len(w) : w[m] = registry[j]
        BY <2>1, <2>2, <3>3
      <4> QED
        BY <3>1, <3>2, <4>1
    <3> QED
      BY <3>1, <3>2, <3>3
  <2> QED
    BY <2>3, <2>5, <2>6
<1> QED
  BY <1>2, <1>3 DEF Register

\* Register changes the registry only.
LEMMA RegisterStep ==
    ASSUME IInv, NEW g \in Regs
    PROVE  Register(g) => IInv'
<1>1. SUFFICES ASSUME Register(g) PROVE IInv'
  OBVIOUS
<1>2. UNCHANGED <<client, bound, request, code, burnt, cred, gen, tokens, used, dead, calls,
                  punished>>
  BY <1>1 DEF Register, codeVars, tokenVars
<1>3. TypeOK'
  BY <1>1, <1>2, RegisterFacts DEF IInv, TypeOK
<1> QED
  BY <1>2, <1>3, Frame, CredsSame, RequestsKeep

-----------------------------------------------------------------------------
(* Requests and codes.                                                     *)

\* A step on the maps of requests and codes.
LEMMA MapsStep ==
    ASSUME IInv, request' \in [Reqs -> RequestType], code' \in [Reqs -> CodeType],
           ConsentKept, \A r \in Reqs : RequestOK(r)',
           calls' \in [Calls -> CallType],
           \A k \in Calls : calls'[k] = calls[k] \/ calls'[k].step = "idle",
           UNCHANGED <<client, registry, bound, burnt, cred, gen, tokens, used, dead, punished>>
    PROVE  IInv'
<1>1. TypeOK'
  BY DEF IInv, TypeOK, RequestType, CodeType, CallType, Steps
<1> QED
  BY <1>1, Frame, CredsSame

\* Closing a request keeps the decision.
LEMMA ClosedFacts ==
    ASSUME NEW q \in RequestType
    PROVE  /\ Closed(q) \in RequestType /\ Closed(q).state = "gone"
           /\ Closed(q).decision = q.decision /\ Closed(q).reg = q.reg /\ Closed(q).bind = q.bind
  BY DEF Closed, RequestType

\* A code that is forgotten was taken, or could have been, and names nothing.
LEMMA ForgetFacts ==
    ASSUME NEW r \in Reqs, code[r] \in CodeType
    PROVE  /\ Forget(r) \in CodeType
           /\ \/ Forget(r) = code[r] /\ code[r].state \in {"none", "gone"}
              \/ /\ code[r].state \in {"live", "used"}
                 /\ Forget(r).state = "gone" /\ Forget(r).issued = None
<1>1. LET c == [NoCode EXCEPT !.state = "gone"]
      IN  c \in CodeType /\ c.state = "gone" /\ c.issued = None
  BY DEF NoCode, CodeType
<1>2. code[r].state \in {"none", "live", "used", "gone"}
  BY DEF CodeType
<1> QED
  BY <1>1, <1>2 DEF Forget

\* Dropping the expired requests closes some that are open.
LEMMA DroppedFacts ==
    ASSUME request \in [Reqs -> RequestType]
    PROVE  /\ Dropped \in [Reqs -> RequestType]
           /\ \A r \in Reqs : \/ Dropped[r] = request[r]
                              \/ request[r].state = "open" /\ Dropped[r] = Closed(request[r])
<1>1. \A r \in Reqs : Dropped[r] = IF request[r].state = "open" /\ request[r].expired
                                   THEN Closed(request[r]) ELSE request[r]
  BY DEF Dropped
<1>2. \A r \in Reqs : request[r] \in RequestType /\ Closed(request[r]) \in RequestType
  BY ClosedFacts
<1>3. Dropped = [r \in Reqs |-> Dropped[r]]
  BY DEF Dropped
<1> QED
  BY <1>1, <1>2, <1>3

\* What closing requests and forgetting codes may do, request by request.
Fades(r) ==
    /\ \/ request'[r] = request[r]
       \/ request[r].state = "open" /\ request'[r] = Closed(request[r])
    /\ \/ code'[r] = code[r]
       \/ code[r].state \in {"live", "used"} /\ code'[r].state = "gone" /\ code'[r].issued = None

\* That disturbs nobody.
LEMMA FadesStep ==
    ASSUME IInv, UNCHANGED <<burnt, cred>>, \A r \in Reqs : Fades(r)
    PROVE  ConsentKept /\ \A r \in Reqs : RequestOK(r)'
<1>1. ASSUME NEW r \in Reqs
      PROVE  /\ request[r] \in RequestType /\ code[r] \in CodeType /\ RequestOK(r)
             /\ Closed(request[r]).state = "gone"
             /\ Closed(request[r]).decision = request[r].decision
             /\ Closed(request[r]).bind = request[r].bind
  BY Types, ClosedFacts DEF IInv
<1>2. ConsentKept
  BY <1>1 DEF ConsentKept, Fades
<1>3. ASSUME NEW r \in Reqs PROVE RequestOK(r)'
  BY <1>1 DEF RequestOK, Fades
<1> QED
  BY <1>2, <1>3

\* A new request, with no code yet.
LEMMA BeginStep ==
    ASSUME IInv, NEW r \in Reqs, NEW g \in Regs
    PROVE  Begin(r, g) => IInv'
<1>1. SUFFICES ASSUME Begin(r, g) PROVE IInv'
  OBVIOUS
<1> DEFINE b == bound[g]
           q == [NoRequest EXCEPT !.state = "open", !.reg = g, !.suggested = b]
<1>2. /\ request[r].state = "unused" /\ request' = [Dropped EXCEPT ![r] = q]
      /\ UNCHANGED <<client, registry, bound, code, burnt, cred, gen, tokens, used, dead, calls,
                     punished>>
  BY <1>1 DEF Begin, regVars, tokenVars
<1>3. q \in RequestType /\ q.state = "open"
  <2>1. b \in Clients \cup {None}
    BY Types DEF IInv
  <2>2. NoRequest \in RequestType
    BY DEF NoRequest, RequestType
  <2> HIDE DEF b
  <2> QED
    BY <2>1, <2>2 DEF RequestType
<1> HIDE DEF q
<1>4. /\ request' \in [Reqs -> RequestType] /\ request'[r] = q
      /\ \A s \in Reqs \ {r} : request'[s] = Dropped[s]
  BY <1>2, <1>3, DroppedFacts, Types DEF IInv
<1>5. \A s \in Reqs \ {r} : Fades(s)
  BY <1>2, <1>4, DroppedFacts, Types DEF IInv, Fades
<1>6. ASSUME NEW s \in Reqs
      PROVE  /\ request[s] \in RequestType /\ code[s] \in CodeType /\ RequestOK(s)
             /\ Closed(request[s]).state = "gone"
             /\ Closed(request[s]).decision = request[s].decision
             /\ Closed(request[s]).bind = request[s].bind
  BY Types, ClosedFacts DEF IInv
<1>7. ConsentKept
  BY <1>2, <1>4, <1>5, <1>6 DEF ConsentKept, Fades, RequestOK
<1>8. \A s \in Reqs : RequestOK(s)'
  BY <1>2, <1>3, <1>4, <1>5, <1>6 DEF RequestOK, Fades
<1> QED
  BY <1>2, <1>4, <1>7, <1>8, MapsStep, Types DEF IInv

\* Listing the requests drops the expired ones.
LEMMA ListPendingStep ==
    ASSUME IInv
    PROVE  ListPending => IInv'
<1>1. SUFFICES ASSUME ListPending PROVE IInv'
  OBVIOUS
<1>2. /\ request' = Dropped
      /\ UNCHANGED <<client, registry, bound, code, burnt, cred, gen, tokens, used, dead, calls,
                     punished>>
  BY <1>1 DEF ListPending, regVars, tokenVars
<1>3. request' \in [Reqs -> RequestType] /\ \A r \in Reqs : Fades(r)
  BY <1>2, DroppedFacts, Types DEF IInv, Fades
<1> QED
  BY <1>2, <1>3, FadesStep, MapsStep, Types DEF IInv

\* The user decides on a request that is open, so that has no code.
LEMMA DecideStep ==
    ASSUME IInv, NEW r \in Reqs, NEW v \in {"approve", "deny"}, NEW p \in Clients \cup {None}
    PROVE  Decide(r, v, p) => IInv'
<1>1. SUFFICES ASSUME Decide(r, v, p) PROVE IInv'
  OBVIOUS
<1> DEFINE q == [request[r] EXCEPT !.decision = v, !.bind = p]
<1>2. /\ request[r].state = "open" /\ request' = [request EXCEPT ![r] = q]
      /\ UNCHANGED <<client, registry, bound, code, burnt, cred, gen, tokens, used, dead, calls,
                     punished>>
  BY <1>1 DEF Decide, Live, regVars, tokenVars
<1>3. q \in RequestType /\ q.state = request[r].state
  <2>1. request[r] \in RequestType
    BY Types DEF IInv
  <2> QED
    BY <2>1 DEF RequestType
<1> HIDE DEF q
<1>4. /\ request' \in [Reqs -> RequestType] /\ request'[r] = q
      /\ \A s \in Reqs \ {r} : request'[s] = request[s]
  BY <1>2, <1>3, Types DEF IInv
<1>5. ConsentKept
  BY <1>2, <1>4 DEF ConsentKept
<1>6. \A s \in Reqs : RequestOK(s)'
  BY <1>2, <1>3, <1>4 DEF IInv, RequestOK
<1> QED
  BY <1>2, <1>4, <1>5, <1>6, MapsStep, Types DEF IInv

\* The poll that ends a request gives an approved one its code, for the
\* principal the user named.
LEMMA PollStep ==
    ASSUME IInv, NEW r \in Reqs
    PROVE  Poll(r) => IInv'
<1>1. SUFFICES ASSUME Poll(r) PROVE IInv'
  OBVIOUS
<1> DEFINE b == Choice(request[r].bind, request[r].suggested)
           n == [NoCode EXCEPT !.state = "live", !.bind = b]
<1>2. /\ request[r].state = "open" /\ request' = [request EXCEPT ![r] = Closed(request[r])]
      /\ \/ code' = code
         \/ request[r].decision = "approve" /\ code' = [code EXCEPT ![r] = n]
      /\ UNCHANGED <<client, registry, bound, burnt, cred, gen, tokens, used, dead, calls,
                     punished>>
  BY <1>1 DEF Poll, regVars, tokenVars
<1>3. request[r] \in RequestType /\ code[r] \in CodeType /\ RequestOK(r)
  BY Types DEF IInv
<1>4. b \in Clients \cup {None} /\ (request[r].bind # None => b = request[r].bind)
  BY <1>3 DEF Choice, RequestType
<1> HIDE DEF b
<1>5. n \in CodeType /\ n.state = "live" /\ n.bind = b /\ n.issued = None
  BY <1>4 DEF NoCode, CodeType
<1> HIDE DEF n
<1>6. /\ request' \in [Reqs -> RequestType] /\ request'[r] = Closed(request[r])
      /\ \A s \in Reqs \ {r} : request'[s] = request[s]
  BY <1>2, <1>3, ClosedFacts, Types DEF IInv
<1>7. /\ code' \in [Reqs -> CodeType]
      /\ code'[r] = code[r] \/ (request[r].decision = "approve" /\ code'[r] = n)
      /\ \A s \in Reqs \ {r} : code'[s] = code[s]
  BY <1>2, <1>3, <1>5, Types DEF IInv
<1>8. code[r].state = "none" /\ r \notin burnt
  BY <1>2, <1>3 DEF RequestOK
<1>9. ConsentKept
  BY <1>2, <1>6, <1>7, <1>8 DEF ConsentKept
<1>10. RequestOK(r)'
  <2>1. /\ request'[r].state = "gone" /\ request'[r].decision = request[r].decision
        /\ request'[r].bind = request[r].bind
    BY <1>3, <1>6, ClosedFacts
  <2> QED
    BY <1>2, <1>3, <1>4, <1>5, <1>7, <1>8, <2>1 DEF RequestOK
<1>11. \A s \in Reqs : RequestOK(s)'
  BY <1>2, <1>6, <1>7, <1>10 DEF IInv, RequestOK
<1> QED
  BY <1>2, <1>6, <1>7, <1>9, <1>11, MapsStep, Types DEF IInv

\* A request or a code expires.
LEMMA ExpireStep ==
    ASSUME IInv, NEW r \in Reqs
    PROVE  ExpireRequest(r) \/ ExpireCode(r) => IInv'
<1>1. ASSUME ExpireRequest(r) PROVE IInv'
  <2> DEFINE q == [request[r] EXCEPT !.expired = TRUE]
  <2>1. /\ request' = [request EXCEPT ![r] = q]
        /\ UNCHANGED <<client, registry, bound, code, burnt, cred, gen, tokens, used, dead, calls,
                       punished>>
    BY <1>1 DEF ExpireRequest, regVars, tokenVars
  <2>2. /\ q \in RequestType /\ q.state = request[r].state /\ q.decision = request[r].decision
        /\ q.reg = request[r].reg /\ q.bind = request[r].bind
    <3>1. request[r] \in RequestType
      BY Types DEF IInv
    <3> QED
      BY <3>1 DEF RequestType
  <2> HIDE DEF q
  <2>3. /\ request' \in [Reqs -> RequestType] /\ request'[r] = q
        /\ \A s \in Reqs \ {r} : request'[s] = request[s]
    BY <2>1, <2>2, Types DEF IInv
  <2>4. ConsentKept /\ \A s \in Reqs : RequestOK(s)'
    BY <2>1, <2>2, <2>3 DEF IInv, ConsentKept, RequestOK
  <2> QED
    BY <2>1, <2>3, <2>4, MapsStep, Types DEF IInv
<1>2. ASSUME ExpireCode(r) PROVE IInv'
  <2> DEFINE q == [code[r] EXCEPT !.expired = TRUE]
  <2>1. /\ code' = [code EXCEPT ![r] = q]
        /\ UNCHANGED <<client, registry, bound, request, burnt, cred, gen, tokens, used, dead,
                       calls, punished>>
    BY <1>2 DEF ExpireCode, regVars, tokenVars
  <2>2. /\ q \in CodeType /\ q.state = code[r].state /\ q.issued = code[r].issued
        /\ q.bind = code[r].bind
    <3>1. code[r] \in CodeType
      BY Types DEF IInv
    <3> QED
      BY <3>1 DEF CodeType
  <2> HIDE DEF q
  <2>3. /\ code' \in [Reqs -> CodeType] /\ code'[r] = q
        /\ \A s \in Reqs \ {r} : code'[s] = code[s]
    BY <2>1, <2>2, Types DEF IInv
  <2>4. ConsentKept /\ \A s \in Reqs : RequestOK(s)'
    BY <2>1, <2>2, <2>3 DEF IInv, ConsentKept, RequestOK
  <2> QED
    BY <2>1, <2>3, <2>4, MapsStep, Types DEF IInv
<1> QED
  BY <1>1, <1>2

\* Cleaning up closes requests and forgets codes.
LEMMA CleanupStep ==
    ASSUME IInv
    PROVE  Cleanup => IInv'
<1>1. SUFFICES ASSUME Cleanup PROVE IInv'
  OBVIOUS
<1>2. PICK old \in SUBSET {r \in Reqs : code[r].expired \/ code[r].state = "used"} :
         code' = [r \in Reqs |-> IF r \in old THEN Forget(r) ELSE code[r]]
  BY <1>1 DEF Cleanup
<1>3. /\ request' = Dropped
      /\ UNCHANGED <<client, registry, bound, burnt, cred, gen, tokens, used, dead, calls, punished>>
  BY <1>1 DEF Cleanup, regVars, tokenVars
<1>4. code' \in [Reqs -> CodeType]
  BY <1>2, ForgetFacts, Types DEF IInv
<1>5. request' \in [Reqs -> RequestType] /\ \A r \in Reqs : Fades(r)
  BY <1>2, <1>3, DroppedFacts, ForgetFacts, Types DEF IInv, Fades
<1> QED
  BY <1>3, <1>4, <1>5, FadesStep, MapsStep, Types DEF IInv

\* So do Emergency Stop and a restart, which also ends the token requests.
LEMMA EmptiedStep ==
    ASSUME IInv
    PROVE  Reset \/ Restart => IInv'
<1>1. SUFFICES ASSUME Reset \/ Restart PROVE IInv'
  OBVIOUS
<1>2. /\ request' = [r \in Reqs |-> IF request[r].state = "open" THEN Closed(request[r])
                                    ELSE request[r]]
      /\ code' = [r \in Reqs |-> Forget(r)]
      /\ UNCHANGED <<client, registry, bound, burnt, cred, gen, tokens, used, dead, punished>>
      /\ calls' = calls \/ calls' = [k \in Calls |-> NoCall]
  BY <1>1 DEF Reset, Restart, Emptied, regVars, tokenVars
<1>3. NoCall \in CallType /\ NoCall.step = "idle"
  BY BoundsAssumption DEF NoCall, CallType, Steps
<1>4. calls' \in [Calls -> CallType] /\ \A k \in Calls : calls'[k] = calls[k] \/ calls'[k].step = "idle"
  BY <1>2, <1>3, Types DEF IInv
<1>5. code' \in [Reqs -> CodeType] /\ request' \in [Reqs -> RequestType]
  BY <1>2, ForgetFacts, ClosedFacts, Types DEF IInv
<1>6. \A r \in Reqs : Fades(r)
  BY <1>2, ForgetFacts, Types DEF IInv, Fades
<1> QED
  BY <1>2, <1>4, <1>5, <1>6, FadesStep, MapsStep

-----------------------------------------------------------------------------
(* Principals and credentials.                                             *)

\* A principal is created, enabled or disabled, or a token expires.
LEMMA OutsideStep ==
    ASSUME IInv
    PROVE  /\ \A p \in Clients : CreateClient(p) => IInv'
           /\ \A p \in Clients, s \in {"enabled", "disabled"} : SetClientEnabled(p, s) => IInv'
           /\ \A t \in Token : ExpireToken(t) => IInv'
<1>1. ASSUME UNCHANGED <<registry, bound, request, code, burnt, cred, gen, tokens, used, calls,
                         punished>>,
             client' \in [Clients -> {"absent", "enabled", "disabled"}],
             dead' \in SUBSET Token
      PROVE  IInv'
  <2>1. TypeOK'
    BY <1>1 DEF IInv, TypeOK
  <2> QED
    BY <1>1, <2>1, Frame, CredsSame, RequestsKeep
<1>2. ASSUME NEW p \in Clients, CreateClient(p) PROVE IInv'
  BY <1>1, <1>2, Types DEF IInv, CreateClient, regVars, codeVars, tokenVars
<1>3. ASSUME NEW p \in Clients, NEW s \in {"enabled", "disabled"}, SetClientEnabled(p, s)
      PROVE  IInv'
  BY <1>1, <1>3, Types DEF IInv, SetClientEnabled, regVars, codeVars, tokenVars
<1>4. ASSUME NEW t \in Token, ExpireToken(t) PROVE IInv'
  BY <1>1, <1>4, Types DEF IInv, ExpireToken, regVars, codeVars, tokenVars
<1> QED
  BY <1>2, <1>3, <1>4

\* A credential that is changed in its state or its switch only.
LEMMA CredPut ==
    ASSUME IInv, NEW c \in Creds, NEW v \in CredType, cred' = [cred EXCEPT ![c] = v],
           v.from = cred[c].from, v.reg = cred[c].reg, v.client = cred[c].client,
           v.state = "none" <=> cred[c].state = "none",
           cred[c].state = "revoked" => v.state = "revoked",
           punished' = punished \/ (punished' = punished \cup {c} /\ v.state = "revoked")
    PROVE  CredsKept /\ cred' \in [Creds -> CredType]
<1>1. /\ cred' \in [Creds -> CredType] /\ cred'[c] = v
      /\ \A d \in Creds \ {c} : cred'[d] = cred[d]
  BY Types DEF IInv
<1> QED
  BY <1>1 DEF CredsKept

\* revoke_credential of a credential that was issued.
LEMMA RevokeFacts ==
    ASSUME IInv, NEW c \in Creds, cred[c].state # "none", RevokeRows(c),
           punished' = punished \/ punished' = punished \cup {c}
    PROVE  CredsKept /\ cred' \in [Creds -> CredType] /\ dead' \in SUBSET Token
<1> DEFINE v == [cred[c] EXCEPT !.state = "revoked", !.enabled = FALSE]
<1>1. cred' = [cred EXCEPT ![c] = v] /\ dead' \in SUBSET Token
  BY Types DEF IInv, RevokeRows
<1>2. /\ v \in CredType /\ v.state = "revoked" /\ v.from = cred[c].from /\ v.reg = cred[c].reg
      /\ v.client = cred[c].client
  <2>1. cred[c] \in CredType
    BY Types DEF IInv
  <2> QED
    BY <2>1 DEF CredType
<1> HIDE DEF v
<1> QED
  BY <1>1, <1>2, CredPut

\* Whether or not the revocation is written, the credentials stay in order.
LEMMA PunishFacts ==
    ASSUME IInv, NEW c \in Creds, cred[c].state # "none", Punish(c)
    PROVE  /\ CredsKept /\ cred' \in [Creds -> CredType] /\ dead' \in SUBSET Token
           /\ punished' \in SUBSET Creds
<1>1. CASE RevokeRows(c) /\ punished' = punished \cup {c}
  BY <1>1, RevokeFacts, Types DEF IInv
<1>2. CASE UNCHANGED <<cred, dead, punished>>
  BY <1>2, CredsSame, Types DEF IInv
<1> QED
  BY <1>1, <1>2 DEF Punish

\* The user switches or revokes a credential.
LEMMA CredentialStep ==
    ASSUME IInv, NEW c \in Creds
    PROVE  /\ RevokeCredential(c) => IInv'
           /\ \A on \in BOOLEAN : SetCredentialEnabled(c, on) => IInv'
<1>1. ASSUME CredsKept, cred' \in [Creds -> CredType], dead' \in SUBSET Token,
             UNCHANGED <<client, registry, bound, request, code, burnt, gen, tokens, used, calls,
                         punished>>
      PROVE  IInv'
  <2>1. TypeOK'
    BY <1>1 DEF IInv, TypeOK, CredType
  <2> QED
    BY <1>1, <2>1, Frame, RequestsKeep
<1>2. ASSUME RevokeCredential(c) PROVE IInv'
  <2>1. /\ cred[c].state # "none" /\ RevokeRows(c)
        /\ UNCHANGED <<client, registry, bound, request, code, burnt, gen, tokens, used, calls,
                       punished>>
    BY <1>2 DEF RevokeCredential, regVars, codeVars, tokenVars
  <2> QED
    BY <1>1, <2>1, RevokeFacts
<1>3. ASSUME NEW on \in BOOLEAN, SetCredentialEnabled(c, on) PROVE IInv'
  <2> DEFINE v == [cred[c] EXCEPT !.enabled = on]
  <2>1. /\ cred' = [cred EXCEPT ![c] = v]
        /\ UNCHANGED <<client, registry, bound, request, code, burnt, gen, tokens, used, dead,
                       calls, punished>>
    BY <1>3 DEF SetCredentialEnabled, regVars, codeVars, tokenVars
  <2>2. /\ v \in CredType /\ v.state = cred[c].state /\ v.from = cred[c].from
        /\ v.reg = cred[c].reg /\ v.client = cred[c].client
    <3>1. cred[c] \in CredType
      BY Types DEF IInv
    <3> QED
      BY <3>1 DEF CredType
  <2> HIDE DEF v
  <2>3. CredsKept /\ cred' \in [Creds -> CredType]
    BY <2>1, <2>2, CredPut
  <2> QED
    BY <1>1, <2>1, <2>3, Types DEF IInv
<1> QED
  BY <1>2, <1>3

-----------------------------------------------------------------------------
(* Token requests.                                                         *)

\* The answer ends the token request.
LEMMA AnswerFacts ==
    ASSUME NEW k \in Calls, calls \in [Calls -> CallType], Answer(k)
    PROVE  /\ calls' \in [Calls -> CallType]
           /\ \A j \in Calls : calls'[j] = calls[j] \/ calls'[j].step = "idle"
<1>1. NoCall \in CallType /\ NoCall.step = "idle"
  BY BoundsAssumption DEF NoCall, CallType, Steps
<1>2. calls' = [calls EXCEPT ![k] = NoCall]
  BY DEF Answer
<1> QED
  BY <1>1, <1>2

\* The next step of a token request.
LEMMA GotoFacts ==
    ASSUME NEW k \in Calls, calls \in [Calls -> CallType], NEW s \in Steps, Goto(k, s)
    PROVE  \E c \in CallType :
              /\ calls' = [calls EXCEPT ![k] = c]
              /\ c.step = s /\ c.req = calls[k].req /\ c.reg = calls[k].reg
              /\ c.known = calls[k].known /\ c.cred = calls[k].cred /\ c.gen = calls[k].gen
<1> DEFINE c == [calls[k] EXCEPT !.step = s]
<1>1. calls[k] \in CallType
  OBVIOUS
<1>2. /\ c \in CallType
      /\ c.step = s /\ c.req = calls[k].req /\ c.reg = calls[k].reg
      /\ c.known = calls[k].known /\ c.cred = calls[k].cred /\ c.gen = calls[k].gen
  BY <1>1 DEF CallType
<1>3. calls' = [calls EXCEPT ![k] = c]
  BY DEF Goto
<1> HIDE DEF c
<1> QED
  BY <1>2, <1>3

\* A token request that starts with a code.
LEMMA TakeFacts ==
    ASSUME NEW r \in Reqs, NEW g \in Regs, NEW b \in Clients \cup {None}
    PROVE  \E c \in CallType : /\ c = [NoCall EXCEPT !.step = "take", !.req = r, !.reg = g, !.known = b]
                               /\ c.step = "take" /\ c.req = r
<1> DEFINE c == [NoCall EXCEPT !.step = "take", !.req = r, !.reg = g, !.known = b]
<1>1. NoCall \in CallType
  BY BoundsAssumption DEF NoCall, CallType, Steps
<1>2. c \in CallType /\ c.step = "take" /\ c.req = r
  BY <1>1 DEF CallType, Steps
<1> HIDE DEF c
<1>3. c = [NoCall EXCEPT !.step = "take", !.req = r, !.reg = g, !.known = b]
  BY DEF c
<1> QED
  BY <1>2, <1>3

\* A token request that starts with a refresh token.
LEMMA ReadFacts ==
    ASSUME NEW d \in Creds, NEW n \in 0..MaxGen, NEW g \in Regs
    PROVE  \E c \in CallType : /\ c = [NoCall EXCEPT !.step = "read", !.cred = d, !.gen = n, !.reg = g]
                               /\ c.step = "read" /\ c.cred = d
<1> DEFINE c == [NoCall EXCEPT !.step = "read", !.cred = d, !.gen = n, !.reg = g]
<1>1. NoCall \in CallType
  BY BoundsAssumption DEF NoCall, CallType, Steps
<1>2. c \in CallType /\ c.step = "read" /\ c.cred = d
  BY <1>1 DEF CallType, Steps
<1> HIDE DEF c
<1>3. c = [NoCall EXCEPT !.step = "read", !.cred = d, !.gen = n, !.reg = g]
  BY DEF c
<1> QED
  BY <1>2, <1>3

\* A token request that is left with nothing but its credential.
LEMMA IssueFacts ==
    ASSUME NEW d \in Creds
    PROVE  \E c \in CallType : /\ c = [NoCall EXCEPT !.step = "issue", !.cred = d]
                               /\ c.step = "issue" /\ c.cred = d
<1> DEFINE c == [NoCall EXCEPT !.step = "issue", !.cred = d]
<1>1. NoCall \in CallType
  BY BoundsAssumption DEF NoCall, CallType, Steps
<1>2. c \in CallType /\ c.step = "issue" /\ c.cred = d
  BY <1>1 DEF CallType, Steps
<1> HIDE DEF c
<1>3. c = [NoCall EXCEPT !.step = "issue", !.cred = d]
  BY DEF c
<1> QED
  BY <1>2, <1>3

\* A token request starts, or fails.
LEMMA StartStep ==
    ASSUME IInv, NEW k \in Calls
    PROVE  /\ \A r \in Reqs, g \in Regs : BeginExchange(k, r, g) => IInv'
           /\ \A d \in Creds, n \in 1..MaxGen, g \in Regs : BeginRefresh(k, d, n, g) => IInv'
           /\ CallFails(k) => IInv'
<1>1. ASSUME UNCHANGED <<client, registry, bound, request, code, burnt, cred, gen, tokens, used,
                         dead, punished>>,
             calls' \in [Calls -> CallType]
      PROVE  TypeOK'
  BY <1>1 DEF IInv, TypeOK, CallType, Steps
<1>2. ASSUME NEW r \in Reqs, NEW g \in Regs, BeginExchange(k, r, g) PROVE IInv'
  <2>1. PICK b \in Clients \cup {None} : b = bound[g]
    BY Types DEF IInv
  <2>2. PICK c \in CallType : calls' = [calls EXCEPT ![k] = c] /\ c.step = "take" /\ c.req = r
    <3>1. calls' = [calls EXCEPT ![k] = [NoCall EXCEPT !.step = "take", !.req = r, !.reg = g,
                                                       !.known = b]]
      BY <1>2, <2>1 DEF BeginExchange
    <3>2. PICK c \in CallType :
             /\ c = [NoCall EXCEPT !.step = "take", !.req = r, !.reg = g, !.known = b]
             /\ c.step = "take" /\ c.req = r
      BY TakeFacts, ZenonT(40)
    <3>3. calls' = [calls EXCEPT ![k] = c]
      BY <3>1, <3>2, Zenon
    <3> QED
      BY <3>2, <3>3, Zenon
  <2>3. CallOK(c)
    BY <2>2, NoneAssumption DEF CallOK, Holding, Issuing
  <2>4. UNCHANGED <<client, registry, bound, request, code, burnt, cred, gen, tokens, used, dead,
                    punished>>
    BY <1>2 DEF BeginExchange, regVars, codeVars, tokenVars
  <2>5. TypeOK'
    BY <1>1, <2>2, <2>4, Types DEF IInv
  <2> QED
    BY <2>2, <2>3, <2>4, <2>5, Moves DEF Holding, Issuing
<1>3. ASSUME NEW d \in Creds, NEW n \in 1..MaxGen, NEW g \in Regs, BeginRefresh(k, d, n, g)
      PROVE  IInv'
  <2>1. PICK c \in CallType : calls' = [calls EXCEPT ![k] = c] /\ c.step = "read" /\ c.cred = d
    <3>1. n \in 0..MaxGen
      BY BoundsAssumption
    <3>2. calls' = [calls EXCEPT ![k] = [NoCall EXCEPT !.step = "read", !.cred = d, !.gen = n,
                                                       !.reg = g]]
      BY <1>3 DEF BeginRefresh
    <3>3. PICK c \in CallType :
             /\ c = [NoCall EXCEPT !.step = "read", !.cred = d, !.gen = n, !.reg = g]
             /\ c.step = "read" /\ c.cred = d
      BY <3>1, ReadFacts, ZenonT(40)
    <3>4. calls' = [calls EXCEPT ![k] = c]
      BY <3>2, <3>3, Zenon
    <3> QED
      BY <3>3, <3>4, Zenon
  <2>2. cred[d].state # "none"
    <3>1. gen[d] # 0
      BY <1>3, Types DEF IInv, BeginRefresh
    <3> QED
      BY <3>1 DEF IInv, CredOK
  <2>3. CallOK(c)
    BY <2>1, <2>2, NoneAssumption DEF CallOK, Holding, Issuing
  <2>4. UNCHANGED <<client, registry, bound, request, code, burnt, cred, gen, tokens, used, dead,
                    punished>>
    BY <1>3 DEF BeginRefresh, regVars, codeVars, tokenVars
  <2>5. TypeOK'
    BY <1>1, <2>1, <2>4, Types DEF IInv
  <2> QED
    BY <2>1, <2>3, <2>4, <2>5, Moves DEF Holding, Issuing
<1>4. ASSUME CallFails(k) PROVE IInv'
  <2>1. /\ Answer(k)
        /\ UNCHANGED <<client, registry, bound, request, code, burnt, cred, gen, tokens, used, dead,
                       punished>>
    BY <1>4 DEF CallFails, regVars, codeVars, tokenVars
  <2>2. /\ calls' \in [Calls -> CallType]
        /\ \A j \in Calls : calls'[j] = calls[j] \/ calls'[j].step = "idle"
    BY <2>1, AnswerFacts, Types DEF IInv
  <2>3. TypeOK'
    BY <1>1, <2>1, <2>2
  <2> QED
    BY <2>1, <2>2, <2>3, Frame, CredsSame, RequestsKeep
<1> QED
  BY <1>2, <1>3, <1>4

\* The first caller takes the code, a later one revokes what was issued from it.
LEMMA TakeCodeStep ==
    ASSUME IInv, NEW k \in Calls, NEW proves \in BOOLEAN
    PROVE  TakeCode(k, proves) => IInv'
<1>1. SUFFICES ASSUME TakeCode(k, proves) PROVE IInv'
  OBVIOUS
<1> DEFINE r == calls[k].req
           accepted == proves /\ calls[k].reg = request[r].reg /\ ~code[r].expired
<1>2. /\ calls[k].step = "take"
      /\ UNCHANGED <<client, registry, bound, request, gen, tokens, used>>
  BY <1>1 DEF TakeCode, regVars, tokenVars
<1>3. /\ calls[k] \in CallType /\ r \in Reqs /\ RequestOK(r)
      /\ request[r] \in RequestType /\ code[r] \in CodeType
  <2>1. calls[k] \in CallType /\ r # None
    BY <1>2, Types DEF IInv, CallOK
  <2>2. r \in Reqs
    BY <2>1 DEF CallType
  <2> QED
    BY <2>1, <2>2, Types DEF IInv
<1>4. ASSUME Answer(k), UNCHANGED <<request, code, burnt>>, CredsKept,
             cred' \in [Creds -> CredType], dead' \in SUBSET Token, punished' \in SUBSET Creds
      PROVE  IInv'
  <2>1. /\ calls' \in [Calls -> CallType]
        /\ \A j \in Calls : calls'[j] = calls[j] \/ calls'[j].step = "idle"
    BY <1>4, AnswerFacts, Types DEF IInv
  <2>2. TypeOK'
    BY <1>2, <1>4, <2>1 DEF IInv, TypeOK, CallType, Steps, CredType
  <2> QED
    BY <1>2, <1>4, <2>1, <2>2, Frame, RequestsKeep
<1>5. CASE /\ Answer(k)
           /\ UNCHANGED <<code, burnt, cred, dead, punished>>
  BY <1>2, <1>4, <1>5, CredsSame, Types DEF IInv
<1>6. CASE /\ Answer(k) /\ UNCHANGED <<code, burnt>>
           /\ code[r].issued # None /\ Punish(code[r].issued)
  <2>1. PICK c \in Creds : c = code[r].issued /\ cred[c].state # "none"
    BY <1>3, <1>6 DEF RequestOK, CodeType
  <2>2. /\ CredsKept /\ cred' \in [Creds -> CredType] /\ dead' \in SUBSET Token
        /\ punished' \in SUBSET Creds
    BY <1>6, <2>1, PunishFacts
  <2> QED
    BY <1>2, <1>4, <1>6, <2>2
<1>7. CASE /\ code[r].state = "live"
           /\ code' = [code EXCEPT ![r].state = "used", ![r].expired = FALSE]
           /\ burnt' = IF accepted THEN burnt ELSE burnt \cup {r}
           /\ IF accepted
              THEN calls' = [calls EXCEPT ![k].step = "bind", ![k].known = Principal(k)]
              ELSE Answer(k)
           /\ UNCHANGED <<cred, dead, punished>>
  <2>1. /\ code' \in [Reqs -> CodeType] /\ code'[r].state = "used"
        /\ code'[r].issued = code[r].issued
        /\ \A s \in Reqs \ {r} : code'[s] = code[s]
    <3> DEFINE q == [code[r] EXCEPT !.state = "used", !.expired = FALSE]
    <3>1. q \in CodeType /\ q.state = "used" /\ q.issued = code[r].issued
      BY <1>3 DEF CodeType
    <3>2. code' = [code EXCEPT ![r] = q]
      BY <1>7
    <3> HIDE DEF q
    <3> QED
      BY <1>3, <3>1, <3>2, Types DEF IInv
  <2>2. request[r].state = "gone" /\ request[r].decision = "approve" /\ r \notin burnt
        /\ (request[r].bind # None => code[r].bind = request[r].bind)
    BY <1>3, <1>7 DEF RequestOK, RequestType
  <2>3. /\ \A s \in Reqs \ {r} : s \in burnt' <=> s \in burnt
        /\ burnt' \in SUBSET Reqs /\ (accepted => r \notin burnt')
    BY <1>3, <1>7, <2>2, Types DEF IInv
  <2>4. ConsentKept
    BY <1>2, <1>7, <2>1, <2>3 DEF ConsentKept
  <2>5. CredsKept
    BY <1>7, CredsSame
  <2>6. ASSUME NEW s \in Reqs PROVE RequestOK(s)'
    <3>1. RequestOK(s)
      BY DEF IInv
    <3>2. request' = request /\ cred' = cred
      BY <1>2, <1>7
    <3>3. CASE s = r
      BY <2>1, <2>2, <3>1, <3>2, <3>3 DEF RequestOK
    <3>4. CASE s # r
      <4>1. code'[s] = code[s] /\ (s \in burnt' <=> s \in burnt)
        BY <2>1, <2>3, <3>4
      <4> QED
        BY <3>1, <3>2, <4>1 DEF RequestOK
    <3> QED
      BY <3>3, <3>4
  <2>7. ASSUME calls' \in [Calls -> CallType] PROVE TypeOK'
    BY <1>2, <1>7, <2>1, <2>3, <2>7 DEF IInv, TypeOK, CallType, Steps, CodeType
  <2>8. CASE ~accepted
    <3>1. /\ calls' \in [Calls -> CallType]
          /\ \A j \in Calls : calls'[j] = calls[j] \/ calls'[j].step = "idle"
      BY <1>7, <2>8, AnswerFacts, Types DEF IInv
    <3> QED
      BY <1>2, <2>4, <2>5, <2>6, <2>7, <3>1, Frame
  <2>9. CASE accepted
    <3>1. PICK p \in Clients \cup {None} :
             p = Principal(k) /\ (request[r].bind # None => p = request[r].bind)
      BY <1>3, <2>2 DEF Principal, Choice, CodeType, CallType
    <3>2. PICK c \in CallType :
             /\ calls' = [calls EXCEPT ![k] = c]
             /\ c.step = "bind" /\ c.req = r /\ c.reg = calls[k].reg /\ c.known = p
      <4>1. calls' = [calls EXCEPT ![k].step = "bind", ![k].known = p]
        BY <1>7, <2>9, <3>1
      <4>2. PICK v \in CallType : v = calls[k]
        BY <1>3
      <4>3. calls' = [calls EXCEPT ![k] = [v EXCEPT !.step = "bind", !.known = p]]
        BY <4>1, <4>2
      <4> DEFINE c == [v EXCEPT !.step = "bind", !.known = p]
      <4>4. /\ c \in CallType /\ c.step = "bind" /\ c.req = v.req /\ c.reg = v.reg
            /\ c.known = p
        BY DEF CallType, Steps
      <4> HIDE DEF c
      <4>5. calls' = [calls EXCEPT ![k] = c]
        BY <4>3 DEF c
      <4> QED
        BY <4>2, <4>4, <4>5, Zenon
    <3>3. \A d \in Creds : cred[d].from # r
      <4> SUFFICES ASSUME NEW d \in Creds, cred[d].from = r PROVE FALSE
        OBVIOUS
      <4>1. CredOK(d) /\ r # None
        BY <1>3, NoneAssumption DEF IInv
      <4>2. code[r].state \in {"used", "gone"}
        BY <4>1 DEF CredOK, Consented
      <4> QED
        BY <1>7, <4>2
    <3>4. CallOK(c)'
      <4>1. Consented(c.req, c.reg, c.known)'
        BY <1>2, <1>3, <2>1, <2>2, <2>3, <2>9, <3>1, <3>2 DEF Consented
      <4> QED
        BY <1>3, <1>7, <3>2, <3>3, <4>1, NoneAssumption DEF CallOK, Holding, Issuing
    <3>5. \A j \in Calls : calls[j].step \in Holding => calls[j].req # c.req
      <4> SUFFICES ASSUME NEW j \in Calls, calls[j].step \in Holding, calls[j].req = r PROVE FALSE
        BY <3>2
      <4>1. Consented(r, calls[j].reg, calls[j].known)
        BY DEF IInv, CallOK
      <4> QED
        BY <1>7, <4>1 DEF Consented
    <3>6. TypeOK'
      BY <2>7, <3>2, Types DEF IInv
    <3> QED
      BY <1>2, <2>4, <2>5, <2>6, <3>2, <3>4, <3>5, <3>6, MovesOn DEF Issuing
  <2> QED
    BY <2>8, <2>9
<1> QED
  BY <1>1, <1>5, <1>6, <1>7 DEF TakeCode

\* The token request finds or creates its principal.
LEMMA BindStep ==
    ASSUME IInv, NEW k \in Calls
    PROVE  Bind(k) => IInv'
<1>1. SUFFICES ASSUME Bind(k) PROVE IInv'
  OBVIOUS
<1>2. /\ calls[k].step = "bind" /\ calls[k] \in CallType /\ CallOK(calls[k])
      /\ UNCHANGED <<registry, bound, request, code, burnt, cred, gen, tokens, used, dead, punished>>
      /\ calls \in [Calls -> CallType] /\ "insert" \in Steps
  BY <1>1, Types DEF Bind, IInv, regVars, codeVars, tokenVars, Steps
<1>3. client' \in [Clients -> {"absent", "enabled", "disabled"}]
  BY <1>1, Types DEF IInv, Bind
<1>4. PICK c \in CallType :
         /\ calls' = [calls EXCEPT ![k] = c]
         /\ c.step = "insert" /\ c.req = calls[k].req /\ c.reg = calls[k].reg /\ c.known # None
         /\ calls[k].known # None => c.known = calls[k].known
  <2>1. CASE calls[k].known # None /\ Goto(k, "insert")
    BY <1>2, <2>1, GotoFacts
  <2>2. ASSUME calls[k].known = None, NEW p \in Clients,
               calls' = [calls EXCEPT ![k].step = "insert", ![k].known = p]
        PROVE  \E c \in CallType :
                  /\ calls' = [calls EXCEPT ![k] = c]
                  /\ c.step = "insert" /\ c.req = calls[k].req /\ c.reg = calls[k].reg
                  /\ c.known # None
                  /\ calls[k].known # None => c.known = calls[k].known
    <3>1. p \in Clients \cup {None} /\ p # None
      BY NoneAssumption
    <3>2. PICK v \in CallType : v = calls[k]
      BY <1>2
    <3>3. calls' = [calls EXCEPT ![k] = [v EXCEPT !.step = "insert", !.known = p]]
      BY <2>2, <3>2
    <3> DEFINE c == [v EXCEPT !.step = "insert", !.known = p]
    <3>4. c \in CallType /\ c.step = "insert" /\ c.req = v.req /\ c.reg = v.reg /\ c.known = p
      BY <3>1 DEF CallType, Steps
    <3> HIDE DEF c
    <3>5. calls' = [calls EXCEPT ![k] = c]
      BY <3>3 DEF c
    <3> QED
      BY <2>2, <3>1, <3>2, <3>4, <3>5, Zenon
  <2> QED
    BY <1>1, <2>1, <2>2 DEF Bind
<1>5. CallOK(c)
  <2>1. Consented(c.req, c.reg, c.known)
    BY <1>2, <1>4 DEF CallOK, Consented, Holding
  <2> QED
    BY <1>2, <1>4, <2>1 DEF CallOK, Holding, Issuing
<1>6. TypeOK'
  BY <1>2, <1>3, <1>4 DEF IInv, TypeOK, CallType, Steps
<1> QED
  BY <1>2, <1>4, <1>5, <1>6, Moves DEF Holding, Issuing

\* The registration learns its principal.
LEMMA RecordPrincipalStep ==
    ASSUME IInv, NEW k \in Calls
    PROVE  RecordPrincipal(k) => IInv'
<1>1. SUFFICES ASSUME RecordPrincipal(k) PROVE IInv'
  OBVIOUS
<1>2. /\ calls[k].step = "record" /\ calls[k] \in CallType /\ CallOK(calls[k])
      /\ UNCHANGED <<client, registry, request, code, burnt, cred, gen, tokens, used, dead, punished>>
      /\ calls \in [Calls -> CallType] /\ "note" \in Steps
  BY <1>1, Types DEF RecordPrincipal, IInv, codeVars, tokenVars, Steps
<1>3. bound' \in [Regs -> Clients \cup {None}]
  <2>1. calls[k].known \in Clients \cup {None}
    BY <1>2 DEF CallType
  <2>2. bound' = bound \/ bound' = [bound EXCEPT ![calls[k].reg] = calls[k].known]
    BY <1>1 DEF RecordPrincipal
  <2> QED
    BY <2>1, <2>2, Types DEF IInv
<1>4. PICK c \in CallType :
         /\ calls' = [calls EXCEPT ![k] = c]
         /\ c.step = "note" /\ c.req = calls[k].req /\ c.reg = calls[k].reg
         /\ c.known = calls[k].known /\ c.cred = calls[k].cred
  <2>1. Goto(k, "note")
    BY <1>1 DEF RecordPrincipal
  <2> QED
    BY <1>2, <2>1, GotoFacts
<1>5. CallOK(c)
  BY <1>2, <1>4 DEF CallOK, Holding, Issuing
<1>6. TypeOK'
  BY <1>2, <1>3, <1>4 DEF IInv, TypeOK, CallType, Steps
<1> QED
  BY <1>2, <1>4, <1>5, <1>6, Moves DEF Holding, Issuing

\* A credential is stored for the code that was taken, its first and only one.
LEMMA InsertCredentialStep ==
    ASSUME IInv, NEW k \in Calls, NEW c \in Creds
    PROVE  InsertCredential(k, c) => IInv'
<1>1. SUFFICES ASSUME InsertCredential(k, c) PROVE IInv'
  OBVIOUS
<1>2. /\ calls[k].step = "insert" /\ cred[c].state = "none"
      /\ UNCHANGED <<client, registry, bound, request, code, burnt, gen, tokens, used, dead,
                     punished>>
  BY <1>1 DEF InsertCredential, regVars, codeVars, tokenVars
<1>3. PICK u \in CallType : u = calls[k] /\ CallOK(u)
  BY Types DEF IInv
<1>4. /\ u.step = "insert" /\ u.req \in Reqs /\ u.known # None /\ Consented(u.req, u.reg, u.known)
      /\ \A d \in Creds : cred[d].from # u.req
  BY <1>2, <1>3 DEF CallOK, CallType, Holding
<1>5. PICK v \in CredType :
         /\ cred' = [cred EXCEPT ![c] = v]
         /\ v.state = "oauth" /\ v.client = u.known /\ v.reg = u.reg /\ v.from = u.req
  <2> DEFINE v == [state |-> "oauth", client |-> u.known, reg |-> u.reg, enabled |-> TRUE,
                   from |-> u.req]
  <2>1. v \in CredType /\ v.state = "oauth" /\ v.client = u.known /\ v.reg = u.reg
        /\ v.from = u.req
    BY <1>4 DEF CredType, CallType
  <2>2. cred' = [cred EXCEPT ![c] = v]
    BY <1>1, <1>3 DEF InsertCredential
  <2> HIDE DEF v
  <2> QED
    BY <2>1, <2>2
<1>6. PICK w \in CallType :
         /\ calls' = [calls EXCEPT ![k] = w]
         /\ w.step = "record" /\ w.req = u.req /\ w.reg = u.reg /\ w.known = u.known /\ w.cred = c
  <2> DEFINE w == [u EXCEPT !.step = "record", !.cred = c]
  <2>1. /\ w \in CallType /\ w.step = "record" /\ w.req = u.req /\ w.reg = u.reg
        /\ w.known = u.known /\ w.cred = c
    BY DEF CallType, Steps
  <2>2. calls' = [calls EXCEPT ![k] = w]
    BY <1>1, <1>3 DEF InsertCredential
  <2> HIDE DEF w
  <2> QED
    BY <2>1, <2>2
<1>7. /\ cred' \in [Creds -> CredType] /\ cred'[c] = v
      /\ \A d \in Creds \ {c} : cred'[d] = cred[d]
  BY <1>5, Types DEF IInv
<1>8. /\ calls' \in [Calls -> CallType] /\ calls'[k] = w
      /\ \A j \in Calls \ {k} : calls'[j] = calls[j]
  BY <1>6, Types DEF IInv
<1>9. TypeOK'
  BY <1>2, <1>7, <1>8 DEF IInv, TypeOK, CallType, Steps, CredType
<1>10. \A r, g, p : Consented(r, g, p) => Consented(r, g, p)'
  BY <1>2 DEF Consented
<1>11. ASSUME NEW r \in Reqs PROVE RequestOK(r)'
  <2>1. RequestOK(r) /\ code[r].issued \in Creds \cup {None}
    BY Types DEF IInv, CodeType
  <2> QED
    BY <1>2, <1>5, <1>7, <2>1 DEF RequestOK
<1>12. ASSUME NEW d \in Creds PROVE CredOK(d)'
  <2>1. CredOK(d) /\ c \notin punished
    BY <1>2, Types DEF IInv, CredOK
  <2>2. CASE d = c
    <3>1. /\ cred'[d].state = "oauth" /\ cred'[d].from = u.req /\ cred'[d].reg = u.reg
          /\ cred'[d].client = u.known /\ u.req # None
      BY <1>4, <1>5, <1>7, <2>2, NoneAssumption
    <3>2. Consented(u.req, u.reg, u.known)'
      BY <1>4, <1>10
    <3>3. \A e \in Creds : cred'[e].from = u.req => e = d
      BY <1>4, <1>7, <2>2
    <3> QED
      BY <1>2, <2>1, <2>2, <3>1, <3>2, <3>3 DEF CredOK
  <2>3. CASE d # c
    <3>1. cred'[d] = cred[d] /\ gen' = gen /\ punished' = punished
      BY <1>2, <1>7, <2>3
    <3>2. cred[d].from # u.req
      BY <1>4
    <3>3. ASSUME cred[d].state # "none"
          PROVE  /\ Consented(cred[d].from, cred[d].reg, cred[d].client)'
                 /\ \A e \in Creds : cred'[e].from = cred[d].from => e = d
      <4>1. PICK r, g, p : r = cred[d].from /\ g = cred[d].reg /\ p = cred[d].client
        OBVIOUS
      <4>2. Consented(r, g, p)'
        BY <1>10, <2>1, <3>3, <4>1 DEF CredOK
      <4> QED
        BY <1>5, <1>7, <2>1, <3>1, <3>2, <3>3, <4>1, <4>2 DEF CredOK
    <3> QED
      BY <2>1, <3>1, <3>3 DEF CredOK
  <2> QED
    BY <2>2, <2>3
<1>13. \A t \in tokens \ used : t[1] # c
  <2> SUFFICES ASSUME NEW t \in tokens, t[1] = c PROVE FALSE
    OBVIOUS
  <2>1. t \in Token /\ t[2] <= gen[c] /\ gen[c] = 0
    BY <1>2, Types DEF IInv, TokenInv, CredOK
  <2>2. t[2] \in 1..MaxGen
    BY <2>1 DEF Token
  <2> QED
    BY <2>1, <2>2, BoundsAssumption
<1>14. ASSUME NEW j \in Calls PROVE CallOK(calls[j])'
  <2>1. CASE j = k
    <3>1. Consented(w.req, w.reg, w.known)'
      BY <1>4, <1>6, <1>10
    <3>2. CallOK(w)'
      BY <1>2, <1>4, <1>5, <1>6, <1>7, <1>13, <3>1, NoneAssumption DEF CallOK, Holding, Issuing
    <3> QED
      BY <1>8, <2>1, <3>2
  <2>2. CASE j # k
    <3>1. PICK b \in CallType : b = calls[j] /\ CallOK(b)
      BY Types DEF IInv
    <3>2. b.step \in Holding => b.req # u.req
      BY <1>2, <1>3, <2>2, <3>1 DEF IInv, Exclusive, Holding
    <3>3. b.step \in Holding => Consented(b.req, b.reg, b.known)'
      BY <1>10, <3>1 DEF CallOK
    <3>4. b.step \in {"bind", "insert"} => \A d \in Creds : cred'[d].from # b.req
      BY <1>5, <1>7, <3>1, <3>2 DEF CallOK, Holding
    <3>5. b.step \in Issuing \cup {"read", "consume", "punish"} =>
             b.cred # None /\ cred'[b.cred].state # "none"
      BY <1>5, <1>7, <3>1 DEF CallOK, CallType
    <3>6. CallOK(b)'
      BY <1>2, <3>1, <3>3, <3>4, <3>5 DEF CallOK
    <3> QED
      BY <1>8, <2>2, <3>1, <3>6
  <2> QED
    BY <2>1, <2>2
<1>15. Exclusive'
  <2>1. \A j \in Calls \ {k} : calls[j].step \in Issuing => calls[j].cred # c
    BY <1>2 DEF IInv, CallOK
  <2>2. \A j \in Calls \ {k} : calls[j].step \in Holding => calls[j].req # w.req
    BY <1>3, <1>4, <1>6 DEF IInv, Exclusive, Holding
  <2> QED
    BY <1>6, <1>8, <2>1, <2>2 DEF IInv, Exclusive
<1>16. TokenInv'
  BY <1>2 DEF IInv, TokenInv
<1> QED
  BY <1>9, <1>11, <1>12, <1>14, <1>15, <1>16 DEF IInv

\* The code learns its credential.
LEMMA NoteIssuedStep ==
    ASSUME IInv, NEW k \in Calls
    PROVE  NoteIssued(k) => IInv'
<1>1. SUFFICES ASSUME NoteIssued(k) PROVE IInv'
  OBVIOUS
<1>2. /\ calls[k].step = "note"
      /\ UNCHANGED <<client, registry, bound, request, burnt, cred, gen, tokens, used, dead,
                     punished>>
  BY <1>1 DEF NoteIssued, regVars, tokenVars
<1>3. PICK r, d : /\ r = calls[k].req /\ d = calls[k].cred /\ r \in Reqs /\ d \in Creds
                  /\ cred[d].state # "none" /\ \A t \in tokens \ used : t[1] # d
  <2>1. calls[k] \in CallType /\ CallOK(calls[k])
    BY Types DEF IInv
  <2>2. calls[k].req \in Reqs /\ calls[k].cred \in Creds
    BY <1>2, <2>1 DEF CallOK, CallType, Holding, Issuing
  <2> QED
    BY <1>2, <2>1, <2>2 DEF CallOK, Issuing
<1>4. PICK c \in CallType : calls' = [calls EXCEPT ![k] = c] /\ c.step = "issue" /\ c.cred = d
  <2>1. calls' = [calls EXCEPT ![k] = [NoCall EXCEPT !.step = "issue", !.cred = d]]
    BY <1>1, <1>3 DEF NoteIssued
  <2>2. PICK c \in CallType : /\ c = [NoCall EXCEPT !.step = "issue", !.cred = d]
                              /\ c.step = "issue" /\ c.cred = d
    BY <1>3, IssueFacts
  <2>3. calls' = [calls EXCEPT ![k] = c]
    BY <2>1, <2>2, Zenon
  <2> QED
    BY <2>2, <2>3, Zenon
<1>5. /\ code' \in [Reqs -> CodeType]
      /\ \A s \in Reqs : \/ code'[s] = code[s]
                         \/ /\ code[s].state = "used" /\ code'[s].state = "used"
                            /\ code'[s].issued = d
  <2> DEFINE q == [code[r] EXCEPT !.issued = d]
  <2>1. q \in CodeType /\ q.state = code[r].state /\ q.issued = d
    <3>1. code[r] \in CodeType
      BY <1>3, Types DEF IInv
    <3> QED
      BY <1>3, <3>1 DEF CodeType
  <2>2. code' = code \/ (code[r].state = "used" /\ code' = [code EXCEPT ![r] = q])
    BY <1>1, <1>3 DEF NoteIssued
  <2> HIDE DEF q
  <2> QED
    BY <1>3, <2>1, <2>2, Types DEF IInv
<1>6. ConsentKept /\ CredsKept
  BY <1>2, <1>5, CredsSame DEF ConsentKept
<1>7. ASSUME NEW s \in Reqs PROVE RequestOK(s)'
  <2>1. RequestOK(s)
    BY DEF IInv
  <2> QED
    BY <1>2, <1>3, <1>5, <2>1 DEF RequestOK
<1>8. TypeOK'
  BY <1>2, <1>4, <1>5 DEF IInv, TypeOK, CallType, Steps, CodeType
<1>9. CallOK(c)'
  BY <1>2, <1>3, <1>4, NoneAssumption DEF CallOK, Holding, Issuing
<1>10. \A j \in Calls \ {k} :
          /\ (c.step \in Holding /\ calls[j].step \in Holding) => calls[j].req # c.req
          /\ (c.step \in Issuing /\ calls[j].step \in Issuing) => calls[j].cred # c.cred
  BY <1>2, <1>3, <1>4 DEF IInv, Exclusive, Holding, Issuing
<1> QED
  BY <1>2, <1>4, <1>6, <1>7, <1>8, <1>9, <1>10, MovesOn

\* The next tokens of the grant are stored: the only ones of it that are unused.
LEMMA IssueTokensStep ==
    ASSUME IInv, NEW k \in Calls
    PROVE  IssueTokens(k) => IInv'
<1>1. SUFFICES ASSUME IssueTokens(k) PROVE IInv'
  OBVIOUS
<1>2. PICK c : /\ c = calls[k].cred /\ c \in Creds /\ cred[c].state # "none"
               /\ \A t \in tokens \ used : t[1] # c
  <2>1. calls[k] \in CallType /\ CallOK(calls[k]) /\ calls[k].step = "issue"
    BY <1>1, Types DEF IInv, IssueTokens
  <2>2. calls[k].cred \in Creds
    BY <2>1 DEF CallOK, CallType, Issuing
  <2> QED
    BY <2>1, <2>2 DEF CallOK, Issuing
<1>3. PICK n : n = gen[c] + 1
  OBVIOUS
<1>4. /\ calls[k].step = "issue" /\ n <= MaxGen /\ gen' = [gen EXCEPT ![c] = n] /\ Answer(k)
      /\ UNCHANGED <<client, registry, bound, request, code, burnt, cred, punished>>
  BY <1>1, <1>2, <1>3 DEF IssueTokens, regVars, codeVars
<1>5. PICK old \in SUBSET (Of(c) \cap (used \cup dead)) :
         /\ tokens' = (tokens \ old) \cup {<<c, n>>}
         /\ used' = used \ old /\ dead' = dead \ old
  BY <1>1, <1>2, <1>3 DEF IssueTokens
<1>6. /\ gen[c] \in 0..MaxGen /\ MaxGen \in Nat /\ n \in 1..MaxGen /\ gen[c] < n
      /\ gen' \in [Creds -> 0..MaxGen] /\ gen'[c] = n
      /\ \A d \in Creds \ {c} : gen'[d] = gen[d]
  <2>1. gen[c] \in 0..MaxGen /\ MaxGen \in Nat
    BY <1>2, Types DEF IInv
  <2>2. n \in 1..MaxGen /\ n \in 0..MaxGen /\ gen[c] < n
    BY <1>3, <1>4, <2>1
  <2> QED
    BY <1>2, <1>4, <2>1, <2>2, Types DEF IInv
<1>7. /\ calls' \in [Calls -> CallType]
      /\ \A j \in Calls : calls'[j] = calls[j] \/ calls'[j].step = "idle"
      /\ calls'[k].step = "idle"
  <2>1. calls'[k] = NoCall
    BY <1>4, Types DEF IInv, Answer
  <2> QED
    BY <1>4, <2>1, AnswerFacts, Types DEF IInv, NoCall
<1>8. /\ <<c, n>> \in Token /\ tokens' \in SUBSET Token /\ used' \in SUBSET Token
      /\ dead' \in SUBSET Token
  <2>1. <<c, n>> \in Token
    BY <1>2, <1>6 DEF Token
  <2> QED
    BY <1>5, <2>1, Types DEF IInv
<1>9. TypeOK'
  BY <1>4, <1>6, <1>7, <1>8 DEF IInv, TypeOK, CallType, Steps
<1>10. CredsKept /\ ConsentKept /\ \A r \in Reqs : RequestOK(r)'
  BY <1>4, CredsSame, RequestsKeep
<1>11. ASSUME NEW d \in Creds PROVE CredOK(d)'
  BY <1>2, <1>6, <1>10, CredKeeps, Types DEF IInv
<1>12. \A t \in old : t[1] = c
  BY <1>5 DEF Of
<1>13. \A t \in tokens' \ used' : t \in tokens \ used \/ t = <<c, n>>
  <2> SUFFICES ASSUME NEW t \in tokens' \ used', t # <<c, n>> PROVE t \in tokens \ used
    OBVIOUS
  <2>1. t \in tokens /\ t \notin old
    BY <1>5
  <2> QED
    BY <1>5, <2>1
<1>14. ASSUME NEW j \in Calls PROVE CallOK(calls[j])'
  <2>1. CASE calls'[j].step = "idle"
    BY <2>1 DEF CallOK, Holding, Issuing
  <2>2. CASE calls'[j] = calls[j] /\ calls'[j].step # "idle"
    <3>1. PICK b \in CallType : b = calls[j] /\ CallOK(b)
      BY Types DEF IInv
    <3>2. j # k
      BY <1>7, <2>2
    <3>3. b.step \in Issuing => b.cred # c
      BY <1>2, <1>4, <3>1, <3>2 DEF IInv, Exclusive, Issuing
    <3>4. b.step \in Issuing => \A t \in tokens' \ used' : t[1] = b.cred => t \in tokens \ used
      BY <1>13, <3>3
    <3>5. CallOK(b)'
      BY <1>10, <3>1, <3>4, CallKeeps
    <3> QED
      BY <2>2, <3>1, <3>5
  <2> QED
    BY <1>7, <2>1, <2>2
<1>15. Exclusive'
  BY <1>7 DEF IInv, Exclusive, Holding, Issuing
<1>16. TokenInv'
  <2>1. ASSUME NEW t \in tokens' PROVE t[2] <= gen'[t[1]]
    <3>1. CASE t = <<c, n>>
      BY <1>6, <3>1
    <3>2. CASE t \in tokens
      <4>1. t \in Token /\ t[2] <= gen[t[1]]
        BY <3>2, Types DEF IInv, TokenInv
      <4>2. t[1] \in Creds /\ t[2] \in 1..MaxGen
        BY <4>1 DEF Token
      <4>3. CASE t[1] = c
        BY <1>6, <4>1, <4>2, <4>3
      <4>4. CASE t[1] # c
        BY <1>6, <4>1, <4>2, <4>4
      <4> QED
        BY <4>3, <4>4
    <3> QED
      BY <1>5, <3>1, <3>2
  <2>2. used' \subseteq tokens'
    BY <1>5 DEF IInv, TokenInv
  <2>3. ASSUME NEW s \in tokens' \ used', NEW t \in tokens' \ used', s[1] = t[1] PROVE s = t
    <3>1. \A a \in tokens' \ used' : a[1] = c => a = <<c, n>>
      BY <1>2, <1>13
    <3>2. CASE s[1] = c
      BY <2>3, <3>1, <3>2
    <3>3. CASE s[1] # c
      <4>1. s \in tokens \ used /\ t \in tokens \ used
        BY <1>13, <2>3, <3>3
      <4> QED
        BY <2>3, <4>1 DEF IInv, TokenInv
    <3> QED
      BY <3>2, <3>3
  <2> QED
    BY <2>1, <2>2, <2>3 DEF TokenInv
<1> QED
  BY <1>9, <1>10, <1>11, <1>14, <1>15, <1>16 DEF IInv

-----------------------------------------------------------------------------
(* Refresh.                                                                *)

\* What a refresh reads decides what it does next.
LEMMA ReadTokenStep ==
    ASSUME IInv, NEW k \in Calls
    PROVE  ReadToken(k) => IInv'
<1>1. SUFFICES ASSUME ReadToken(k) PROVE IInv'
  OBVIOUS
<1>2. /\ calls[k].step = "read"
      /\ UNCHANGED <<client, registry, bound, request, code, burnt, cred, gen, tokens, used, dead,
                     punished>>
      /\ Answer(k) \/ Goto(k, "punish") \/ Goto(k, "consume")
  BY <1>1 DEF ReadToken, regVars, codeVars, tokenVars
<1>3. ASSUME calls' \in [Calls -> CallType] PROVE TypeOK'
  BY <1>2, <1>3 DEF IInv, TypeOK, CallType, Steps
<1>4. CASE Answer(k)
  <2>1. /\ calls' \in [Calls -> CallType]
        /\ \A j \in Calls : calls'[j] = calls[j] \/ calls'[j].step = "idle"
    BY <1>4, AnswerFacts, Types DEF IInv
  <2>2. TypeOK'
    BY <1>3, <2>1
  <2> QED
    BY <1>2, <2>1, <2>2, Frame, CredsSame, RequestsKeep
<1>5. ASSUME NEW s \in {"punish", "consume"}, Goto(k, s) PROVE IInv'
  <2>1. s \in Steps /\ calls \in [Calls -> CallType] /\ calls[k] \in CallType /\ CallOK(calls[k])
    BY Types DEF IInv, Steps
  <2>2. PICK c \in CallType :
           calls' = [calls EXCEPT ![k] = c] /\ c.step = s /\ c.cred = calls[k].cred
    BY <1>5, <2>1, GotoFacts
  <2>3. CallOK(c)
    BY <1>2, <2>1, <2>2 DEF CallOK, Holding, Issuing
  <2>4. TypeOK'
    BY <1>3, <2>1, <2>2
  <2> QED
    BY <1>2, <2>2, <2>3, <2>4, Moves DEF Holding, Issuing
<1> QED
  BY <1>2, <1>4, <1>5

\* One caller gets the token, and issues the next; any other has reused it.
LEMMA ConsumeStep ==
    ASSUME IInv, NEW k \in Calls
    PROVE  Consume(k) => IInv'
<1>1. SUFFICES ASSUME Consume(k) PROVE IInv'
  OBVIOUS
<1>2. PICK u \in CallType : u = calls[k] /\ CallOK(u) /\ u.step = "consume"
  BY <1>1, Types DEF IInv, Consume
<1>3. PICK d \in Creds : d = u.cred /\ cred[d].state # "none"
  BY <1>2 DEF CallOK, CallType
<1>4. UNCHANGED <<client, registry, bound, request, code, burnt, cred, gen, tokens, punished>>
  BY <1>1 DEF Consume, regVars, codeVars
<1>5. CredsKept /\ ConsentKept /\ \A r \in Reqs : RequestOK(r)'
  BY <1>4, CredsSame, RequestsKeep
<1>6. CASE UNCHANGED <<used, dead>> /\ Goto(k, "punish")
  <2>1. "punish" \in Steps /\ calls \in [Calls -> CallType]
    BY Types DEF IInv, Steps
  <2>2. PICK c \in CallType :
           calls' = [calls EXCEPT ![k] = c] /\ c.step = "punish" /\ c.cred = calls[k].cred
    BY <1>6, <2>1, GotoFacts
  <2>3. CallOK(c)
    BY <1>2, <1>3, <2>2, NoneAssumption DEF CallOK, Holding, Issuing
  <2>4. TypeOK'
    BY <1>4, <1>6, <2>1, <2>2 DEF IInv, TypeOK, CallType, Steps
  <2> QED
    BY <1>4, <1>6, <2>2, <2>3, <2>4, Moves DEF Holding, Issuing
<1>7. ASSUME NEW t, t = <<d, u.gen>>, t \in tokens \ used, used' = used \cup {t},
             dead' = dead \ {t},
             calls' = [calls EXCEPT ![k] = [NoCall EXCEPT !.step = "issue", !.cred = t[1]]]
      PROVE  IInv'
  <2>1. PICK c \in CallType : calls' = [calls EXCEPT ![k] = c] /\ c.step = "issue" /\ c.cred = d
    <3>1. calls' = [calls EXCEPT ![k] = [NoCall EXCEPT !.step = "issue", !.cred = d]]
      <4>1. t[1] = d
        BY <1>7
      <4> QED
        BY <1>7, <4>1, Zenon
    <3>2. PICK c \in CallType : /\ c = [NoCall EXCEPT !.step = "issue", !.cred = d]
                                /\ c.step = "issue" /\ c.cred = d
      BY <1>3, IssueFacts
    <3>3. calls' = [calls EXCEPT ![k] = c]
      BY <3>1, <3>2, Zenon
    <3> QED
      BY <3>2, <3>3, Zenon
  <2>2. /\ calls' \in [Calls -> CallType] /\ calls'[k] = c
        /\ \A j \in Calls \ {k} : calls'[j] = calls[j]
    BY <2>1, Types DEF IInv
  <2>3. /\ t \in tokens /\ t \notin used /\ t[1] = d
        /\ used' \in SUBSET Token /\ dead' \in SUBSET Token
        /\ tokens' \ used' = (tokens \ used) \ {t}
    BY <1>4, <1>7, Types DEF IInv
  <2>4. TypeOK'
    BY <1>4, <2>2, <2>3 DEF IInv, TypeOK, CallType, Steps
  <2>5. \A s \in tokens' \ used' : s[1] # d
    BY <2>3 DEF IInv, TokenInv
  <2>6. \A e \in Creds : CredOK(e)'
    BY <1>4, <1>5, CredKeeps, Types DEF IInv
  <2>7. ASSUME NEW j \in Calls PROVE CallOK(calls[j])'
    <3>1. CASE j = k
      <4>1. CallOK(c)'
        BY <1>3, <1>4, <2>1, <2>5, NoneAssumption DEF CallOK, Holding, Issuing
      <4> QED
        BY <2>2, <3>1, <4>1
    <3>2. CASE j # k
      <4>1. PICK b \in CallType : b = calls[j] /\ CallOK(b)
        BY Types DEF IInv
      <4>2. CallOK(b)'
        BY <1>5, <2>3, <4>1, CallKeeps
      <4> QED
        BY <2>2, <3>2, <4>1, <4>2
    <3> QED
      BY <3>1, <3>2
  <2>8. Exclusive'
    <3>1. \A j \in Calls \ {k} : calls[j].step \in Issuing => calls[j].cred # d
      <4> SUFFICES ASSUME NEW j \in Calls, calls[j].step \in Issuing, calls[j].cred = d PROVE FALSE
        OBVIOUS
      <4>1. \A s \in tokens \ used : s[1] # d
        BY DEF IInv, CallOK
      <4> QED
        BY <2>3, <4>1
    <3> QED
      BY <2>1, <2>2, <3>1 DEF IInv, Exclusive, Holding
  <2>9. TokenInv'
    BY <1>4, <1>7, <2>3 DEF IInv, TokenInv
  <2> QED
    BY <1>5, <2>4, <2>6, <2>7, <2>8, <2>9 DEF IInv
<1> QED
  BY <1>1, <1>2, <1>3, <1>6, <1>7 DEF Consume

\* The grant of a token that was used twice is revoked.
LEMMA RevokeReusedStep ==
    ASSUME IInv, NEW k \in Calls
    PROVE  RevokeReused(k) => IInv'
<1>1. SUFFICES ASSUME RevokeReused(k) PROVE IInv'
  OBVIOUS
<1>2. /\ calls[k].step = "punish" /\ Punish(calls[k].cred) /\ Answer(k)
      /\ UNCHANGED <<client, registry, bound, request, code, burnt, gen, tokens, used>>
  BY <1>1 DEF RevokeReused, regVars, codeVars, tokenVars
<1>3. PICK d \in Creds : d = calls[k].cred /\ cred[d].state # "none"
  <2>1. calls[k] \in CallType /\ CallOK(calls[k])
    BY Types DEF IInv
  <2> QED
    BY <1>2, <2>1 DEF CallOK, CallType
<1>4. /\ CredsKept /\ cred' \in [Creds -> CredType] /\ dead' \in SUBSET Token
      /\ punished' \in SUBSET Creds
  BY <1>2, <1>3, PunishFacts
<1>5. /\ calls' \in [Calls -> CallType]
      /\ \A j \in Calls : calls'[j] = calls[j] \/ calls'[j].step = "idle"
  BY <1>2, AnswerFacts, Types DEF IInv
<1>6. TypeOK'
  BY <1>2, <1>4, <1>5 DEF IInv, TypeOK, CallType, Steps, CredType
<1> QED
  BY <1>2, <1>4, <1>5, <1>6, Frame, RequestsKeep

-----------------------------------------------------------------------------
(* The theorems.                                                           *)

LEMMA InitIInv == Init => IInv
<1> SUFFICES ASSUME Init PROVE IInv
  OBVIOUS
<1>1. /\ request = [r \in Reqs |-> NoRequest] /\ code = [r \in Reqs |-> NoCode]
      /\ cred = [c \in Creds |-> NoCred] /\ gen = [c \in Creds |-> 0]
      /\ tokens = {} /\ used = {} /\ dead = {}
      /\ calls = [k \in Calls |-> NoCall] /\ burnt = {} /\ punished = {}
  BY DEF Init
<1>2. NoRequest \in RequestType /\ NoRequest.state = "unused"
  BY DEF NoRequest, RequestType
<1>3. NoCode \in CodeType /\ NoCode.state = "none" /\ NoCode.issued = None
  BY DEF NoCode, CodeType
<1>4. NoCred \in CredType /\ NoCred.state = "none" /\ NoCred.from = None
  BY DEF NoCred, CredType
<1>5. NoCall \in CallType /\ NoCall.step = "idle"
  BY BoundsAssumption DEF NoCall, CallType, Steps
<1>6. /\ client \in [Clients -> {"absent", "enabled", "disabled"}]
      /\ bound \in [Regs -> Clients \cup {None}]
      /\ registry \in Seq(Regs) /\ Len(registry) <= MaxRegs
  <2>1. MaxRegs \in Nat /\ 0 <= MaxRegs /\ 1 <= MaxRegs
    BY BoundsAssumption
  <2>2. PICK e \in Earlier : registry = e.regs /\ bound = e.known /\ client = e.client
    BY DEF Init
  <2>3. CASE e = [regs |-> <<>>, known |-> [g \in Regs |-> None],
                  client |-> [p \in Clients |-> "absent"]]
    <3>1. registry = <<>> /\ bound = [g \in Regs |-> None] /\ client = [p \in Clients |-> "absent"]
      BY <2>2, <2>3
    <3>2. registry \in Seq(Regs) /\ Len(registry) = 0
      BY <3>1
    <3> QED
      BY <2>1, <3>1, <3>2
  <2>4. ASSUME NEW h \in Regs, NEW q \in Clients,
               e = [regs |-> <<h>>, known |-> [g \in Regs |-> IF g = h THEN q ELSE None],
                    client |-> [p \in Clients |-> IF p = q THEN "enabled" ELSE "absent"]]
        PROVE  /\ client \in [Clients -> {"absent", "enabled", "disabled"}]
               /\ bound \in [Regs -> Clients \cup {None}]
               /\ registry \in Seq(Regs) /\ Len(registry) <= MaxRegs
    <3>1. /\ registry = <<h>> /\ bound = [g \in Regs |-> IF g = h THEN q ELSE None]
          /\ client = [p \in Clients |-> IF p = q THEN "enabled" ELSE "absent"]
      BY <2>2, <2>4
    <3>2. registry \in Seq(Regs) /\ Len(registry) = 1
      BY <3>1
    <3> QED
      BY <2>1, <3>1, <3>2
  <2> QED
    BY <2>2, <2>3, <2>4 DEF Earlier
<1>7. TypeOK
  <2>1. /\ request \in [Reqs -> RequestType] /\ code \in [Reqs -> CodeType]
        /\ cred \in [Creds -> CredType] /\ calls \in [Calls -> CallType]
        /\ gen \in [Creds -> 0..MaxGen]
    BY <1>1, <1>2, <1>3, <1>4, <1>5, BoundsAssumption
  <2> QED
    BY <1>1, <1>6, <2>1 DEF TypeOK, RequestType, CodeType, CredType, CallType, Steps
<1>8. \A r \in Reqs : RequestOK(r)
  BY <1>1, <1>3 DEF RequestOK
<1>9. \A c \in Creds : CredOK(c)
  BY <1>1, <1>4 DEF CredOK
<1>10. (\A k \in Calls : CallOK(calls[k])) /\ Exclusive
  BY <1>1, <1>5 DEF CallOK, Exclusive, Holding, Issuing
<1>11. TokenInv
  BY <1>1 DEF TokenInv
<1> QED
  BY <1>7, <1>8, <1>9, <1>10, <1>11 DEF IInv

LEMMA NextIInv == IInv /\ [Next]_vars => IInv'
<1> SUFFICES ASSUME IInv, [Next]_vars PROVE IInv'
  OBVIOUS
<1>1. ASSUME NEW k \in Calls, ExchangeStep(k) PROVE IInv'
  <2>1. ASSUME NEW proves \in BOOLEAN, TakeCode(k, proves) PROVE IInv'
    BY <2>1, TakeCodeStep
  <2>2. CASE Bind(k)
    BY <2>2, BindStep
  <2>3. CASE RecordPrincipal(k)
    BY <2>3, RecordPrincipalStep
  <2>4. CASE NoteIssued(k)
    BY <2>4, NoteIssuedStep
  <2>5. CASE IssueTokens(k)
    BY <2>5, IssueTokensStep
  <2>6. ASSUME NEW c \in Creds, InsertCredential(k, c) PROVE IInv'
    BY <2>6, InsertCredentialStep
  <2> QED
    BY <1>1, <2>1, <2>2, <2>3, <2>4, <2>5, <2>6 DEF ExchangeStep
<1>2. ASSUME NEW k \in Calls, RefreshStep(k) PROVE IInv'
  BY <1>2, ReadTokenStep, ConsumeStep, RevokeReusedStep DEF RefreshStep
<1>3. ASSUME NEW k \in Calls,
             \/ CallFails(k)
             \/ \E r \in Reqs, g \in Regs : BeginExchange(k, r, g)
             \/ \E c \in Creds, n \in 1..MaxGen, g \in Regs : BeginRefresh(k, c, n, g)
      PROVE  IInv'
  BY <1>3, StartStep
<1>4. ASSUME NEW g \in Regs, Register(g) \/ \E r \in Reqs : Begin(r, g) PROVE IInv'
  BY <1>4, RegisterStep, BeginStep
<1>5. ASSUME NEW r \in Reqs,
             \/ Poll(r) \/ ExpireRequest(r) \/ ExpireCode(r)
             \/ \E verdict \in {"approve", "deny"}, p \in Clients \cup {None} :
                  Decide(r, verdict, p)
      PROVE  IInv'
  BY <1>5, PollStep, ExpireStep, DecideStep
<1>6. ASSUME NEW p \in Clients,
             CreateClient(p) \/ \E s \in {"enabled", "disabled"} : SetClientEnabled(p, s)
      PROVE  IInv'
  BY <1>6, OutsideStep
<1>7. ASSUME NEW c \in Creds,
             RevokeCredential(c) \/ \E on \in BOOLEAN : SetCredentialEnabled(c, on)
      PROVE  IInv'
  BY <1>7, CredentialStep
<1>8. ASSUME NEW t \in Token, ExpireToken(t) PROVE IInv'
  BY <1>8, OutsideStep
<1>9. CASE ListPending \/ Cleanup \/ Reset \/ Restart
  BY <1>9, ListPendingStep, CleanupStep, EmptiedStep
<1>10. CASE UNCHANGED vars
  <2>1. UNCHANGED <<client, registry, bound, request, code, cred, gen, tokens, used, dead, calls,
                    burnt, punished>>
    BY <1>10 DEF vars
  <2>2. TypeOK'
    BY <2>1 DEF IInv, TypeOK
  <2> QED
    BY <2>1, <2>2, Frame, CredsSame, RequestsKeep
<1> QED
  BY <1>1, <1>2, <1>3, <1>4, <1>5, <1>6, <1>7, <1>8, <1>9, <1>10 DEF Next

\* The invariant holds in every reachable state.
THEOREM Invariance == Spec => []IInv
  BY InitIInv, NextIInv, PTL DEF Spec

\* The maps of oauth.rs and the rows of the control database keep the shape
\* the handlers assume, and the registry never exceeds its limit.
THEOREM TypeCorrect == Spec => []TypeOK
<1>1. IInv => TypeOK
  BY DEF IInv
<1> QED
  BY <1>1, Invariance, PTL

\* However token requests interleave, fail and are cut off by a restart, every
\* credential oauth.rs stores goes back to a request the local user approved,
\* for the registration that asked and the principal the user chose; one
\* approval gives one credential, a code that was burnt none.
THEOREM GrantsAreConsented == Spec => []ConsentedGrant
<1>1. IInv => ConsentedGrant
  BY DEF IInv, CredOK, Consented, ConsentedGrant
<1> QED
  BY <1>1, Invariance, PTL

\* However refreshes race between the read of a token and the conditional
\* update of used_at, a grant has at most one refresh token that is accepted.
THEOREM OneRefreshLives == Spec => []OneLiveRefresh
<1>1. IInv => OneLiveRefresh
  <2> SUFFICES ASSUME IInv, NEW c \in Creds, NEW m \in 1..gen[c], NEW n \in 1..gen[c],
                      Refreshable(c, m), Refreshable(c, n)
               PROVE  m = n
    BY DEF OneLiveRefresh
  <2>1. <<c, m>> \in tokens \ used /\ <<c, n>> \in tokens \ used
    BY DEF Refreshable
  <2>2. <<c, m>> = <<c, n>>
    BY <2>1 DEF IInv, TokenInv
  <2> QED
    BY <2>2
<1> QED
  BY <1>1, Invariance, PTL

\* A grant whose revocation for reuse was written stays dead, whatever requests
\* in flight still issue and whatever the user switches on again.
THEOREM ReuseKills == Spec => []ReuseKillsGrant
<1>1. IInv => ReuseKillsGrant
  <2> SUFFICES ASSUME IInv, NEW c \in punished PROVE ~InForce(c)
    BY DEF ReuseKillsGrant, Refreshable
  <2>1. c \in Creds /\ CredOK(c)
    BY Types DEF IInv
  <2> QED
    BY <2>1 DEF CredOK, InForce
<1> QED
  BY <1>1, Invariance, PTL

\* No step but a registration changes the registry.
LEMMA RegistryKept ==
    ASSUME [Next]_vars, \A g \in Regs : ~Register(g)
    PROVE  registry' = registry
<1>1. ASSUME NEW k \in Calls, ExchangeStep(k) PROVE registry' = registry
  BY <1>1 DEF ExchangeStep, TakeCode, Bind, RecordPrincipal, NoteIssued, IssueTokens,
              InsertCredential, regVars
<1>2. ASSUME NEW k \in Calls, RefreshStep(k) PROVE registry' = registry
  BY <1>2 DEF RefreshStep, ReadToken, Consume, RevokeReused, regVars
<1>3. ASSUME NEW k \in Calls,
             \/ CallFails(k)
             \/ \E r \in Reqs, g \in Regs : BeginExchange(k, r, g)
             \/ \E c \in Creds, n \in 1..MaxGen, g \in Regs : BeginRefresh(k, c, n, g)
      PROVE  registry' = registry
  BY <1>3 DEF CallFails, BeginExchange, BeginRefresh, regVars
<1>4. ASSUME NEW r \in Reqs,
             \/ \E g \in Regs : Begin(r, g)
             \/ Poll(r) \/ ExpireRequest(r) \/ ExpireCode(r)
             \/ \E verdict \in {"approve", "deny"}, p \in Clients \cup {None} :
                  Decide(r, verdict, p)
      PROVE  registry' = registry
  BY <1>4 DEF Begin, Poll, ExpireRequest, ExpireCode, Decide, regVars
<1>5. ASSUME NEW p \in Clients,
             CreateClient(p) \/ \E s \in {"enabled", "disabled"} : SetClientEnabled(p, s)
      PROVE  registry' = registry
  BY <1>5 DEF CreateClient, SetClientEnabled, regVars
<1>6. ASSUME NEW c \in Creds,
             RevokeCredential(c) \/ \E on \in BOOLEAN : SetCredentialEnabled(c, on)
      PROVE  registry' = registry
  BY <1>6 DEF RevokeCredential, SetCredentialEnabled, regVars
<1>7. ASSUME NEW t \in Token, ExpireToken(t) PROVE registry' = registry
  BY <1>7 DEF ExpireToken, regVars
<1>8. CASE ListPending \/ Cleanup \/ Reset \/ Restart
  BY <1>8 DEF ListPending, Cleanup, Reset, Restart, regVars
<1>9. CASE UNCHANGED vars
  BY <1>9 DEF vars
<1> QED
  BY <1>1, <1>2, <1>3, <1>4, <1>5, <1>6, <1>7, <1>8, <1>9 DEF Next

\* Registration at the limit prunes only a registration that was never used:
\* one that is bound to a principal stays, so its grants can be refreshed.
THEOREM ConnectedStays == Spec => ConnectedStaysRegistered
<1>1. ASSUME IInv, [Next]_vars
      PROVE  \A g \in Registered : bound[g] # None => g \in Registered'
  <2>1. CASE \E g \in Regs : Register(g)
    <3>1. \A j \in 1..Len(registry) : bound[registry[j]] # None =>
             \E m \in 1..Len(registry') : registry'[m] = registry[j]
      BY <1>1, <2>1, RegisterFacts DEF IInv
    <3> QED
      BY <3>1 DEF Registered
  <2>2. CASE \A g \in Regs : ~Register(g)
    BY <1>1, <2>2, RegistryKept DEF Registered
  <2> QED
    BY <2>1, <2>2
<1> QED
  BY <1>1, Invariance, PTL DEF Spec, ConnectedStaysRegistered
=============================================================================
