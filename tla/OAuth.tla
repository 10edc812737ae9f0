-------------------------------- MODULE OAuth --------------------------------
(***************************************************************************)
(* The OAuth authorization server with local consent (auth/oauth.rs) and   *)
(* the credentials it issues (auth/mod.rs): registration, authorization    *)
(* requests, the decision of the local user, authorization codes, token    *)
(* exchange, refresh token rotation, revocation and authentication.        *)
(*                                                                         *)
(* Requests and codes live in memory, each map under a lock of its own;    *)
(* clients, credentials and tokens are rows of the control database.  A    *)
(* token request is a sequence of separate reads and writes, so requests   *)
(* interleave.  Times are abstracted: what can expire may do so at any     *)
(* moment, and what has expired may be cleaned up.                         *)
(*                                                                         *)
(* The caller of the token endpoint has authenticated as a registered      *)
(* client.  proves says that it knows the PKCE verifier and the redirect   *)
(* URI of the request the code comes from.                                 *)
(***************************************************************************)
EXTENDS Naturals, FiniteSets, Sequences

CONSTANTS
    Clients,      \* pool of local principals, each created at most once
    Regs,         \* pool of OAuth client registrations
    Reqs,         \* pool of authorization requests; a code has the id of its request
    Creds,        \* pool of credential ids
    Calls,        \* token requests in flight
    MaxRegs,      \* max_registered_clients
    MaxPending,   \* max_pending_connection_requests
    MaxGen,       \* bound on the refreshes of one grant
    Faults,       \* whether a write of the control database may fail
    None          \* no principal, no credential, no request

ASSUME NoneAssumption == None \notin Clients \cup Regs \cup Reqs \cup Creds
ASSUME BoundsAssumption ==
    MaxRegs \in Nat \ {0} /\ MaxPending \in Nat /\ MaxGen \in Nat /\ Faults \in BOOLEAN

VARIABLES
    client,     \* durable: absent, enabled or disabled
    registry,   \* durable: registered OAuth clients, oldest first
    bound,      \* durable: local_client_id of a registration
    request,    \* pending authorizations
    code,       \* authorization codes
    cred,       \* durable: credentials
    gen,        \* generations of tokens issued so far under a credential
    tokens,     \* durable: rows of oauth_grants_tokens
    used,       \* durable: refresh tokens with used_at
    dead,       \* durable: unused tokens with revoked_at or past their expiry
    calls,      \* progress of the token requests
    burnt,      \* history: codes first presented by someone who could not prove the request
    punished    \* history: credentials revoked because a code or token was presented twice

vars == <<client, registry, bound, request, code, cred, gen, tokens, used, dead,
          calls, burnt, punished>>

regVars   == <<registry, bound>>
codeVars  == <<request, code, burnt>>
tokenVars == <<gen, tokens, used>>

\* Refresh tokens.  An access token is accepted only while its grant is in
\* force; its own expiry and revocation end it earlier and change nothing else.
Token == Creds \X (1..MaxGen)
Of(c) == {t \in Token : t[1] = c}

NoRequest == [state |-> "unused", reg |-> None, suggested |-> None, decision |-> "none",
              bind |-> None, expired |-> FALSE]
NoCode    == [state |-> "none", bind |-> None, expired |-> FALSE, issued |-> None]
NoCred    == [state |-> "none", client |-> None, reg |-> None, enabled |-> FALSE,
              from |-> None]
NoCall    == [step |-> "idle", req |-> None, reg |-> None, known |-> None, cred |-> None,
              gen |-> 0]

\* An installation in which nobody has connected, or one with a registration
\* that is bound to a principal since an earlier connection.
Earlier == {[regs |-> <<>>, known |-> [g \in Regs |-> None],
             client |-> [p \in Clients |-> "absent"]]} \cup
           {[regs |-> <<h>>, known |-> [g \in Regs |-> IF g = h THEN q ELSE None],
             client |-> [p \in Clients |-> IF p = q THEN "enabled" ELSE "absent"]] :
               h \in Regs, q \in Clients}

Init ==
    /\ \E e \in Earlier : registry = e.regs /\ bound = e.known /\ client = e.client
    /\ request = [r \in Reqs |-> NoRequest]
    /\ code = [r \in Reqs |-> NoCode]
    /\ cred = [c \in Creds |-> NoCred]
    /\ gen = [c \in Creds |-> 0]
    /\ tokens = {} /\ used = {} /\ dead = {}
    /\ calls = [k \in Calls |-> NoCall]
    /\ burnt = {} /\ punished = {}

Registered == {registry[i] : i \in 1..Len(registry)}

Goto(k, step) == calls' = [calls EXCEPT ![k].step = step]
Answer(k)     == calls' = [calls EXCEPT ![k] = NoCall]

-----------------------------------------------------------------------------
(* Registration and authorization requests.                                *)

\* Mutant: at the limit the oldest registration goes, used or not.
UnboundAny == 1..Len(registry)

\* Places of the registrations that were never used.
Unbound == {i \in 1..Len(registry) : bound[registry[i]] = None}

\* The registry without the one at place i.
Without(i) == SubSeq(registry, 1, i - 1) \o SubSeq(registry, i + 1, Len(registry))

\* Mutant: an old registration makes room only once the limit is exceeded.
RegisterOffByOne(g) ==
    /\ g \notin Registered
    /\ \A r \in Reqs : request[r].reg # g
    /\ \/ Len(registry) <= MaxRegs /\ registry' = Append(registry, g)
       \/ /\ Len(registry) > MaxRegs
          /\ \E i \in Unbound : /\ \A j \in Unbound : i <= j
                                /\ registry' = Append(Without(i), g)
    /\ UNCHANGED <<client, bound, codeVars, cred, tokenVars, dead, calls, punished>>

\* At the limit the oldest unused registration makes room; without one the
\* registration is refused.  The deletion stays when the insertion fails.
Register(g) ==
    /\ g \notin Registered
    /\ \A r \in Reqs : request[r].reg # g
    /\ \/ Len(registry) < MaxRegs /\ registry' = Append(registry, g)
       \/ /\ Len(registry) >= MaxRegs
          /\ \E i \in Unbound :
               /\ \A j \in Unbound : i <= j
               /\ registry' \in {Append(Without(i), g)} \cup (IF Faults THEN {Without(i)} ELSE {})
    /\ UNCHANGED <<client, bound, codeVars, cred, tokenVars, dead, calls, punished>>

Closed(q) == [q EXCEPT !.state = "gone", !.expired = FALSE]

\* Expired requests are dropped whenever the map is used.
Live == {r \in Reqs : request[r].state = "open" /\ ~request[r].expired}
Dropped == [r \in Reqs |->
               IF request[r].state = "open" /\ request[r].expired
               THEN Closed(request[r]) ELSE request[r]]

Begin(r, g) ==
    /\ request[r].state = "unused"
    /\ g \in Registered
    /\ Cardinality(Live) < MaxPending
    /\ Cardinality({q \in Live : request[q].reg = g}) < 3
    /\ request' = [Dropped EXCEPT ![r] = [NoRequest EXCEPT !.state = "open", !.reg = g,
                                                           !.suggested = bound[g]]]
    /\ UNCHANGED <<client, regVars, code, burnt, cred, tokenVars, dead, calls, punished>>

\* The user interface lists the requests.
ListPending ==
    /\ request' = Dropped
    /\ UNCHANGED <<client, regVars, code, burnt, cred, tokenVars, dead, calls, punished>>

\* The local user decides, naming an existing principal or none.
Decide(r, verdict, p) ==
    /\ r \in Live
    /\ request[r].decision = "none"
    /\ p # None => client[p] # "absent"
    /\ request' = [request EXCEPT ![r].decision = verdict, ![r].bind = p]
    /\ UNCHANGED <<client, regVars, code, burnt, cred, tokenVars, dead, calls, punished>>

Choice(p, q) == IF p # None THEN p ELSE q

\* The browser that holds the cookie of the request polls.
Poll(r) ==
    /\ request[r].state = "open"
    /\ request[r].expired \/ request[r].decision # "none"
    /\ request' = [request EXCEPT ![r] = Closed(@)]
    /\ code' = IF ~request[r].expired /\ request[r].decision = "approve"
               THEN [code EXCEPT ![r] = [NoCode EXCEPT !.state = "live",
                        !.bind = Choice(request[r].bind, request[r].suggested)]]
               ELSE code
    /\ UNCHANGED <<client, regVars, burnt, cred, tokenVars, dead, calls, punished>>

-----------------------------------------------------------------------------
(* Exchange of an authorization code.                                      *)

\* authenticate_client: the registration is read, with the principal it is
\* bound to.
BeginExchange(k, r, g) ==
    /\ calls[k].step = "idle"
    /\ g \in Registered
    /\ code[r].state \in {"live", "used"}
    /\ calls' = [calls EXCEPT ![k] = [NoCall EXCEPT !.step = "take", !.req = r, !.reg = g,
                                                    !.known = bound[g]]]
    /\ UNCHANGED <<client, regVars, codeVars, cred, tokenVars, dead, punished>>

\* revoke_credential: the credential first, then its tokens, and not in one
\* transaction.
RevokeRows(c) ==
    /\ cred' = [cred EXCEPT ![c].state = "revoked", ![c].enabled = FALSE]
    /\ \/ dead' = dead \cup (Of(c) \cap (tokens \ used))
       \/ Faults /\ UNCHANGED dead

\* A revocation that fails is not tried again.

Punish(c) ==
    \/ RevokeRows(c) /\ punished' = punished \cup {c}
    \/ Faults /\ UNCHANGED <<cred, dead, punished>>

\* The principal of the code, else the one of the registration as it was read.
Principal(k) == Choice(code[calls[k].req].bind, calls[k].known)

\* Mutant: a code is only used up by a caller that passes the checks.
TakeCodeLate(k, proves) ==
    /\ calls[k].step = "take"
    /\ LET r == calls[k].req
           accepted == proves /\ calls[k].reg = request[r].reg /\ ~code[r].expired
       IN  \/ /\ code[r].state \in {"none", "gone"}
              /\ Answer(k)
              /\ UNCHANGED <<code, burnt, cred, dead, punished>>
           \/ /\ code[r].state = "used"
              /\ IF code[r].issued = None THEN UNCHANGED <<cred, dead, punished>>
                                          ELSE Punish(code[r].issued)
              /\ Answer(k)
              /\ UNCHANGED <<code, burnt>>
           \/ /\ code[r].state = "live"
              /\ code' = IF accepted THEN [code EXCEPT ![r].state = "used"] ELSE code
              /\ burnt' = IF accepted THEN burnt ELSE burnt \cup {r}
              /\ IF accepted
                 THEN calls' = [calls EXCEPT ![k].step = "bind", ![k].known = Principal(k)]
                 ELSE Answer(k)
              /\ UNCHANGED <<cred, dead, punished>>
    /\ UNCHANGED <<client, regVars, request, tokenVars>>

\* Under the lock of the codes: the first caller uses the code up, whether or
\* not it passes the checks; a later one revokes what was issued from it.
TakeCode(k, proves) ==
    /\ calls[k].step = "take"
    /\ LET r == calls[k].req
           accepted == proves /\ calls[k].reg = request[r].reg /\ ~code[r].expired
       IN  \/ /\ code[r].state \in {"none", "gone"}
              /\ Answer(k)
              /\ UNCHANGED <<code, burnt, cred, dead, punished>>
           \/ /\ code[r].state = "used"
              /\ IF code[r].issued = None THEN UNCHANGED <<cred, dead, punished>>
                                          ELSE Punish(code[r].issued)
              /\ Answer(k)
              /\ UNCHANGED <<code, burnt>>
           \/ /\ code[r].state = "live"
              /\ code' = [code EXCEPT ![r].state = "used", ![r].expired = FALSE]
              /\ burnt' = IF accepted THEN burnt ELSE burnt \cup {r}
              /\ IF accepted
                 THEN calls' = [calls EXCEPT ![k].step = "bind", ![k].known = Principal(k)]
                 ELSE Answer(k)
              /\ UNCHANGED <<cred, dead, punished>>
    /\ UNCHANGED <<client, regVars, request, tokenVars>>

\* Without a principal a new one is created.
Bind(k) ==
    /\ calls[k].step = "bind"
    /\ \/ /\ calls[k].known # None
          /\ Goto(k, "insert")
          /\ UNCHANGED client
       \/ /\ calls[k].known = None
          /\ \E p \in Clients :
               /\ client[p] = "absent"
               /\ client' = [client EXCEPT ![p] = "enabled"]
               /\ calls' = [calls EXCEPT ![k].step = "insert", ![k].known = p]
    /\ UNCHANGED <<regVars, codeVars, cred, tokenVars, dead, punished>>

InsertCredential(k, c) ==
    /\ calls[k].step = "insert"
    /\ cred[c].state = "none"
    /\ cred' = [cred EXCEPT ![c] = [state |-> "oauth", client |-> calls[k].known,
                                    reg |-> calls[k].reg, enabled |-> TRUE,
                                    from |-> calls[k].req]]
    /\ calls' = [calls EXCEPT ![k].step = "record", ![k].cred = c]
    /\ UNCHANGED <<client, regVars, codeVars, tokenVars, dead, punished>>

\* The registration, if it is still there, learns its principal.
RecordPrincipal(k) ==
    /\ calls[k].step = "record"
    /\ bound' = IF calls[k].reg \in Registered
                THEN [bound EXCEPT ![calls[k].reg] = calls[k].known] ELSE bound
    /\ Goto(k, "note")
    /\ UNCHANGED <<client, registry, codeVars, cred, tokenVars, dead, punished>>

\* The code learns its credential, for a later replay, if it is still there.
NoteIssued(k) ==
    /\ calls[k].step = "note"
    /\ code' = IF code[calls[k].req].state = "used"
               THEN [code EXCEPT ![calls[k].req].issued = calls[k].cred] ELSE code
    /\ calls' = [calls EXCEPT ![k] = [NoCall EXCEPT !.step = "issue", !.cred = calls[k].cred]]
    /\ UNCHANGED <<client, regVars, request, burnt, cred, tokenVars, dead, punished>>

\* issue_tokens: an access and a refresh token are stored; rows that expired
\* long ago go.
IssueTokens(k) ==
    LET c == calls[k].cred
        n == gen[c] + 1
    IN  /\ calls[k].step = "issue"
        /\ n <= MaxGen
        /\ gen' = [gen EXCEPT ![c] = n]
        /\ \E old \in SUBSET (Of(c) \cap (used \cup dead)) :
             /\ tokens' = (tokens \ old) \cup {<<c, n>>}
             /\ used' = used \ old
             /\ dead' = dead \ old
        /\ Answer(k)
        /\ UNCHANGED <<client, regVars, codeVars, cred, punished>>

-----------------------------------------------------------------------------
(* Refresh.                                                                *)

BeginRefresh(k, c, n, g) ==
    /\ calls[k].step = "idle"
    /\ n \in 1..gen[c]
    /\ g \in Registered
    /\ calls' = [calls EXCEPT ![k] = [NoCall EXCEPT !.step = "read", !.cred = c, !.gen = n,
                                                    !.reg = g]]
    /\ UNCHANGED <<client, regVars, codeVars, cred, tokenVars, dead, punished>>

\* authenticate_bearer and refresh: neither the credential nor its client is
\* revoked or disabled.
InForce(c) ==
    /\ cred[c].state \notin {"none", "revoked"}
    /\ cred[c].enabled
    /\ client[cred[c].client] = "enabled"

Refreshable(c, n) ==
    LET t == <<c, n>>
    IN  t \in tokens /\ t \notin used \cup dead /\ InForce(c)

\* A token that was used before costs the grant; one that is unknown, of
\* another client, revoked, disabled or expired is refused.
ReadToken(k) ==
    /\ calls[k].step = "read"
    /\ LET c == calls[k].cred
           t == <<c, calls[k].gen>>
       IN  CASE t \notin tokens \/ cred[c].reg # calls[k].reg -> Answer(k)
             [] t \in tokens /\ cred[c].reg = calls[k].reg ->
                  IF t \in used THEN Goto(k, "punish")
                  ELSE IF Refreshable(c, calls[k].gen) THEN Goto(k, "consume")
                  ELSE Answer(k)
    /\ UNCHANGED <<client, regVars, codeVars, cred, tokenVars, dead, punished>>

\* Mutant: the update does not look at used_at.
ConsumeBlindly(k) ==
    /\ calls[k].step = "consume"
    /\ used' = used \cup {<<calls[k].cred, calls[k].gen>>}
    /\ dead' = dead \ used'
    /\ Goto(k, "issue")
    /\ UNCHANGED <<client, regVars, codeVars, cred, gen, tokens, punished>>

\* The conditional update: one caller gets the token, any other has reused it.
Consume(k) ==
    /\ calls[k].step = "consume"
    /\ LET t == <<calls[k].cred, calls[k].gen>>
       IN  IF t \in tokens \ used
           THEN /\ used' = used \cup {t}
                /\ dead' = dead \ {t}
                /\ calls' = [calls EXCEPT ![k] = [NoCall EXCEPT !.step = "issue", !.cred = t[1]]]
           ELSE UNCHANGED <<used, dead>> /\ Goto(k, "punish")
    /\ UNCHANGED <<client, regVars, codeVars, cred, gen, tokens, punished>>

RevokeReused(k) ==
    /\ calls[k].step = "punish"
    /\ Punish(calls[k].cred)
    /\ Answer(k)
    /\ UNCHANGED <<client, regVars, codeVars, tokenVars>>

\* A write fails: the request is answered with server_error.
CallFails(k) ==
    /\ Faults
    /\ calls[k].step \in {"bind", "insert", "record", "issue", "read", "consume"}
    /\ Answer(k)
    /\ UNCHANGED <<client, regVars, codeVars, cred, tokenVars, dead, punished>>

-----------------------------------------------------------------------------
(* The local user, the revocation endpoint, time and restarts.             *)

CreateClient(p) ==
    /\ client[p] = "absent"
    /\ client' = [client EXCEPT ![p] = "enabled"]
    /\ UNCHANGED <<regVars, codeVars, cred, tokenVars, dead, calls, punished>>

SetClientEnabled(p, state) ==
    /\ client[p] # "absent"
    /\ client' = [client EXCEPT ![p] = state]
    /\ UNCHANGED <<regVars, codeVars, cred, tokenVars, dead, calls, punished>>

\* Mutant: enabling a credential also lifts its revocation.
EnableAndRestore(c, on) ==
    /\ cred[c].state # "none"
    /\ cred' = [cred EXCEPT ![c].enabled = on, ![c].state = IF on THEN "oauth" ELSE @]
    /\ UNCHANGED <<client, regVars, codeVars, tokenVars, dead, calls, punished>>

SetCredentialEnabled(c, on) ==
    /\ cred[c].state # "none"
    /\ cred' = [cred EXCEPT ![c].enabled = on]
    /\ UNCHANGED <<client, regVars, codeVars, tokenVars, dead, calls, punished>>

\* In the user interface, or with a refresh token at the revocation endpoint.
RevokeCredential(c) ==
    /\ cred[c].state # "none"
    /\ RevokeRows(c)
    /\ UNCHANGED <<client, regVars, codeVars, tokenVars, calls, punished>>

ExpireToken(t) ==
    /\ t \in tokens \ used
    /\ dead' = dead \cup {t}
    /\ UNCHANGED <<client, regVars, codeVars, cred, tokenVars, calls, punished>>

ExpireRequest(r) ==
    /\ request[r].state = "open"
    /\ request' = [request EXCEPT ![r].expired = TRUE]
    /\ UNCHANGED <<client, regVars, code, burnt, cred, tokenVars, dead, calls, punished>>

ExpireCode(r) ==
    /\ code[r].state = "live"
    /\ code' = [code EXCEPT ![r].expired = TRUE]
    /\ UNCHANGED <<client, regVars, request, burnt, cred, tokenVars, dead, calls, punished>>

Forget(r) == IF code[r].state \in {"live", "used"}
             THEN [NoCode EXCEPT !.state = "gone"]
             ELSE code[r]

\* What expired some time ago leaves the maps; a used code may have expired.
Cleanup ==
    /\ request' = Dropped
    /\ \E old \in SUBSET {r \in Reqs : code[r].expired \/ code[r].state = "used"} :
         code' = [r \in Reqs |-> IF r \in old THEN Forget(r) ELSE code[r]]
    /\ UNCHANGED <<client, regVars, burnt, cred, tokenVars, dead, calls, punished>>

Emptied ==
    /\ request' = [r \in Reqs |-> IF request[r].state = "open"
                                  THEN Closed(request[r]) ELSE request[r]]
    /\ code' = [r \in Reqs |-> Forget(r)]

\* Emergency Stop empties the maps; token requests past them go on.
Reset ==
    /\ Emptied
    /\ UNCHANGED <<client, regVars, burnt, cred, tokenVars, dead, calls, punished>>

Restart ==
    /\ Emptied
    /\ calls' = [k \in Calls |-> NoCall]
    /\ UNCHANGED <<client, regVars, burnt, cred, tokenVars, dead, punished>>

-----------------------------------------------------------------------------
ExchangeStep(k) ==
    \/ \E proves \in BOOLEAN : TakeCode(k, proves)
    \/ Bind(k) \/ RecordPrincipal(k) \/ NoteIssued(k) \/ IssueTokens(k)
    \/ \E c \in Creds : InsertCredential(k, c)

RefreshStep(k) == ReadToken(k) \/ Consume(k) \/ RevokeReused(k)

Next ==
    \/ \E k \in Calls :
         \/ ExchangeStep(k) \/ RefreshStep(k) \/ CallFails(k)
         \/ \E r \in Reqs, g \in Regs : BeginExchange(k, r, g)
         \/ \E c \in Creds, n \in 1..MaxGen, g \in Regs : BeginRefresh(k, c, n, g)
    \/ \E g \in Regs : Register(g) \/ \E r \in Reqs : Begin(r, g)
    \/ \E r \in Reqs :
         \/ Poll(r) \/ ExpireRequest(r) \/ ExpireCode(r)
         \/ \E verdict \in {"approve", "deny"}, p \in Clients \cup {None} :
              Decide(r, verdict, p)
    \/ \E p \in Clients : CreateClient(p)
                          \/ \E s \in {"enabled", "disabled"} : SetClientEnabled(p, s)
    \/ \E c \in Creds : RevokeCredential(c) \/ \E on \in BOOLEAN : SetCredentialEnabled(c, on)
    \/ \E t \in Token : ExpireToken(t)
    \/ ListPending \/ Cleanup \/ Reset \/ Restart

Spec == Init /\ [][Next]_vars

-----------------------------------------------------------------------------
(* Properties.                                                             *)

\* Every variable has its type.
TypeOK ==
    /\ client \in [Clients -> {"absent", "enabled", "disabled"}]
    /\ registry \in Seq(Regs) /\ Len(registry) <= MaxRegs
    /\ bound \in [Regs -> Clients \cup {None}]
    /\ request \in [Reqs -> [state : {"unused", "open", "gone"}, reg : Regs \cup {None},
                             suggested : Clients \cup {None},
                             decision : {"none", "approve", "deny"},
                             bind : Clients \cup {None}, expired : BOOLEAN]]
    /\ code \in [Reqs -> [state : {"none", "live", "used", "gone"},
                          bind : Clients \cup {None}, expired : BOOLEAN,
                          issued : Creds \cup {None}]]
    /\ cred \in [Creds -> [state : {"none", "oauth", "revoked"}, client : Clients \cup {None},
                           reg : Regs \cup {None}, enabled : BOOLEAN,
                           from : Reqs \cup {None}]]
    /\ gen \in [Creds -> 0..MaxGen]
    /\ tokens \in SUBSET Token /\ used \in SUBSET Token
    /\ dead \in SUBSET Token
    /\ calls \in [Calls -> [step : {"idle", "take", "bind", "insert", "record", "note", "issue",
                                    "read", "consume", "punish"},
                            req : Reqs \cup {None}, reg : Regs \cup {None},
                            known : Clients \cup {None},
                            cred : Creds \cup {None}, gen : 0..MaxGen]]
    /\ burnt \in SUBSET Reqs /\ punished \in SUBSET Creds

\* A credential exists only for a request the local user approved, for the
\* registration that made the request and the principal the user chose; one
\* approval never yields two credentials, and a code that was first presented
\* by someone who could not prove the request yields none.
ConsentedGrant ==
    \A c \in Creds : cred[c].state # "none" =>
        LET r == cred[c].from
        IN  /\ request[r].decision = "approve"
            /\ cred[c].reg = request[r].reg
            /\ request[r].bind # None => cred[c].client = request[r].bind
            /\ r \notin burnt
            /\ \A d \in Creds : cred[d].from = r => d = c

\* However refreshes of a grant race, at most one of its refresh tokens can
\* still be exchanged (refresh: the conditional update of used_at).
OneLiveRefresh ==
    \A c \in Creds : \A m, n \in 1..gen[c] : Refreshable(c, m) /\ Refreshable(c, n) => m = n

\* "Refresh-token reuse revokes the whole grant" (oauth.rs): once a code or a
\* refresh token was presented a second time and the revocation was written,
\* nothing of the grant is accepted again, including the tokens a request in
\* flight issues afterwards and whatever the user enables.
ReuseKillsGrant ==
    \A c \in punished : ~InForce(c) /\ \A n \in 1..gen[c] : ~Refreshable(c, n)

\* A registration that has led to a connection is never pruned: its grants
\* could not be refreshed any more.
ConnectedStaysRegistered ==
    [][\A g \in Registered : bound[g] # None => g \in Registered']_vars
=============================================================================
