---------------------------- MODULE PolicyProofs ----------------------------
(***************************************************************************)
(* Proofs about the evaluator of module Policy, for whatever the analysis  *)
(* of a command line reports, and for any places, settings, contexts and   *)
(* requests.                                                               *)
(*                                                                         *)
(* The combination of all questions into one must lose none of them: a     *)
(* question whose scope is not granted makes the whole command a question  *)
(* (CombineKeeps).  The rest is about scopes: a grant is an exact key or   *)
(* one operation below a directory (ScopeOK), so that it covers an exact   *)
(* scope only if it is that scope.                                         *)
(***************************************************************************)
EXTENDS Policy, SequenceTheorems, TLAPS

\* The two forms of SessionScope.
ScopeOK(s) ==
    \/ s.type = "exact" /\ s = Exact(s.key)
    \/ s.type = "path_prefix" /\ s = PathPrefix(s.operation, s.prefix)

Scopes(held) == \A g \in held : ScopeOK(g)

\* The inductive invariant: the session holds scopes, and a context does not change.
GrantsOK == ctx \in Contexts /\ Scopes(grants)

\* The three forms of a decision.
Answer(d) ==
    \/ d = Allow
    \/ d = Deny
    \/ d.decision = "RequireApproval" /\ d = Ask(d.risk, d.scope) /\ ScopeOK(d.scope)

-----------------------------------------------------------------------------
(* Scopes.                                                                 *)

LEMMA ExactFacts ==
    ASSUME NEW k
    PROVE  Exact(k).type = "exact" /\ Exact(k).key = k /\ ScopeOK(Exact(k))
  BY DEF Exact, ScopeOK

LEMMA PrefixFacts ==
    ASSUME NEW o, NEW p
    PROVE  /\ PathPrefix(o, p).type = "path_prefix" /\ PathPrefix(o, p).operation = o
           /\ PathPrefix(o, p).prefix = p /\ ScopeOK(PathPrefix(o, p))
  BY DEF PathPrefix, ScopeOK

LEMMA AskFacts ==
    ASSUME NEW r, NEW s
    PROVE  /\ Ask(r, s).decision = "RequireApproval" /\ Ask(r, s).scope = s
           /\ ScopeOK(s) => Answer(Ask(r, s))
  BY DEF Ask, Answer

\* An exact scope is covered by itself and by nothing else.
LEMMA CoversExact ==
    ASSUME NEW k, NEW g, ScopeOK(g)
    PROVE  Covers(g, Exact(k)) <=> g = Exact(k)
<1>1. Exact(k).type = "exact" /\ Exact(k).key = k
  BY ExactFacts
<1> QED
  BY <1>1 DEF ScopeOK, Covers, Exact, PathPrefix

LEMMA GrantedExact ==
    ASSUME NEW k, NEW held, Scopes(held)
    PROVE  Granted(Exact(k), held) <=> Exact(k) \in held
  BY CoversExact DEF Granted, Scopes

\* A scope of a directory is not covered by an exact one.
LEMMA CoversPrefix ==
    ASSUME NEW o, NEW p, NEW g, Covers(g, PathPrefix(o, p))
    PROVE  g.type = "path_prefix" /\ g.operation = o /\ IsPrefix(g.prefix, p)
  BY PrefixFacts DEF Covers

-----------------------------------------------------------------------------
(* The shape of partial decisions.                                         *)

LEMMA FsAnswer ==
    ASSUME NEW word, NEW place, NEW access, NEW held
    PROVE  LET d == EvaluateFs(word, place, access, held)
               s == PathPrefix(OpClass(access), Front(place.path))
           IN  d = Allow \/ d = Deny \/ (~Granted(s, held) /\ \E r \in {High, Medium} : d = Ask(r, s))
<1> DEFINE s == PathPrefix(OpClass(access), Front(place.path))
           e == EvaluateExternalWrite(place, access, held)
<1>1. e = Allow \/ (~Granted(s, held) /\ \E r \in {High, Medium} : e = Ask(r, s))
  BY DEF EvaluateExternalWrite
<1>2. EvaluateFs(word, place, access, held) \in {Allow, Deny, e}
  BY DEF EvaluateFs
<1> QED
  BY <1>1, <1>2

LEMMA PushAnswer ==
    ASSUME NEW spec, NEW dd
    PROVE  \/ EvaluatePush(spec, dd) \in {Allow, dd}
           \/ \E branch : EvaluatePush(spec, dd) =
                 Ask(Medium, Exact(<<"git_push_default", facts.repo, spec.remote, branch>>))
<1> DEFINE hits == PushHits(spec)
           branch == IF hits = <<>> THEN "default branch" ELSE hits[1]
           a == Ask(Medium, Exact(<<"git_push_default", facts.repo, spec.remote, branch>>))
<1>1. EvaluatePush(spec, dd) \in {Allow, dd, a}
  BY DEF EvaluatePush
<1> QED
  BY <1>1

LEMMA GitAnswer ==
    ASSUME NEW g, NEW key
    PROVE  \/ EvaluateGitKind(g, key) \in {Allow, Deny}
           \/ \E r \in {High, Medium} : EvaluateGitKind(g, key) = Ask(r, Exact(key))
           \/ \E remote, branch : EvaluateGitKind(g, key) =
                 Ask(Medium, Exact(<<"git_push_default", facts.repo, remote, branch>>))
<1> DEFINE dd == IF settings.allowDestructive THEN Allow ELSE Ask(High, Exact(key))
           p == EvaluatePush(g.push, dd)
<1>1. EvaluateGitKind(g, key) \in
         {Allow, Deny, dd, p, Ask(High, Exact(key)), Ask(Medium, Exact(key))}
  BY DEF EvaluateGitKind
<1>2. \/ p \in {Allow, dd}
      \/ \E branch : p =
            Ask(Medium, Exact(<<"git_push_default", facts.repo, g.push.remote, branch>>))
  BY PushAnswer
<1>3. dd \in {Allow, Ask(High, Exact(key))}
  OBVIOUS
<1> QED
  BY <1>1, <1>2, <1>3

\* What may be asked about a part of a command: the command itself, a push to
\* a default branch, or an operation below a directory.
Question(d, key) ==
    /\ d.decision = "RequireApproval"
    /\ ScopeOK(d.scope)
    /\ d.scope.type = "exact" => d.scope = Exact(key) \/ d.scope.key[1] = "git_push_default"

PartOK(d, key) == d = Allow \/ d = Deny \/ Question(d, key)

LEMMA ExactQuestion ==
    ASSUME NEW r, NEW key PROVE Question(Ask(r, Exact(key)), key)
  BY AskFacts, ExactFacts DEF Question

LEMMA PushQuestion ==
    ASSUME NEW r, NEW key, NEW x, NEW y, NEW z
    PROVE  Question(Ask(r, Exact(<<"git_push_default", x, y, z>>)), key)
<1> DEFINE k == <<"git_push_default", x, y, z>>
<1>1. k[1] = "git_push_default"
  OBVIOUS
<1> HIDE DEF k
<1> QED
  BY <1>1, AskFacts, ExactFacts DEF Question

LEMMA PrefixQuestion ==
    ASSUME NEW r, NEW key, NEW o, NEW p
    PROVE  Question(Ask(r, PathPrefix(o, p)), key)
  BY AskFacts, PrefixFacts DEF Question

LEMMA CategoryPart ==
    ASSUME NEW f, NEW trusted, NEW key
    PROVE  PartOK(CategoryDecision(f, trusted, key), key)
<1>1. CategoryDecision(f, trusted, key) \in
         {Allow, Deny, Ask(High, Exact(key)), Ask(Medium, Exact(key))}
  BY DEF CategoryDecision
<1> QED
  BY <1>1, ExactQuestion DEF PartOK

LEMMA GitPart ==
    ASSUME NEW g, NEW key
    PROVE  PartOK(EvaluateGitKind(g, key), key)
  BY GitAnswer, ExactQuestion, PushQuestion DEF PartOK

LEMMA RefPart ==
    ASSUME NEW ref, NEW dir, NEW key, NEW held
    PROVE  PartOK(RefDecision(ref, dir, held), key)
<1> DEFINE place == PlaceOf(ref.path, dir)
           d == EvaluateFs(ref.path, place, ref.access, held)
           s == PathPrefix(OpClass(ref.access), Front(place.path))
<1>1. RefDecision(ref, dir, held) \in {Allow, Deny, d}
  BY DEF RefDecision
<1>2. d = Allow \/ d = Deny \/ \E r \in {High, Medium} : d = Ask(r, s)
  BY FsAnswer
<1> QED
  BY <1>1, <1>2, PrefixQuestion DEF PartOK

\* Every part of a command is allowed, denied, or one of these questions.
LEMMA PartsAreOK ==
    ASSUME NEW a, NEW dir, NEW key, NEW held, NEW q \in Parts(a, dir, key, held)
    PROVE  PartOK(q.d, key)
<1>1. CASE q \in AnalysisDecisions(a, dir, key)
  <2>1. q.d \in {Allow, Ask(Medium, Exact(key))}
    BY <1>1 DEF AnalysisDecisions, AskIf, Part
  <2> QED
    BY <2>1, ExactQuestion DEF PartOK
<1>2. CASE q \notin AnalysisDecisions(a, dir, key)
  <2>1. PICK i \in DOMAIN a.findings : q \in FindingDecisions(a.findings[i], i, dir, key, held)
    BY <1>2 DEF Parts
  <2> DEFINE f == a.findings[i]
             git == IF f.git.kind = "None" THEN Allow ELSE EvaluateGitKind(f.git, key)
  <2>2. \/ q.d \in {CategoryDecision(f, CwdTrusted(dir), key), AttributionDecision(f), git,
                    GhDecision(f, key)}
        \/ \E j \in DOMAIN f.paths : q.d = RefDecision(f.paths[j], dir, held)
    BY <2>1 DEF FindingDecisions, Part
  <2>3. AttributionDecision(f) \in {Allow, Deny}
    BY DEF AttributionDecision
  <2>4. GhDecision(f, key) \in {Allow, Ask(High, Exact(key))}
    BY DEF GhDecision
  <2>5. PartOK(git, key)
    BY GitPart DEF PartOK
  <2> QED
    BY <2>2, <2>3, <2>4, <2>5, CategoryPart, RefPart, ExactQuestion DEF PartOK
<1> QED
  BY <1>1, <1>2

-----------------------------------------------------------------------------
(* The combination.                                                        *)

\* The combined scope of questions is the exact command or the exact scope of
\* the only question.
LEMMA CombinedScopeIs ==
    ASSUME NEW asks, NEW key
    PROVE  \/ CombinedScope(asks, key) = Exact(key)
           \/ \E q \in asks : /\ asks = {q} /\ q.d.scope.type = "exact"
                              /\ CombinedScope(asks, key) = q.d.scope
<1>1. CASE \E q \in asks : asks = {q} /\ q.d.scope.type = "exact"
  <2>1. PICK q \in asks : asks = {q} /\ q.d.scope.type = "exact"
    BY <1>1
  <2>2. (CHOOSE x \in asks : TRUE) = q
    BY <2>1
  <2> QED
    BY <1>1, <2>1, <2>2 DEF CombinedScope
<1>2. CASE ~\E q \in asks : asks = {q} /\ q.d.scope.type = "exact"
  BY <1>2 DEF CombinedScope
<1> QED
  BY <1>1, <1>2

\* A question whose scope is not granted is not lost among the others, unless
\* the user allowed the command as a whole.
LEMMA CombineKeeps ==
    ASSUME NEW asks, NEW key, NEW held, Scopes(held), Exact(key) \notin held,
           NEW q \in asks, ~Granted(q.d.scope, held)
    PROVE  Combine(asks, key, held).decision = "RequireApproval"
<1>1. ~Granted(Exact(key), held)
  BY GrantedExact
<1>2. ~Granted(CombinedScope(asks, key), held)
  BY <1>1, CombinedScopeIs
<1>3. \E r : Combine(asks, key, held) = Ask(r, CombinedScope(asks, key))
  BY <1>2 DEF Combine
<1> QED
  BY <1>3, AskFacts

LEMMA StrictnessOf ==
    ASSUME NEW d
    PROVE  /\ d = Allow => Strictness(d) = 0
           /\ d.decision = "RequireApproval" => Strictness(d) = 1
           /\ d = Deny => Strictness(d) = 2
  BY DEF Strictness, Allow, Deny

\* A part that is denied denies the command, and a question that is not granted
\* makes it one, as long as the checks are on.
LEMMA PartDecides ==
    ASSUME NEW a, NEW l, NEW dir, NEW held, Scopes(held), settings.shellChecks,
           Exact(CommandKey(l, dir)) \notin held,
           NEW q \in Parts(a, dir, CommandKey(l, dir), held)
    PROVE  /\ q.d = Deny => EvaluateCommand(a, l, dir, held) = Deny
           /\ (q.d.decision = "RequireApproval" /\ ~Granted(q.d.scope, held)) =>
                 \/ EvaluateCommand(a, l, dir, held) = Deny
                 \/ EvaluateCommand(a, l, dir, held).decision = "RequireApproval"
<1> DEFINE key == CommandKey(l, dir)
           parts == Parts(a, dir, key, held)
           asks == {p \in parts : p.d.decision = "RequireApproval"}
           d == EvaluateCommand(a, l, dir, held)
<1>1. d = Deny \/ (/\ ~\E p \in parts : p.d.decision = "Deny"
                   /\ d = Combine(asks, key, held))
  BY DEF EvaluateCommand
<1>2. q.d = Deny => q.d.decision = "Deny"
  BY DEF Deny
<1>3. ASSUME q.d.decision = "RequireApproval", ~Granted(q.d.scope, held)
      PROVE  Combine(asks, key, held).decision = "RequireApproval"
  <2>1. q \in asks
    BY <1>3
  <2> HIDE DEF asks
  <2> QED
    BY <1>3, <2>1, CombineKeeps
<1> QED
  BY <1>1, <1>2, <1>3

-----------------------------------------------------------------------------
(* The grants of the session.                                              *)

\* The scope of what is asked is a scope.
LEMMA CommandScope ==
    ASSUME NEW a, NEW l, NEW dir, NEW held,
           EvaluateCommand(a, l, dir, held).decision = "RequireApproval"
    PROVE  LET s == EvaluateCommand(a, l, dir, held).scope
           IN  /\ ScopeOK(s) /\ s.type = "exact"
               /\ s = Exact(CommandKey(l, dir)) \/ s.key[1] = "git_push_default"
<1> DEFINE key == CommandKey(l, dir)
           parts == Parts(a, dir, key, held)
           asks == {p \in parts : p.d.decision = "RequireApproval"}
           d == EvaluateCommand(a, l, dir, held)
<1>1. d \in {Allow, Deny, Combine(asks, key, held)}
  BY DEF EvaluateCommand
<1>2. \A q \in asks : Question(q.d, key)
  BY PartsAreOK DEF PartOK, Allow, Deny
<1> HIDE DEF asks
<1>3. Combine(asks, key, held) = Allow
      \/ \E r : Combine(asks, key, held) = Ask(r, CombinedScope(asks, key))
  BY DEF Combine
<1>4. d.scope = CombinedScope(asks, key)
  BY <1>1, <1>3, AskFacts DEF Allow, Deny
<1>5. \/ d.scope = Exact(key)
      \/ \E q \in asks : q.d.scope.type = "exact" /\ d.scope = q.d.scope
  BY <1>4, CombinedScopeIs
<1> QED
  BY <1>2, <1>5, ExactFacts DEF Question

LEMMA FsScope ==
    ASSUME NEW word, NEW place, NEW access, NEW held,
           EvaluateFs(word, place, access, held).decision = "RequireApproval"
    PROVE  EvaluateFs(word, place, access, held).scope =
              PathPrefix(OpClass(access), Front(place.path))
  BY FsAnswer, AskFacts DEF Allow, Deny

LEMMA GitScope ==
    ASSUME NEW args, NEW held, EvaluateGit(args, held).decision = "RequireApproval"
    PROVE  LET s == EvaluateGit(args, held).scope
           IN  /\ ScopeOK(s) /\ s.type = "exact"
               /\ s = Exact(<<facts.repo, args>>) \/ s.key[1] = "git_push_default"
<1> DEFINE key == <<facts.repo, args>>
           d == EvaluateGitKind(ParseGit(args), key)
<1>1. EvaluateGit(args, held) \in {Allow, Deny, d}
  BY DEF EvaluateGit
<1> HIDE DEF key
<1>2. EvaluateGit(args, held) = d
  BY <1>1 DEF Allow, Deny
<1>3. \/ d \in {Allow, Deny}
      \/ \E r \in {High, Medium} : d = Ask(r, Exact(key))
      \/ \E remote, branch :
            d = Ask(Medium, Exact(<<"git_push_default", facts.repo, remote, branch>>))
  BY GitAnswer
<1>4. CASE d \in {Allow, Deny}
  BY <1>2, <1>4 DEF Allow, Deny
<1>5. CASE \E r \in {High, Medium} : d = Ask(r, Exact(key))
  BY <1>2, <1>5, AskFacts, ExactFacts DEF key
<1>6. ASSUME NEW remote, NEW branch,
             d = Ask(Medium, Exact(<<"git_push_default", facts.repo, remote, branch>>))
      PROVE  /\ ScopeOK(d.scope) /\ d.scope.type = "exact"
             /\ d.scope.key[1] = "git_push_default"
  <2> DEFINE k == <<"git_push_default", facts.repo, remote, branch>>
  <2>1. k[1] = "git_push_default"
    OBVIOUS
  <2>2. d = Ask(Medium, Exact(k))
    BY <1>6
  <2> HIDE DEF k, d
  <2> QED
    BY <2>1, <2>2, AskFacts, ExactFacts
<1> QED
  BY <1>2, <1>3, <1>4, <1>5, <1>6

LEMMA AdminScope ==
    ASSUME NEW digest, NEW held, EvaluateAdmin(digest, held).decision = "RequireApproval"
    PROVE  EvaluateAdmin(digest, held).scope = Exact(<<"admin", digest>>)
<1> DEFINE k == <<"admin", digest>>
<1>1. EvaluateAdmin(digest, held) \in {Allow, Deny, Ask(Critical, Exact(k))}
  BY DEF EvaluateAdmin
<1> HIDE DEF k
<1>2. EvaluateAdmin(digest, held).scope = Exact(k)
  BY <1>1, AskFacts DEF Allow, Deny
<1> QED
  BY <1>2 DEF k

\* Where a grant comes from: the command of the line, or a structured request
\* while there is none.
LEMMA NewGrant ==
    ASSUME [Next]_vars
    PROVE  /\ ctx' = ctx
           /\ \/ grants' = grants
              \/ /\ line # <<>> /\ Decision.decision = "RequireApproval"
                 /\ grants' = grants \cup {Decision.scope}
              \/ /\ line = <<>>
                 /\ \E r \in FsRequests :
                       LET d == EvaluateFs(r.path, Place[r.path], r.access, grants)
                       IN  d.decision = "RequireApproval" /\ grants' = grants \cup {d.scope}
              \/ /\ line = <<>>
                 /\ \E args \in GitRequests :
                       LET d == EvaluateGit(args, grants)
                       IN  d.decision = "RequireApproval" /\ grants' = grants \cup {d.scope}
              \/ /\ line = <<>>
                 /\ LET d == EvaluateAdmin("op", grants)
                    IN  d.decision = "RequireApproval" /\ grants' = grants \cup {d.scope}
<1>1. CASE UNCHANGED vars
  BY <1>1 DEF vars
<1>2. CASE AllowCommand
  BY <1>2 DEF AllowCommand, AllowForSession
<1>3. CASE AllowFs
  BY <1>3 DEF AllowFs, AllowForSession
<1>4. CASE AllowGit
  BY <1>4 DEF AllowGit, AllowForSession
<1>5. CASE AllowAdmin
  BY <1>5 DEF AllowAdmin, AllowForSession
<1>6. ASSUME NEW sh, NEW l, Write(sh, l)
      PROVE  ctx' = ctx /\ grants' = grants
  BY <1>6 DEF Write
<1>7. CASE \E w \in CmdCommands : Type("cmd", w) \/ Type("process", w)
  BY <1>6, <1>7 DEF Type
<1>8. CASE \E w \in PsCommands : Type("powershell", w)
  BY <1>6, <1>8 DEF Type
<1>9. CASE \E w \in TailCommands : Chain(w)
  BY <1>6, <1>9 DEF Chain, Extend
<1>10. CASE \E t \in RedirectTargets, input \in BOOLEAN : Redirect(t, input)
  BY <1>6, <1>10 DEF Redirect, Extend
<1>11. CASE \E sh \in {"cmd", "powershell", "process"} :
               InterpretCmd(sh) \/ InterpretPs(sh, "-command") \/ InterpretPs(sh, "-enc")
  BY <1>6, <1>11 DEF InterpretCmd, InterpretPs, Extend
<1>12. CASE \E words \in CmdPrefixes : Prefix(words)
  BY <1>6, <1>12 DEF Prefix, Extend
<1>13. CASE LaunchFromScript
  BY <1>6, <1>13 DEF LaunchFromScript, Extend
<1> QED
  BY <1>1, <1>2, <1>3, <1>4, <1>5, <1>7, <1>8, <1>9, <1>10, <1>11, <1>12, <1>13 DEF Next

\* A new grant is the scope of what was asked.
FromCommand(s) == line # <<>> /\ Decision.decision = "RequireApproval" /\ s = Decision.scope
FromFs(s) ==
    /\ line = <<>>
    /\ \E r \in FsRequests :
          /\ EvaluateFs(r.path, Place[r.path], r.access, grants).decision = "RequireApproval"
          /\ s = EvaluateFs(r.path, Place[r.path], r.access, grants).scope
FromGit(s) ==
    /\ line = <<>>
    /\ \E args \in GitRequests : /\ EvaluateGit(args, grants).decision = "RequireApproval"
                                 /\ s = EvaluateGit(args, grants).scope
FromAdmin(s) ==
    /\ line = <<>>
    /\ EvaluateAdmin("op", grants).decision = "RequireApproval"
    /\ s = EvaluateAdmin("op", grants).scope

LEMMA GrantOrigin ==
    ASSUME [Next]_vars, NEW s \in grants' \ grants
    PROVE  FromCommand(s) \/ FromFs(s) \/ FromGit(s) \/ FromAdmin(s)
<1>1. CASE line # <<>>
  BY <1>1, NewGrant DEF FromCommand
<1>2. CASE /\ line = <<>>
           /\ \E r \in FsRequests :
                 LET d == EvaluateFs(r.path, Place[r.path], r.access, grants)
                 IN  d.decision = "RequireApproval" /\ grants' = grants \cup {d.scope}
  BY <1>2 DEF FromFs
<1>3. CASE /\ line = <<>>
           /\ \E args \in GitRequests :
                 LET d == EvaluateGit(args, grants)
                 IN  d.decision = "RequireApproval" /\ grants' = grants \cup {d.scope}
  BY <1>3 DEF FromGit
<1>4. CASE /\ line = <<>>
           /\ LET d == EvaluateAdmin("op", grants)
              IN  d.decision = "RequireApproval" /\ grants' = grants \cup {d.scope}
  BY <1>4 DEF FromAdmin
<1> QED
  BY <1>1, <1>2, <1>3, <1>4, NewGrant

LEMMA NextGrants == GrantsOK /\ [Next]_vars => GrantsOK'
<1> SUFFICES ASSUME GrantsOK, [Next]_vars PROVE GrantsOK'
  OBVIOUS
<1>1. ctx' = ctx
  BY NewGrant
<1>2. ASSUME NEW s \in grants' PROVE ScopeOK(s)
  <2>1. CASE s \in grants
    BY <2>1 DEF GrantsOK, Scopes
  <2>2. CASE s \notin grants
    <3>1. CASE FromCommand(s)
      BY <3>1, CommandScope DEF FromCommand, Decision
    <3>2. CASE FromFs(s)
      BY <3>2, FsScope, PrefixFacts DEF FromFs
    <3>3. CASE FromGit(s)
      BY <3>3, GitScope DEF FromGit
    <3>4. CASE FromAdmin(s)
      <4>1. PICK k : s = Exact(k)
        BY <3>4, AdminScope DEF FromAdmin
      <4> QED
        BY <4>1, ExactFacts
    <3> QED
      BY <2>2, <3>1, <3>2, <3>3, <3>4, GrantOrigin
  <2> QED
    BY <2>1, <2>2
<1> QED
  BY <1>1, <1>2 DEF GrantsOK, Scopes

\* The session only ever holds the two forms of SessionScope.
THEOREM GrantsAreScopes == Spec => []GrantsOK
<1>1. Init => GrantsOK
  BY DEF Init, GrantsOK, Scopes
<1> QED
  BY <1>1, NextGrants, PTL DEF Spec

-----------------------------------------------------------------------------
(* No question is lost.                                                    *)

LEMMA IncompleteIsAsked == GrantsOK => IncompleteAsks
<1> DEFINE key == CommandKey(line, cwd)
<1> SUFFICES ASSUME GrantsOK, settings.shellChecks, ~CwdTrusted(cwd), Incomplete(analysis),
                    Exact(key) \notin grants
             PROVE  Strictness(Decision) > 0
  BY DEF IncompleteAsks
<1>1. Scopes(grants)
  BY DEF GrantsOK
<1> DEFINE e == Part(0, "error", 0, AskIf(analysis.error /\ ~CwdTrusted(cwd), key))
           y == Part(0, "dynamic", 0, AskIf(Dynamic(analysis) /\ ~CwdTrusted(cwd), key))
<1>2. e \in Parts(analysis, cwd, key, grants) /\ y \in Parts(analysis, cwd, key, grants)
  BY DEF Parts, AnalysisDecisions
<1>3. \E q \in Parts(analysis, cwd, key, grants) : q.d = Ask(Medium, Exact(key))
  <2>1. CASE analysis.error
    <3>1. e.d = Ask(Medium, Exact(key))
      BY <2>1 DEF Part, AskIf
    <3> QED
      BY <3>1, <1>2
  <2>2. CASE Dynamic(analysis)
    <3>1. y.d = Ask(Medium, Exact(key))
      BY <2>2 DEF Part, AskIf
    <3> QED
      BY <3>1, <1>2
  <2> QED
    BY <2>1, <2>2 DEF Incomplete
<1>4. PICK q \in Parts(analysis, cwd, key, grants) : q.d = Ask(Medium, Exact(key))
  BY <1>3
<1>5. q.d.decision = "RequireApproval" /\ ~Granted(q.d.scope, grants)
  BY <1>1, <1>4, AskFacts, GrantedExact
<1>6. Decision = Deny \/ Decision.decision = "RequireApproval"
  BY <1>1, <1>5, PartDecides DEF Decision
<1> QED
  BY <1>6, StrictnessOf

\* Outside the trusted workspace no command that the analysis could not follow
\* runs unasked, whatever else it contains and whatever the session was allowed:
\* neither the sorting and merging of questions in evaluate_command nor the
\* scope of another question answers this one.
THEOREM NothingUnknownRuns == Spec => []IncompleteAsks
  BY GrantsAreScopes, IncompleteIsAsked, PTL

LEMMA NoWay == GrantsOK => NoWayAround
<1> DEFINE key == CommandKey(line, cwd)
<1> SUFFICES ASSUME GrantsOK, line # <<>>, settings.shellChecks, Exact(key) \notin grants,
                    NEW i \in DOMAIN analysis.findings
             PROVE  LET f == analysis.findings[i]
                    IN  /\ \A j \in DOMAIN f.paths :
                              Writes(f.paths[j]) /\ Resolvable(f.paths[j].path) =>
                                 Strictness(EvaluateFs(f.paths[j].path,
                                                       PlaceOf(f.paths[j].path, cwd),
                                                       f.paths[j].access, grants))
                                    <= Strictness(Decision)
                        /\ f.git.kind # "None" /\ f.git.idents = {} =>
                              LET d == EvaluateGitKind(f.git, key)
                              IN  IF d.decision = "RequireApproval" /\ Granted(d.scope, grants)
                                  THEN TRUE ELSE Strictness(d) <= Strictness(Decision)
  BY DEF NoWayAround
<1> DEFINE f == analysis.findings[i]
           parts == Parts(analysis, cwd, key, grants)
<1>1. Scopes(grants)
  BY DEF GrantsOK
<1>2. FindingDecisions(f, i, cwd, key, grants) \subseteq parts
  BY DEF Parts
<1>3. Strictness(Decision) \in {0, 1, 2}
  BY DEF Strictness
\* A part weighs no more than the command.
<1>4. ASSUME NEW q \in parts, q.d.decision = "RequireApproval" => ~Granted(q.d.scope, grants)
      PROVE  Strictness(q.d) <= Strictness(Decision)
  <2>1. q.d = Allow \/ q.d = Deny \/ q.d.decision = "RequireApproval"
    BY PartsAreOK DEF PartOK, Question
  <2>2. CASE q.d = Allow
    <3>1. Strictness(q.d) = 0
      BY <2>2, StrictnessOf
    <3> QED
      BY <3>1, <1>3
  <2>3. CASE q.d = Deny
    <3>1. Decision = Deny
      BY <1>1, <2>3, PartDecides DEF Decision
    <3> QED
      BY <2>3, <3>1, <1>3
  <2>4. CASE q.d.decision = "RequireApproval"
    <3>1. Decision = Deny \/ Decision.decision = "RequireApproval"
      BY <1>1, <1>4, <2>4, PartDecides DEF Decision
    <3>2. Strictness(q.d) = 1 /\ Strictness(Decision) \in {1, 2}
      BY <2>4, <3>1, StrictnessOf
    <3> QED
      BY <3>2
  <2> QED
    BY <2>1, <2>2, <2>3, <2>4
<1>5. ASSUME NEW j \in DOMAIN f.paths, Writes(f.paths[j]), Resolvable(f.paths[j].path)
      PROVE  Strictness(EvaluateFs(f.paths[j].path, PlaceOf(f.paths[j].path, cwd),
                                   f.paths[j].access, grants)) <= Strictness(Decision)
  <2> DEFINE ref == f.paths[j]
             place == PlaceOf(ref.path, cwd)
             d == EvaluateFs(ref.path, place, ref.access, grants)
             q == Part(i, "path", j, RefDecision(ref, cwd, grants))
  <2>1. q \in parts
    BY <1>2 DEF FindingDecisions
  <2>2. q.d = RefDecision(ref, cwd, grants)
    BY DEF Part
  <2>3. RefDecision(ref, cwd, grants) = Deny \/ RefDecision(ref, cwd, grants) = d
    BY <1>5 DEF RefDecision
  <2>4. d.decision = "RequireApproval" => ~Granted(d.scope, grants)
    BY FsAnswer, AskFacts DEF Allow, Deny
  <2>5. Strictness(d) \in {0, 1, 2}
    BY DEF Strictness
  <2> SUFFICES Strictness(d) <= Strictness(Decision)
    OBVIOUS
  <2> HIDE DEF q, d
  <2>6. CASE q.d = Deny
    <3>1. Strictness(q.d) <= Strictness(Decision) /\ Strictness(q.d) = 2
      BY <1>4, <2>1, <2>6, StrictnessOf DEF Deny
    <3> QED
      BY <3>1, <2>5, <1>3
  <2>7. CASE q.d = d
    BY <1>4, <2>1, <2>4, <2>7
  <2> QED
    BY <2>2, <2>3, <2>6, <2>7 DEF d
<1>6. ASSUME f.git.kind # "None",
             ~(/\ EvaluateGitKind(f.git, key).decision = "RequireApproval"
               /\ Granted(EvaluateGitKind(f.git, key).scope, grants))
      PROVE  Strictness(EvaluateGitKind(f.git, key)) <= Strictness(Decision)
  <2> DEFINE q == Part(i, "git", 0, EvaluateGitKind(f.git, key))
  <2>1. q \in parts
    BY <1>2, <1>6 DEF FindingDecisions
  <2>2. q.d = EvaluateGitKind(f.git, key)
    BY DEF Part
  <2> HIDE DEF q
  <2> QED
    BY <1>4, <1>6, <2>1, <2>2
<1> QED
  BY <1>5, <1>6

\* A shell is no way around the structured tools: for every path a command
\* writes and every Git operation it performs, evaluate_command is at least as
\* strict as the rule of the tool, whatever the analysis found besides.
THEOREM ShellIsNoWayAround == Spec => []NoWayAround
  BY GrantsAreScopes, NoWay, PTL

-----------------------------------------------------------------------------
(* A line and its commands.                                                *)

\* The analysis is that of the line, and a process request is one command.
LineOK ==
    /\ shell \in {"cmd", "powershell", "process"}
    /\ line # <<>> => analysis = Analyze(shell, line, env)
    /\ shell = "process" /\ line # <<>> => \E seg : line = <<seg>>

LEMMA WriteLine ==
    ASSUME NEW sh \in {"cmd", "powershell", "process"}, NEW l, Write(sh, l),
           sh = "process" => \E seg : l = <<seg>>
    PROVE  LineOK'
<1>1. shell' = sh /\ line' = l /\ analysis' = Analyze(sh, l, env) /\ env' = env
  BY DEF Write, env
<1> QED
  BY <1>1 DEF LineOK

LEMMA NextLine == LineOK /\ [Next]_vars => LineOK'
<1> SUFFICES ASSUME LineOK, [Next]_vars PROVE LineOK'
  OBVIOUS
<1>1. ASSUME UNCHANGED <<ctx, shell, line, analysis>> PROVE LineOK'
  <2>1. shell' = shell /\ line' = line /\ analysis' = analysis /\ env' = env
    BY <1>1 DEF env
  <2> QED
    BY <2>1 DEF LineOK
<1>2. CASE UNCHANGED vars
  BY <1>1, <1>2 DEF vars
<1>3. CASE AllowCommand \/ AllowFs \/ AllowGit \/ AllowAdmin
  BY <1>1, <1>3 DEF AllowCommand, AllowFs, AllowGit, AllowAdmin, AllowForSession
<1>4. CASE \E w \in CmdCommands : Type("cmd", w) \/ Type("process", w)
  BY <1>4, WriteLine DEF Type
<1>5. CASE \E w \in PsCommands : Type("powershell", w)
  BY <1>5, WriteLine DEF Type
<1>6. shell \in {"cmd", "powershell", "process"}
  BY DEF LineOK
<1>7. CASE \E w \in TailCommands : Chain(w)
  BY <1>6, <1>7, WriteLine DEF Chain, Extend
<1>8. CASE \E t \in RedirectTargets, input \in BOOLEAN : Redirect(t, input)
  BY <1>6, <1>8, WriteLine DEF Redirect, Extend
<1>9. \A tokens, inner : \E seg : Nested(tokens, inner) = <<seg>>
  BY DEF Nested
<1>10. CASE \E sh \in {"cmd", "powershell", "process"} :
               InterpretCmd(sh) \/ InterpretPs(sh, "-command") \/ InterpretPs(sh, "-enc")
  BY <1>9, <1>10, WriteLine DEF InterpretCmd, InterpretPs, Extend
<1>11. CASE \E words \in CmdPrefixes : Prefix(words)
  BY <1>11, WriteLine DEF Prefix, Extend
<1>12. CASE LaunchFromScript
  BY <1>12, WriteLine DEF LaunchFromScript, Extend
<1> QED
  BY <1>2, <1>3, <1>4, <1>5, <1>7, <1>8, <1>10, <1>11, <1>12 DEF Next

\* What is asked about a finding does not depend on the line it is part of,
\* but for the key of the line itself.
SamePart(d, key, e, other) == d = e \/ \E r : d = Ask(r, Exact(key)) /\ e = Ask(r, Exact(other))

LEMMA PushSame ==
    ASSUME NEW spec, NEW key, NEW other, NEW d, NEW e, SamePart(d, key, e, other)
    PROVE  SamePart(EvaluatePush(spec, d), key, EvaluatePush(spec, e), other)
<1>1. CASE spec.force \/ spec.mirror \/ spec.delete \/ spec.deletes_tags
  <2>1. EvaluatePush(spec, d) = d /\ EvaluatePush(spec, e) = e
    BY <1>1 DEF EvaluatePush
  <2> QED
    BY <2>1
<1>2. CASE ~(spec.force \/ spec.mirror \/ spec.delete \/ spec.deletes_tags)
  <2>1. EvaluatePush(spec, d) = EvaluatePush(spec, e)
    BY <1>2 DEF EvaluatePush
  <2> QED
    BY <2>1 DEF SamePart
<1> QED
  BY <1>1, <1>2

LEMMA GitSame ==
    ASSUME NEW g, NEW key, NEW other
    PROVE  SamePart(EvaluateGitKind(g, key), key, EvaluateGitKind(g, other), other)
<1> DEFINE d(k) == IF settings.allowDestructive THEN Allow ELSE Ask(High, Exact(k))
<1>1. SamePart(d(key), key, d(other), other)
  BY DEF SamePart
<1>2. SamePart(EvaluatePush(g.push, d(key)), key, EvaluatePush(g.push, d(other)), other)
  BY <1>1, PushSame
<1> QED
  BY <1>1, <1>2 DEF EvaluateGitKind, SamePart

LEMMA CategorySame ==
    ASSUME NEW f, NEW trusted, NEW key, NEW other
    PROVE  SamePart(CategoryDecision(f, trusted, key), key, CategoryDecision(f, trusted, other), other)
  BY DEF CategoryDecision, SamePart

\* Every part of a command has its counterpart in a line that contains it.
LEMMA PartInLine ==
    ASSUME NEW a, NEW b, Contained(a, b), NEW dir, NEW key, NEW other, NEW held,
           NEW q \in Parts(a, dir, key, held), q.d # Allow
    PROVE  \E p \in Parts(b, dir, other, held) : SamePart(q.d, key, p.d, other)
<1>1. CASE q \in AnalysisDecisions(a, dir, key)
  <2> DEFINE e == Part(0, "error", 0, AskIf(b.error /\ ~CwdTrusted(dir), other))
             y == Part(0, "dynamic", 0, AskIf(Dynamic(b) /\ ~CwdTrusted(dir), other))
  <2>1. e \in Parts(b, dir, other, held) /\ y \in Parts(b, dir, other, held)
    BY DEF Parts, AnalysisDecisions
  <2>2. /\ e.d = AskIf(b.error /\ ~CwdTrusted(dir), other)
        /\ y.d = AskIf(Dynamic(b) /\ ~CwdTrusted(dir), other)
    BY DEF Part
  <2>3. a.error => b.error
    BY DEF Contained
  <2>4. Dynamic(a) => Dynamic(b)
    BY DEF Contained, Dynamic
  <2>5. \/ q.d = AskIf(a.error /\ ~CwdTrusted(dir), key)
        \/ q.d = AskIf(Dynamic(a) /\ ~CwdTrusted(dir), key)
    BY <1>1 DEF AnalysisDecisions, Part
  <2> HIDE DEF e, y
  <2> QED
    BY <2>1, <2>2, <2>3, <2>4, <2>5 DEF AskIf, SamePart
<1>2. CASE q \notin AnalysisDecisions(a, dir, key)
  <2>1. PICK i \in DOMAIN a.findings : q \in FindingDecisions(a.findings[i], i, dir, key, held)
    BY <1>2 DEF Parts
  <2>2. PICK n \in DOMAIN b.findings : b.findings[n] = a.findings[i]
    BY DEF Contained
  <2> DEFINE f == a.findings[i]
             Git(k) == IF f.git.kind = "None" THEN Allow ELSE EvaluateGitKind(f.git, k)
             T == CwdTrusted(dir)
  <2>3. FindingDecisions(f, n, dir, other, held) \subseteq Parts(b, dir, other, held)
    BY <2>2 DEF Parts
  <2>4. \/ q.d = CategoryDecision(f, T, key) \/ q.d = AttributionDecision(f)
        \/ q.d = Git(key) \/ q.d = GhDecision(f, key)
        \/ \E j \in DOMAIN f.paths : q.d = RefDecision(f.paths[j], dir, held)
    BY <2>1 DEF FindingDecisions, Part
  <2>5. ASSUME NEW m, NEW rule, NEW d, Part(n, rule, m, d) \in FindingDecisions(f, n, dir, other, held),
               SamePart(q.d, key, d, other)
        PROVE  \E p \in Parts(b, dir, other, held) : SamePart(q.d, key, p.d, other)
    <3>1. Part(n, rule, m, d).d = d
      BY DEF Part
    <3> QED
      BY <3>1, <2>3, <2>5
  <2>6. /\ Part(n, "category", 0, CategoryDecision(f, T, other)) \in FindingDecisions(f, n, dir, other, held)
        /\ Part(n, "attribution", 0, AttributionDecision(f)) \in FindingDecisions(f, n, dir, other, held)
        /\ Part(n, "git", 0, Git(other)) \in FindingDecisions(f, n, dir, other, held)
        /\ Part(n, "gh", 0, GhDecision(f, other)) \in FindingDecisions(f, n, dir, other, held)
        /\ \A j \in DOMAIN f.paths :
              Part(n, "path", j, RefDecision(f.paths[j], dir, held)) \in FindingDecisions(f, n, dir, other, held)
    BY DEF FindingDecisions
  <2>7. CASE q.d = CategoryDecision(f, T, key)
    BY <2>5, <2>6, <2>7, CategorySame
  <2>8. CASE q.d = AttributionDecision(f)
    BY <2>5, <2>6, <2>8 DEF SamePart
  <2>9. CASE q.d = Git(key)
    <3>1. SamePart(Git(key), key, Git(other), other)
      BY GitSame DEF SamePart
    <3> QED
      BY <3>1, <2>5, <2>6, <2>9
  <2>10. CASE q.d = GhDecision(f, key)
    <3>1. SamePart(GhDecision(f, key), key, GhDecision(f, other), other)
      BY DEF GhDecision, SamePart
    <3> QED
      BY <3>1, <2>5, <2>6, <2>10
  <2>11. CASE \E j \in DOMAIN f.paths : q.d = RefDecision(f.paths[j], dir, held)
    BY <2>5, <2>6, <2>11 DEF SamePart
  <2> QED
    BY <2>4, <2>7, <2>8, <2>9, <2>10, <2>11
<1> QED
  BY <1>1, <1>2

\* An evaluation that is neither denied nor allowed comes from a question
\* that is not granted, one that is denied while the line is not from a part.
LEMMA CommandReason ==
    ASSUME NEW a, NEW l, NEW dir, NEW held,
           ~(PathClass(Place[dir]) = "ControlData" \/ Protected(Place[dir], TRUE) \/ settings.fault),
           settings.shellChecks
    PROVE  LET d == EvaluateCommand(a, l, dir, held)
               parts == Parts(a, dir, CommandKey(l, dir), held)
           IN  \/ d = Allow
               \/ d = Deny /\ \E q \in parts : q.d = Deny
               \/ /\ d.decision = "RequireApproval"
                  /\ \E q \in parts : q.d.decision = "RequireApproval" /\ ~Granted(q.d.scope, held)
<1> DEFINE key == CommandKey(l, dir)
           parts == Parts(a, dir, key, held)
           asks == {p \in parts : p.d.decision = "RequireApproval"}
           d == EvaluateCommand(a, l, dir, held)
<1>1. \A q \in parts : q.d.decision = "Deny" => q.d = Deny
  BY PartsAreOK DEF PartOK, Question, Allow
<1>2. CASE \E q \in parts : q.d.decision = "Deny"
  <2>1. d = Deny
    BY <1>2 DEF EvaluateCommand
  <2> QED
    BY <1>1, <1>2, <2>1
<1>3. CASE ~\E q \in parts : q.d.decision = "Deny"
  <2>1. d = Combine(asks, key, held)
    BY <1>3 DEF EvaluateCommand
  <2>2. CASE asks = {} \/ \A q \in asks : Granted(q.d.scope, held)
    <3> HIDE DEF asks
    <3> QED
      BY <2>1, <2>2 DEF Combine
  <2>3. CASE \E q \in asks : ~Granted(q.d.scope, held)
    <3>1. \E q \in parts : q.d.decision = "RequireApproval" /\ ~Granted(q.d.scope, held)
      BY <2>3
    <3> HIDE DEF asks
    <3>2. d = Allow \/ \E r : d = Ask(r, CombinedScope(asks, key))
      BY <2>1 DEF Combine
    <3> QED
      BY <3>1, <3>2, AskFacts
  <2> QED
    BY <2>2, <2>3
<1> QED
  BY <1>2, <1>3

\* A command alone is judged no more strictly than a line that contains it.
LEMMA LineIsStricter ==
    ASSUME NEW a, NEW b, Contained(a, b), NEW l, NEW m, NEW dir, NEW held, Scopes(held),
           Exact(CommandKey(m, dir)) \notin held
    PROVE  Strictness(EvaluateCommand(a, l, dir, held)) <= Strictness(EvaluateCommand(b, m, dir, held))
<1> DEFINE d == EvaluateCommand(a, l, dir, held)
           e == EvaluateCommand(b, m, dir, held)
           key == CommandKey(l, dir)
           other == CommandKey(m, dir)
<1>1. Strictness(d) \in {0, 1, 2} /\ Strictness(e) \in {0, 1, 2}
  BY DEF Strictness
<1>2. CASE PathClass(Place[dir]) = "ControlData" \/ Protected(Place[dir], TRUE) \/ settings.fault
  <2>1. e = Deny
    BY <1>2, Zenon DEF EvaluateCommand
  <2>2. Strictness(e) = 2
    BY <2>1, StrictnessOf
  <2> QED
    BY <1>1, <2>2
<1>3. CASE /\ ~(PathClass(Place[dir]) = "ControlData" \/ Protected(Place[dir], TRUE) \/ settings.fault)
           /\ ~settings.shellChecks
  <2>1. d = Allow
    BY <1>3 DEF EvaluateCommand
  <2>2. Strictness(d) = 0
    BY <2>1, StrictnessOf
  <2> QED
    BY <1>1, <2>2
<1>4. CASE /\ ~(PathClass(Place[dir]) = "ControlData" \/ Protected(Place[dir], TRUE) \/ settings.fault)
           /\ settings.shellChecks
  <2>1. CASE d = Allow
    <3>1. Strictness(d) = 0
      BY <2>1, StrictnessOf
    <3> QED
      BY <1>1, <3>1
  <2>2. CASE d = Deny /\ \E q \in Parts(a, dir, key, held) : q.d = Deny
    <3>1. PICK q \in Parts(a, dir, key, held) : q.d = Deny
      BY <2>2
    <3>2. Deny # Allow /\ \A r, s : Deny # Ask(r, s)
      BY DEF Deny, Allow, Ask
    <3>3. \E p \in Parts(b, dir, other, held) : SamePart(q.d, key, p.d, other)
      BY <3>1, <3>2, PartInLine
    <3>4. \E p \in Parts(b, dir, other, held) : p.d = Deny
      BY <3>1, <3>2, <3>3 DEF SamePart
    <3>5. e = Deny
      BY <1>4, <3>4, PartDecides
    <3>6. Strictness(e) = 2
      BY <3>5, StrictnessOf
    <3> QED
      BY <1>1, <3>6
  <2>3. CASE /\ d.decision = "RequireApproval"
             /\ \E q \in Parts(a, dir, key, held) :
                   q.d.decision = "RequireApproval" /\ ~Granted(q.d.scope, held)
    <3>1. PICK q \in Parts(a, dir, key, held) :
                   q.d.decision = "RequireApproval" /\ ~Granted(q.d.scope, held)
      BY <2>3
    <3>2. q.d # Allow
      BY <3>1 DEF Allow
    <3>3. PICK p \in Parts(b, dir, other, held) : SamePart(q.d, key, p.d, other)
      BY <3>2, PartInLine
    <3>4. p.d.decision = "RequireApproval" /\ ~Granted(p.d.scope, held)
      <4>1. CASE q.d = p.d
        BY <3>1, <4>1
      <4>2. CASE \E r : p.d = Ask(r, Exact(other))
        BY <4>2, AskFacts, GrantedExact
      <4> QED
        BY <3>3, <4>1, <4>2 DEF SamePart
    <3>5. e = Deny \/ e.decision = "RequireApproval"
      BY <1>4, <3>4, PartDecides
    <3>6. Strictness(d) = 1 /\ Strictness(e) \in {1, 2}
      BY <2>3, <3>5, StrictnessOf
    <3> QED
      BY <3>6
  <2> QED
    BY <1>4, <2>1, <2>2, <2>3, CommandReason
<1> QED
  BY <1>2, <1>3, <1>4

\* Whatever a session was allowed, a line is judged at least as strictly as each
\* of its commands, as long as the agent writes lines of which the analysis
\* reports what it reports of their commands: merging the questions of
\* evaluate_command into one drops none, and a scope of the line answers for
\* nothing the commands alone would ask.
THEOREM LinesAreNoLoophole ==
    ASSUME NEW Lines, Compositional(Lines)
    PROVE  Spec /\ [](line \in Lines) => []PartsDecide
<1>1. Init => LineOK
  BY DEF Init, LineOK
<1>2. Spec => []LineOK
  BY <1>1, NextLine, PTL DEF Spec
<1>3. GrantsOK /\ LineOK /\ line \in Lines => PartsDecide
  <2> SUFFICES ASSUME GrantsOK, LineOK, line \in Lines, line # <<>>, Exact(CommandKey(line, cwd)) \notin grants,
                      NEW i \in DOMAIN line
               PROVE  Strictness(EvaluateCommand(Analyze(shell, <<line[i]>>, env), <<line[i]>>, cwd, grants))
                         <= Strictness(Decision)
    BY DEF PartsDecide
  <2> DEFINE a == Analyze(shell, <<line[i]>>, env)
  <2>1. Contained(a, analysis)
    <3>1. analysis = Analyze(shell, line, env)
      BY DEF LineOK
    <3>2. CASE shell = "process"
      <4>1. PICK seg : line = <<seg>>
        BY <3>2 DEF LineOK
      <4>2. <<line[i]>> = line
        BY <4>1
      <4>3. a = analysis
        BY <3>1, <4>2
      <4> QED
        BY <4>3 DEF Contained
    <3>3. CASE shell \in {"cmd", "powershell"}
      <4>1. env \in {c.env : c \in Contexts}
        BY DEF GrantsOK, env
      <4> QED
        BY <3>1, <3>3, <4>1 DEF Compositional
    <3> QED
      BY <3>2, <3>3 DEF LineOK
  <2>2. Scopes(grants)
    BY DEF GrantsOK
  <2> HIDE DEF a
  <2>3. Strictness(EvaluateCommand(a, <<line[i]>>, cwd, grants)) <= Strictness(Decision)
    BY <2>1, <2>2, LineIsStricter DEF Decision
  <2> QED
    BY <2>3 DEF a
<1> QED
  BY <1>2, <1>3, GrantsAreScopes, PTL

-----------------------------------------------------------------------------
(* What a new grant opens.                                                 *)

LEMMA GrantedAlso ==
    ASSUME NEW t, NEW held, NEW s
    PROVE  Granted(t, held \cup {s}) <=> Granted(t, held) \/ Covers(s, t)
  BY DEF Granted

\* A grant changes the decision on a file request only if it covers its scope.
LEMMA FsOpened ==
    ASSUME NEW word, NEW place, NEW access, NEW held, NEW s,
           ~Covers(s, PathPrefix(OpClass(access), Front(place.path)))
    PROVE  EvaluateFs(word, place, access, held \cup {s}) = EvaluateFs(word, place, access, held)
<1>1. EvaluateExternalWrite(place, access, held \cup {s}) =
         EvaluateExternalWrite(place, access, held)
  BY GrantedAlso DEF EvaluateExternalWrite
<1> QED
  BY <1>1 DEF EvaluateFs

LEMMA FrontType ==
    ASSUME NEW p \in Seq(STRING) PROVE Front(p) \in Seq(STRING)
<1>1. \A i \in 1..(Len(p) - 1) : p[i] \in STRING
  BY LenProperties, ElementOfSeq
<1>2. Len(p) - 1 \in Int
  BY LenProperties
<1> QED
  BY <1>1, <1>2, SubSeqProperties DEF Front

\* The directory of a path lies on the path.
LEMMA FrontPrefix ==
    ASSUME NEW p \in Seq(STRING), NEW x \in Seq(STRING), IsPrefix(x, Front(p))
    PROVE  IsPrefix(x, p)
<1>1. CASE p = <<>>
  BY <1>1 DEF IsPrefix, Front
<1>2. CASE p # <<>>
  <2>1. Front(p) \in Seq(STRING) /\ Len(Front(p)) = Len(p) - 1
        /\ \A i \in 1..(Len(p) - 1) : Front(p)[i] = p[i]
    <3>1. Len(p) \in Nat /\ Len(p) # 0
      BY <1>2, EmptySeq, LenProperties
    <3>2. \A i \in 1..(Len(p) - 1) : p[i] \in STRING
      BY <3>1, ElementOfSeq
    <3>3. /\ SubSeq(p, 1, Len(p) - 1) \in Seq(STRING)
          /\ Len(SubSeq(p, 1, Len(p) - 1)) =
                IF 1 <= Len(p) - 1 THEN Len(p) - 1 - 1 + 1 ELSE 0
          /\ \A i \in 1..(Len(p) - 1 - 1 + 1) : SubSeq(p, 1, Len(p) - 1)[i] = p[1 + i - 1]
      BY <3>1, <3>2, SubSeqProperties
    <3>4. ASSUME NEW i \in 1..(Len(p) - 1) PROVE Front(p)[i] = p[i]
      <4>1. i \in 1..(Len(p) - 1 - 1 + 1) /\ 1 + i - 1 = i
        BY <3>1
      <4>2. SubSeq(p, 1, Len(p) - 1)[i] = p[1 + i - 1]
        BY <3>3, <4>1
      <4> QED
        BY <4>1, <4>2 DEF Front
    <3>5. Len(Front(p)) = Len(p) - 1
      <4> DEFINE q == SubSeq(p, 1, Len(p) - 1)
                 n == Len(p)
      <4>1. Len(q) = IF 1 <= n - 1 THEN n - 1 - 1 + 1 ELSE 0
        BY <3>3
      <4>2. n \in Nat /\ n # 0
        BY <3>1
      <4> HIDE DEF q, n
      <4>3. Len(q) = n - 1
        BY <4>1, <4>2
      <4> QED
        BY <4>3 DEF q, n, Front
    <3> QED
      BY <3>3, <3>4, <3>5, FrontType
  <2> QED
    BY <2>1 DEF IsPrefix
<1> QED
  BY <1>1, <1>2

\* An exact grant for the command of one directory decides nothing elsewhere.
LEMMA ElsewhereSame ==
    ASSUME NEW a, NEW l, NEW dir, NEW here, NEW held, NEW s, ScopeOK(s), s.type = "exact",
           s = Exact(CommandKey(l, here)), dir # here, here # "git_push_default"
    PROVE  EvaluateCommand(a, l, dir, held \cup {s}) = EvaluateCommand(a, l, dir, held)
<1> DEFINE key == CommandKey(l, dir)
<1>1. s.key # key /\ s.key[1] # "git_push_default"
  BY ExactFacts DEF CommandKey
<1>2. \A o, p : ~Covers(s, PathPrefix(o, p))
  BY CoversPrefix
<1>3. \A ref : RefDecision(ref, dir, held \cup {s}) = RefDecision(ref, dir, held)
  BY <1>2, FsOpened DEF RefDecision
<1>4. Parts(a, dir, key, held \cup {s}) = Parts(a, dir, key, held)
  <2>1. ASSUME NEW f, NEW i
        PROVE  FindingDecisions(f, i, dir, key, held \cup {s}) =
                  FindingDecisions(f, i, dir, key, held)
    <3>1. {Part(i, "path", j, RefDecision(f.paths[j], dir, held \cup {s})) : j \in DOMAIN f.paths}
          = {Part(i, "path", j, RefDecision(f.paths[j], dir, held)) : j \in DOMAIN f.paths}
      BY <1>3
    <3> QED
      BY <3>1 DEF FindingDecisions
  <2>2. {FindingDecisions(a.findings[i], i, dir, key, held \cup {s}) : i \in DOMAIN a.findings}
        = {FindingDecisions(a.findings[i], i, dir, key, held) : i \in DOMAIN a.findings}
    BY <2>1
  <2> QED
    BY <2>2 DEF Parts
<1> DEFINE parts == Parts(a, dir, key, held)
           asks == {q \in parts : q.d.decision = "RequireApproval"}
<1>5. \A t : (t = Exact(key) \/ (t.type = "exact" /\ t.key[1] = "git_push_default")
                \/ t.type = "path_prefix") => ~Covers(s, t)
  BY <1>1, ExactFacts DEF Covers
<1>6. \A q \in asks : ScopeOK(q.d.scope) /\ ~Covers(s, q.d.scope)
  BY <1>5, PartsAreOK DEF PartOK, Question, Allow, Deny, ScopeOK
<1> HIDE DEF asks, key
<1>7. ~Covers(s, CombinedScope(asks, key))
  BY <1>5, <1>6, CombinedScopeIs
<1>8. Combine(asks, key, held \cup {s}) = Combine(asks, key, held)
  BY <1>6, <1>7, GrantedAlso DEF Combine
<1> QED
  BY <1>4, <1>8 DEF EvaluateCommand, asks, key

LEMMA OpenedFs ==
    ASSUME NEW s, FromCommand(s) \/ FromFs(s) \/ FromGit(s) \/ FromAdmin(s), NEW r \in FsRequests,
           EvaluateFs(r.path, Place[r.path], r.access, grants).decision #
              EvaluateFs(r.path, Place[r.path], r.access, grants \cup {s}).decision
    PROVE  MeantFs(s, r)
<1> DEFINE p == Place[r.path].path
<1>1. Covers(s, PathPrefix(OpClass(r.access), Front(p)))
  BY FsOpened
<1>2. s.type = "path_prefix" /\ s.operation = OpClass(r.access) /\ IsPrefix(s.prefix, Front(p))
  BY <1>1, CoversPrefix
<1>3. FromFs(s)
  <2>1. FromCommand(s) => s.type = "exact"
    BY CommandScope DEF FromCommand, Decision
  <2>2. FromGit(s) => s.type = "exact"
    BY GitScope DEF FromGit
  <2>3. ASSUME FromAdmin(s) PROVE s.type = "exact"
    <3>1. PICK k : s = Exact(k)
      BY <2>3, AdminScope DEF FromAdmin
    <3> QED
      BY <3>1, ExactFacts
  <2> QED
    BY <1>2, <2>1, <2>2, <2>3
<1>4. PICK t \in FsRequests : s = PathPrefix(OpClass(t.access), Front(Place[t.path].path))
  BY <1>3, FsScope DEF FromFs
<1>5. p \in Seq(STRING) /\ Place[t.path].path \in Seq(STRING)
  BY PlaceAssumption
<1>6. s.prefix \in Seq(STRING)
  <2>1. s.prefix = Front(Place[t.path].path)
    BY <1>4, PrefixFacts
  <2> QED
    BY <2>1, <1>5, FrontType
<1>7. IsPrefix(s.prefix, p)
  BY <1>2, <1>5, <1>6, FrontPrefix
<1> QED
  BY <1>2, <1>7 DEF MeantFs, OpClass

LEMMA OpenedGit ==
    ASSUME NEW s, ScopeOK(s), NEW args,
           EvaluateGit(args, grants).decision # EvaluateGit(args, grants \cup {s}).decision
    PROVE  LET d == EvaluateGit(args, grants) IN d.decision = "RequireApproval" /\ d.scope = s
<1> DEFINE key == <<facts.repo, args>>
           d == EvaluateGitKind(ParseGit(args), key)
<1>1. d.decision = "RequireApproval" /\ EvaluateGit(args, grants) = d /\ Covers(s, d.scope)
  BY GrantedAlso DEF EvaluateGit
<1>2. ScopeOK(d.scope) /\ d.scope.type = "exact"
  BY <1>1, GitScope
<1>3. PICK k : d.scope = Exact(k)
  BY <1>2 DEF ScopeOK
<1>4. d.scope = s
  BY <1>1, <1>3, CoversExact
<1> QED
  BY <1>1, <1>4

LEMMA OpenedElsewhere ==
    ASSUME NEW s, FromCommand(s), NEW dir, dir # cwd,
           EvaluateCommand(analysis, line, dir, grants).decision #
              EvaluateCommand(analysis, line, dir, grants \cup {s}).decision
    PROVE  s.key[1] = "git_push_default"
<1>1. /\ ScopeOK(s) /\ s.type = "exact"
      /\ s = Exact(CommandKey(line, cwd)) \/ s.key[1] = "git_push_default"
  BY CommandScope DEF FromCommand, Decision
<1>2. s = Exact(CommandKey(line, cwd)) => s.key[1] = cwd
  BY ExactFacts DEF CommandKey
<1> QED
  BY <1>1, <1>2, ElsewhereSame

LEMMA OpenedAdmin ==
    ASSUME NEW s, ctx \in Contexts, FromCommand(s) \/ FromFs(s) \/ FromGit(s) \/ FromAdmin(s)
    PROVE  EvaluateAdmin("other", grants) = EvaluateAdmin("other", grants \cup {s})
<1> DEFINE k == <<"admin", "other">>
<1>1. k[1] = "admin" /\ k[2] = "other"
  OBVIOUS
<1> HIDE DEF k
<1>2. ~Covers(s, Exact(k))
  <2> SUFFICES ASSUME Covers(s, Exact(k)) PROVE FALSE
    OBVIOUS
  <2>1. s.type = "exact" /\ s.key = k
    BY ExactFacts DEF Covers
  <2>2. CASE FromCommand(s)
    <3>1. s = Exact(CommandKey(line, cwd)) \/ s.key[1] = "git_push_default"
      BY <2>2, CommandScope DEF FromCommand, Decision
    <3>2. s = Exact(CommandKey(line, cwd)) => s.key[1] = cwd
      BY ExactFacts DEF CommandKey
    <3> QED
      BY <1>1, <2>1, <3>1, <3>2, KeysAssumption DEF cwd
  <2>3. CASE FromFs(s)
    BY <2>1, <2>3, FsScope, PrefixFacts DEF FromFs
  <2>4. CASE FromGit(s)
    <3>1. PICK args : s = Exact(<<facts.repo, args>>) \/ s.key[1] = "git_push_default"
      BY <2>4, GitScope DEF FromGit
    <3>2. s = Exact(<<facts.repo, args>>) => s.key[1] = facts.repo
      <4> DEFINE j == <<facts.repo, args>>
      <4>1. j[1] = facts.repo
        OBVIOUS
      <4> HIDE DEF j
      <4>2. s = Exact(j) => s.key[1] = facts.repo
        BY <4>1, ExactFacts
      <4> QED
        BY <4>2 DEF j
    <3> QED
      BY <1>1, <2>1, <3>1, <3>2, KeysAssumption DEF facts
  <2>5. CASE FromAdmin(s)
    <3> DEFINE j == <<"admin", "op">>
    <3>1. j[2] = "op" /\ s = Exact(j)
      BY <2>5, AdminScope DEF FromAdmin
    <3> HIDE DEF j
    <3> QED
      BY <1>1, <2>1, <3>1, ExactFacts
  <2> QED
    BY <2>2, <2>3, <2>4, <2>5
<1>3. Granted(Exact(k), grants) <=> Granted(Exact(k), grants \cup {s})
  BY <1>2, GrantedAlso
<1> QED
  BY <1>3 DEF EvaluateAdmin, k

\* Allowing one request for the session opens this request and nothing else:
\* SessionScope::covers and the combined scope of evaluate_command together let
\* no grant answer a question about another operation, place or command.
THEOREM GrantsAreNarrow == Spec => ApprovalIsNarrow
<1> DEFINE Opened(before, after) == before.decision # after.decision
           Fs(r, held) == EvaluateFs(r.path, Place[r.path], r.access, held)
           InDir(d, held) == EvaluateCommand(analysis, line, d, held)
           Narrow(s) ==
             /\ \A r \in FsRequests :
                   Opened(Fs(r, grants), Fs(r, grants \cup {s})) => MeantFs(s, r)
             /\ \A args \in GitRequests :
                   LET d == EvaluateGit(args, grants)
                   IN  Opened(d, EvaluateGit(args, grants \cup {s})) =>
                          d.decision = "RequireApproval" /\ d.scope = s
             /\ \A c \in Contexts :
                   c.cwd # cwd /\ line # <<>>
                   /\ Opened(InDir(c.cwd, grants), InDir(c.cwd, grants \cup {s})) =>
                      s.key[1] = "git_push_default"
             /\ ~Opened(EvaluateAdmin("other", grants), EvaluateAdmin("other", grants \cup {s}))
<1>1. ASSUME GrantsOK, [Next]_vars, NEW s \in grants' \ grants
      PROVE  Narrow(s)
  <2>1. FromCommand(s) \/ FromFs(s) \/ FromGit(s) \/ FromAdmin(s)
    BY <1>1, GrantOrigin
  <2>2. ScopeOK(s)
    BY <1>1, NextGrants DEF GrantsOK, Scopes
  <2>3. line # <<>> => FromCommand(s)
    BY <2>1 DEF FromFs, FromGit, FromAdmin
  <2>4. ctx \in Contexts
    BY <1>1 DEF GrantsOK
  <2> QED
    BY <2>1, <2>2, <2>3, <2>4, OpenedFs, OpenedGit, OpenedElsewhere, OpenedAdmin
<1>2. GrantsOK /\ [Next]_vars => [\A s \in grants' \ grants : Narrow(s)]_vars
  BY <1>1
<1>3. [][\A s \in grants' \ grants : Narrow(s)]_vars => ApprovalIsNarrow
  BY PTL DEF ApprovalIsNarrow
<1> QED
  BY <1>2, <1>3, GrantsAreScopes, PTL DEF Spec
=============================================================================
