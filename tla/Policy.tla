------------------------------- MODULE Policy -------------------------------
(***************************************************************************)
(* The policy evaluator (crates/workstation-policy/src/evaluator.rs, with  *)
(* classify.rs, protected.rs and attribution.rs): the decision on every    *)
(* file access, command, Git operation and administrative request, and how *)
(* session grants answer for the user afterwards.                          *)
(*                                                                         *)
(* The state is one agent's context (where it works, the settings in force *)
(* and the repository's facts), the session's grants, and the command it   *)
(* puts together, which grows by one construct per step.                   *)
(***************************************************************************)
EXTENDS Analysis, FiniteSets, FiniteSetsExt

CONSTANTS
    Analyze(_, _, _),   \* the analysis of a line, module Commands: shell, line, parser
    Place,          \* function from path words to what a canonical path shows
    Bylines,        \* texts, names and identities that disclose an agent
    BylineFiles,    \* path words of files whose text is such a text
    Contexts,       \* working directory, settings, repository facts and parser
    CmdCommands, PsCommands,    \* simple commands of each shell, as words
    TailCommands,   \* commands that may follow another one
    FsRequests, GitRequests,    \* requests of the structured tools
    RedirectTargets,            \* where output goes and input comes from
    MaxSize         \* bound on the constructs added to a command and on approvals

ASSUME PlaceAssumption ==
    /\ \A w \in DOMAIN Place : Place[w].path \in Seq(STRING)
    /\ \A r \in FsRequests : r.path \in DOMAIN Place

\* The key of a command or a Git operation is a digest, that of an
\* administrative operation starts with "admin": the two never agree.
ASSUME KeysAssumption == \A c \in Contexts : c.cwd # "admin" /\ c.facts.repo # "admin"

VARIABLES
    ctx,            \* the member of Contexts the agent works in
    shell, line,    \* the entry point and the command line, <<>> before it is typed
    analysis,       \* what the analysis of the line found
    size,           \* how many constructs and approvals there were
    grants          \* the session's grants

vars == <<ctx, shell, line, analysis, size, grants>>

cwd == ctx.cwd
settings == ctx.settings
facts == ctx.facts
env == ctx.env

-----------------------------------------------------------------------------
\* classify.rs

\* classify_class.  The cache area lies inside the application data.
PathClass(place) ==
    CASE "cache" \in place.roots                         -> "CacheTemp"
      [] place.roots \cap {"app_data", "install"} # {}   -> "ControlData"
      [] "trusted" \in place.roots                       -> "Trusted"
      [] OTHER                                           -> "External"

\* A cache area of one of the caller's tasks, or its own tool area.
OwnsTask(place) == place.owner = "task"
OwnsArea(place) == place.owner \in {"task", "tool"}

-----------------------------------------------------------------------------
\* protected.rs

\* check and check_name.  guard is the first rule that the path matches:
\* "directory" a protected directory or a .ssh component, "env" an environment
\* file, "pattern" a file pattern, "generic" a pattern that spares source files.
Protected(place, forRead) ==
    CASE place.guard = "directory"             -> TRUE
      [] place.name = "excepted"               -> FALSE
      [] place.guard = "env"                   -> ~(forRead /\ settings.envReads)
      [] place.guard = "generic"               -> place.name # "source"
      [] OTHER                                 -> place.guard = "pattern"

MutationExcepted(word) == word \in settings.mutationExceptions

-----------------------------------------------------------------------------
\* Decisions

Allow == [decision |-> "Allow"]
Deny == [decision |-> "Deny"]
Ask(risk, scope) == [decision |-> "RequireApproval", risk |-> risk, scope |-> scope]
Low == 0
Medium == 1
High == 2
Critical == 3

Strictness(d) == CASE d.decision = "Allow" -> 0 [] d.decision = "RequireApproval" -> 1 [] OTHER -> 2

PathPrefix(operation, dir) == [type |-> "path_prefix", operation |-> operation, prefix |-> dir]
Exact(key) == [type |-> "exact", key |-> key]

\* Mutant: a grant for a directory covers every operation there.
CoversAnyOperation(g, s) ==
    \/ g.type = "path_prefix" /\ s.type = "path_prefix" /\ IsPrefix(g.prefix, s.prefix)
    \/ g.type = "exact" /\ s.type = "exact" /\ g.key = s.key

\* SessionScope::covers.  A directory is the sequence of its components.
Covers(g, s) ==
    \/ /\ g.type = "path_prefix" /\ s.type = "path_prefix"
       /\ g.operation = s.operation
       /\ IsPrefix(g.prefix, s.prefix)
    \/ g.type = "exact" /\ s.type = "exact" /\ g.key = s.key

\* session_grants: held are the grants of the caller's session.
Granted(scope, held) == \E g \in held : Covers(g, scope)

-----------------------------------------------------------------------------
\* evaluate_fs

IsMutation(access) == access \notin {"Metadata", "List", "Read"}
OpClass(access) == IF access \in {"Delete", "MoveSource"} THEN "delete" ELSE "write"

EvaluateExternalWrite(place, access, held) ==
    LET scope == PathPrefix(OpClass(access), Front(place.path))
    IN  IF \/ \E g \in settings.externalGrants :
                  IsPrefix(g.prefix, place.path) /\ (g.allowDelete \/ OpClass(access) = "write")
           \/ Granted(scope, held)
        THEN Allow
        ELSE Ask(IF OpClass(access) = "delete" THEN High ELSE Medium, scope)

EvaluateFs(word, place, access, held) ==
    LET class == PathClass(place)
        guarded == Protected(place, ~IsMutation(access))
    IN  CASE settings.fault /\ IsMutation(access)           -> Deny
          [] class = "ControlData"                          -> Deny
          [] /\ guarded /\ access # "Metadata"
             /\ ~(IsMutation(access) /\ MutationExcepted(word)) -> Deny
          [] class = "Trusted"                              -> Allow
          [] class = "CacheTemp"                            -> IF OwnsArea(place) THEN Allow ELSE Deny
          [] ~IsMutation(access)                            -> Allow
          [] OTHER                                          -> EvaluateExternalWrite(place, access, held)

-----------------------------------------------------------------------------
\* attribution.rs: find_attribution, ref_name_discloses_agent,
\* identity_discloses_agent.

Discloses(word) == word \in Bylines

-----------------------------------------------------------------------------
\* evaluate_git_kind.  key binds the approval to the command it is part of.

PushTargets(spec) ==
    LET named == [i \in 1 .. Len(spec.destinations) |->
                    IF spec.destinations[i] = "HEAD" THEN facts.current ELSE spec.destinations[i]]
    IN  CASE named # <<>>         -> named
          [] facts.upstream # ""  -> <<facts.upstream>>
          [] facts.current # ""   -> <<facts.current>>
          [] OTHER                -> <<>>

DefaultBranches == IF facts.defaults = {} THEN {"main", "master"} ELSE facts.defaults

PushHits(spec) == SelectSeq(PushTargets(spec), LAMBDA b : b \in DefaultBranches)

EvaluatePush(spec, Destructive) ==
    LET hits == PushHits(spec)
        branch == IF hits = <<>> THEN "default branch" ELSE hits[1]
    IN  IF spec.force \/ spec.mirror \/ spec.delete \/ spec.deletes_tags THEN Destructive
        ELSE IF (spec.all \/ hits # <<>>) /\ ~settings.autoPush
        THEN Ask(Medium, Exact(<<"git_push_default", facts.repo, spec.remote, branch>>))
        ELSE Allow

EvaluateGitKind(g, key) ==
    LET destructive == IF settings.allowDestructive THEN Allow ELSE Ask(High, Exact(key))
    IN  CASE g.kind \in {"ResetHard", "Clean", "HistoryRewrite"}         -> destructive
          [] g.kind \in {"Rebase", "CommitAmend"} /\ facts.published     -> destructive
          [] g.kind = "CredentialAccess"                                 -> Deny
          [] g.kind = "IdentityChange"                                   -> Ask(High, Exact(key))
          [] g.kind = "Push"                                             -> EvaluatePush(g.push, destructive)
          [] g.kind = "GlobalConfigChange"                               -> Ask(Medium, Exact(key))
          [] OTHER                                                       -> Allow

\* evaluate_git_structured
EvaluateGit(args, held) ==
    LET g == ParseGit(args)
        d == EvaluateGitKind(g, <<facts.repo, args>>)
    IN  CASE settings.fault /\ g.kind # "ReadOnly"                 -> Deny
          [] \E t \in g.messages \cup g.refs : Discloses(t)        -> Deny
          [] g.idents # {}                                         -> Deny
          [] d.decision = "RequireApproval" /\ Granted(d.scope, held) -> Allow
          [] OTHER                                                 -> d

\* evaluate_admin
EvaluateAdmin(digest, held) ==
    CASE settings.fault                          -> Deny
      [] Granted(Exact(<<"admin", digest>>), held) -> Allow
      [] OTHER                                   -> Ask(Critical, Exact(<<"admin", digest>>))

-----------------------------------------------------------------------------
\* evaluate_command

\* resolve_command_path.  A word that is no path names a file in cwd.
Resolvable(word) == word \notin OpaqueWords
PlaceOf(word, dir) ==
    IF word \in DOMAIN Place THEN Place[word] ELSE [Place[dir] EXCEPT !.guard = "none", !.path = Append(@, word)]

CwdTrusted(dir) ==
    \/ PathClass(Place[dir]) = "Trusted"
    \/ PathClass(Place[dir]) = "CacheTemp" /\ OwnsTask(Place[dir])

Writes(ref) == ref.access \in {"Write", "Delete"}
Reads(ref) == ref.access \in {"Read", "ReadDisclose"}

HasOnlyReads(f) == f.paths # <<>> /\ \A i \in DOMAIN f.paths : Reads(f.paths[i])

\* The rule on the category of a finding, in an unfamiliar place or anywhere.
CategoryDecision(f, trusted, key) ==
    CASE f.category \in {"CredentialAccess", "Admin"}        -> Deny
      [] f.category = "SystemChange"                         -> Ask(High, Exact(key))
      [] f.category = "PackageGlobal" ->
             CASE settings.installs = "Allow"                -> Allow
               [] settings.installs = "Deny"                 -> Deny
               [] OTHER                                      -> Ask(Medium, Exact(key))
      [] f.category = "PackageLocal" /\ ~trusted             -> Ask(Medium, Exact(key))
      [] f.category = "Unknown" /\ ~trusted /\ ~HasOnlyReads(f) -> Ask(Medium, Exact(key))
      [] OTHER                                               -> Allow

\* The attribution guard on what the command publishes.
AttributionDecision(f) ==
    IF \/ \E w \in f.texts \cup f.refs \cup f.idents : Discloses(w)
       \/ \E w \in f.files : Resolvable(w) /\ w \in BylineFiles
    THEN Deny ELSE Allow

GhDecision(f, key) == IF f.gh.kind = "DestructiveWrite" THEN Ask(High, Exact(key)) ELSE Allow

\* Mutant: only deletions are taken to the file rules.
RefDecisionDeletesOnly(ref, dir, held) ==
    LET place == PlaceOf(ref.path, dir)
    IN  CASE ~Resolvable(ref.path) -> Allow
          [] PathClass(place) = "ControlData" /\ ref.access # "Read" -> Deny
          [] Protected(place, Reads(ref)) /\ ref.access \in {"ReadDisclose", "Write", "Delete"} -> Deny
          [] ref.access = "Delete" -> EvaluateFs(ref.path, place, ref.access, held)
          [] OTHER -> Allow

\* The rule on one path of a finding.
RefDecision(ref, dir, held) ==
    LET place == PlaceOf(ref.path, dir)
    IN  CASE ~Resolvable(ref.path) -> Allow
          [] PathClass(place) = "ControlData" /\ ref.access # "Read" -> Deny
          [] Protected(place, Reads(ref)) /\ ref.access \in {"ReadDisclose", "Write", "Delete"} -> Deny
          [] Writes(ref) -> EvaluateFs(ref.path, place, ref.access, held)
          [] OTHER -> Allow

\* A partial decision and the rule it comes from: the rule on the category of a
\* finding, on its third path, on parse errors.
Part(finding, rule, n, d) == [finding |-> finding, rule |-> rule, n |-> n, d |-> d]

\* Every partial decision on the i-th finding.
FindingDecisions(f, i, dir, key, held) ==
    {Part(i, "category", 0, CategoryDecision(f, CwdTrusted(dir), key)),
     Part(i, "attribution", 0, AttributionDecision(f)),
     Part(i, "git", 0, IF f.git.kind = "None" THEN Allow ELSE EvaluateGitKind(f.git, key)),
     Part(i, "gh", 0, GhDecision(f, key))}
    \cup {Part(i, "path", j, RefDecision(f.paths[j], dir, held)) : j \in DOMAIN f.paths}

Dynamic(a) == \E i \in DOMAIN a.findings : a.findings[i].category = "Dynamic"
Incomplete(a) == a.error \/ Dynamic(a)

AskIf(c, key) == IF c THEN Ask(Medium, Exact(key)) ELSE Allow

\* Mutant: parse errors are not asked about.
AnalysisDecisionsNoErrors(a, dir, key) ==
    {Part(0, "dynamic", 0, AskIf(Dynamic(a) /\ ~CwdTrusted(dir), key))}

\* The questions about the analysis itself: parse errors, dynamic parts.
AnalysisDecisions(a, dir, key) ==
    {Part(0, "error", 0, AskIf(a.error /\ ~CwdTrusted(dir), key)),
     Part(0, "dynamic", 0, AskIf(Dynamic(a) /\ ~CwdTrusted(dir), key))}

Parts(a, dir, key, held) ==
    AnalysisDecisions(a, dir, key)
    \cup UNION {FindingDecisions(a.findings[i], i, dir, key, held) : i \in DOMAIN a.findings}

\* Mutant: one granted question answers for the others.
CombineAny(asks, key, held) ==
    CASE asks = {} -> Allow
      [] Granted(Exact(key), held) \/ \E q \in asks : Granted(q.d.scope, held) -> Allow
      [] OTHER -> Ask(Max({q.d.risk : q \in asks}), Exact(key))

\* The scope of a request for all questions: the exact command, unless a single
\* question has an exact scope of its own.
CombinedScope(asks, key) ==
    IF \E q \in asks : asks = {q} /\ q.d.scope.type = "exact"
    THEN (CHOOSE q \in asks : TRUE).d.scope ELSE Exact(key)

\* The combination: one request for all questions.
Combine(asks, key, held) ==
    CASE asks = {} -> Allow
      [] \/ Granted(CombinedScope(asks, key), held)
         \/ \A q \in asks : Granted(q.d.scope, held) -> Allow
      [] OTHER -> Ask(Max({q.d.risk : q \in asks}), CombinedScope(asks, key))

\* The key of the exact scope: the directory and the text, not the entry point.
CommandKey(l, dir) == <<dir, l>>

EvaluateCommand(a, l, dir, held) ==
    LET key == CommandKey(l, dir)
        parts == Parts(a, dir, key, held)
        never == \/ PathClass(Place[dir]) = "ControlData"
                 \/ Protected(Place[dir], TRUE)
                 \/ settings.fault
    IN  CASE never                          -> Deny
          [] ~never /\ ~settings.shellChecks -> Allow
          [] ~never /\ settings.shellChecks  ->
                 IF \E q \in parts : q.d.decision = "Deny" THEN Deny
                 ELSE Combine({q \in parts : q.d.decision = "RequireApproval"}, key, held)

Decision == EvaluateCommand(analysis, line, cwd, grants)

\* What the evaluator may expect of the analysis: it reports on a line whatever
\* it reports on one of its commands alone.
Contained(a, b) ==
    /\ a.error => b.error
    /\ \A i \in DOMAIN a.findings : \E j \in DOMAIN b.findings : b.findings[j] = a.findings[i]

Compositional(lines) ==
    \A sh \in {"cmd", "powershell"}, e \in {c.env : c \in Contexts}, l \in lines :
        \A i \in DOMAIN l : Contained(Analyze(sh, <<l[i]>>, e), Analyze(sh, l, e))

-----------------------------------------------------------------------------
\* The agent and the user

Init ==
    /\ ctx \in Contexts
    /\ shell = "cmd" /\ line = <<>> /\ analysis = Found(<<>>) /\ size = 0 /\ grants = {}

\* The agent writes the line l.
Write(sh, l) ==
    /\ shell' = sh /\ line' = l /\ analysis' = Analyze(sh, l, env)
    /\ UNCHANGED <<ctx, grants>>

\* A simple command.  A process request is one program and its arguments.
Type(sh, words) == line = <<>> /\ Write(sh, <<Segment(words)>>) /\ UNCHANGED size

Extend(sh, l) == line # <<>> /\ size < MaxSize /\ size' = size + 1 /\ Write(sh, l)

\* One more command in the same line.
Chain(words) == shell # "process" /\ Extend(shell, Append(line, Segment(words)))

\* A redirection on the last command of the line.  The PowerShell parser
\* reports those of commands, not those of member calls.
Redirect(target, input) ==
    /\ shell # "process" /\ line # <<>>
    /\ Last(line).redirects = <<>> /\ Last(line).tokens[1] \notin NetTypes
    /\ shell = "powershell" => ~input
    /\ Extend(shell, [line EXCEPT ![Len(line)].redirects = <<[target |-> target, input |-> input]>>])

Nested(tokens, inner) == <<[tokens |-> tokens, redirects |-> <<>>, inner |-> inner]>>

\* The line as the argument of an interpreter, run from any entry point.
InterpretCmd(sh) == shell = "cmd" /\ Extend(sh, Nested(<<"cmd", "/c", "@">>, line))

InterpretPs(sh, option) ==
    shell = "powershell" /\ Extend(sh, Nested(<<"powershell", option, "@">>, line))

\* A prefix of cmd on a line of one command.
Prefix(words) ==
    shell = "cmd" /\ Len(line) = 1 /\ Extend(shell, [line EXCEPT ![1].tokens = words \o @])

\* A process started by a script.
LaunchFromScript ==
    /\ shell = "process" /\ line # <<>>
    /\ Extend("powershell",
              Nested(<<"start-process", "-path", line[1].tokens[1], "-argumentlist", "@">>,
                     <<[line[1] EXCEPT !.tokens = Tail(@)]>>))

\* The user allows what is being asked, for the session.
AllowForSession(d) ==
    /\ d.decision = "RequireApproval" /\ size < MaxSize
    /\ grants' = grants \cup {d.scope} /\ size' = size + 1
    /\ UNCHANGED <<ctx, shell, line, analysis>>

AllowCommand == line # <<>> /\ AllowForSession(Decision)
AllowFs ==
    /\ line = <<>>
    /\ \E r \in FsRequests : AllowForSession(EvaluateFs(r.path, Place[r.path], r.access, grants))
AllowGit == line = <<>> /\ \E args \in GitRequests : AllowForSession(EvaluateGit(args, grants))
AllowAdmin == line = <<>> /\ AllowForSession(EvaluateAdmin("op", grants))

CmdPrefixes == {<<"call">>, <<"start", "/wait", "a title">>, <<"if", "not", "exist", "x">>,
             <<"for", "x", "do">>}

Next ==
    \/ \E w \in CmdCommands : Type("cmd", w) \/ Type("process", w)
    \/ \E w \in PsCommands : Type("powershell", w)
    \/ \E w \in TailCommands : Chain(w)
    \/ \E t \in RedirectTargets, input \in BOOLEAN : Redirect(t, input)
    \/ \E sh \in {"cmd", "powershell", "process"} :
           InterpretCmd(sh) \/ InterpretPs(sh, "-command") \/ InterpretPs(sh, "-enc")
    \/ \E words \in CmdPrefixes : Prefix(words)
    \/ LaunchFromScript
    \/ AllowCommand \/ AllowFs \/ AllowGit \/ AllowAdmin

Spec == Init /\ [][Next]_vars

-----------------------------------------------------------------------------
\* Properties

\* The finding is still there, with all its paths.
Kept(f, a) ==
    \E i \in DOMAIN a.findings :
        /\ a.findings[i].category = f.category
        /\ a.findings[i].git = f.git /\ a.findings[i].gh = f.gh
        /\ Range(f.paths) \subseteq Range(a.findings[i].paths)

\* Putting a command inside another construct hides nothing from the policy:
\* every finding survives appending a command, a redirection, call, start, if,
\* for, cmd /c, powershell -Command, -EncodedCommand and Start-Process.  Only
\* nesting beyond MaxDepth (two levels per construct, and one of the command) and a parser
\* that fails lose findings, and then the analysis says that it is incomplete.
NothingHidden ==
    [][line # <<>> /\ line' # line =>
          LET lost == \E i \in DOMAIN analysis.findings : ~Kept(analysis.findings[i], analysis')
          IN  lost => Incomplete(analysis') /\ (~env.parser \/ 2 * size' + 1 > MaxDepth)]_vars

\* Outside the trusted workspace a command that the analysis could not follow
\* to the end never runs unasked: the user was asked about this very command,
\* or switched the checks off.
IncompleteAsks ==
    /\ line # <<>> /\ settings.shellChecks
    /\ ~CwdTrusted(cwd) /\ Incomplete(analysis)
    => \/ Strictness(Decision) > 0
       \/ Exact(CommandKey(line, cwd)) \in grants

\* A command line is judged no more leniently than the strictest of its
\* commands alone, unless the user allowed the whole line.
PartsDecide ==
    line # <<>> =>
        \/ Exact(CommandKey(line, cwd)) \in grants
        \/ \A i \in DOMAIN line :
               Strictness(EvaluateCommand(Analyze(shell, <<line[i]>>, env), <<line[i]>>, cwd, grants)) <= Strictness(Decision)

\* A shell is no way around the structured tools: a command that writes or
\* deletes a path it names, or performs a Git operation, is judged no more
\* leniently than the file tool on that path and than the rule on that Git
\* operation, unless the user allowed the command itself or switched the
\* checks off.
NoWayAround ==
    line # <<>> /\ settings.shellChecks /\ Exact(CommandKey(line, cwd)) \notin grants =>
        \A i \in DOMAIN analysis.findings :
            LET f == analysis.findings[i]
            IN  /\ \A j \in DOMAIN f.paths :
                       Writes(f.paths[j]) /\ Resolvable(f.paths[j].path) =>
                           Strictness(EvaluateFs(f.paths[j].path, PlaceOf(f.paths[j].path, cwd),
                                                 f.paths[j].access, grants)) <= Strictness(Decision)
                /\ f.git.kind # "None" /\ f.git.idents = {} =>
                       LET d == EvaluateGitKind(f.git, CommandKey(line, cwd))
                       IN  IF d.decision = "RequireApproval" /\ Granted(d.scope, grants) THEN TRUE
                           ELSE Strictness(d) <= Strictness(Decision)

\* What the user may have meant when allowing scope s for the session: the same
\* file operation at or below the same directory, and nothing else.
MeantFs(s, r) ==
    /\ s.type = "path_prefix"
    /\ s.operation = (IF r.access \in {"Delete", "MoveSource"} THEN "delete" ELSE "write")
    /\ IsPrefix(s.prefix, Place[r.path].path)

\* Allowing one request for the session opens that request and nothing more:
\* no other file request than the same operation below the same directory, no
\* other Git operation than one with the same target, no other administrative
\* operation, and in another working directory no command except for a push to
\* the branch that was allowed.  What was denied stays denied.
ApprovalIsNarrow ==
    [][\A s \in grants' \ grants :
          LET Opened(before, after) == before.decision # after.decision
              Fs(r, held) == EvaluateFs(r.path, Place[r.path], r.access, held)
              InDir(d, held) == EvaluateCommand(analysis, line, d, held)
          IN  /\ \A r \in FsRequests : Opened(Fs(r, grants), Fs(r, grants \cup {s})) => MeantFs(s, r)
              /\ \A args \in GitRequests :
                     LET d == EvaluateGit(args, grants)
                     IN  Opened(d, EvaluateGit(args, grants \cup {s})) =>
                             d.decision = "RequireApproval" /\ d.scope = s
              /\ \A c \in Contexts : c.cwd # cwd /\ line # <<>> /\
                     Opened(InDir(c.cwd, grants), InDir(c.cwd, grants \cup {s})) => s.key[1] = "git_push_default"
              /\ ~Opened(EvaluateAdmin("other", grants), EvaluateAdmin("other", grants \cup {s}))]_vars
=============================================================================
