------------------------------ MODULE Commands ------------------------------
(***************************************************************************)
(* Command analysis: from a process or shell request to the findings the   *)
(* policy decides on (crates/workstation-policy/src/command/mod.rs, with   *)
(* tokenize.rs and powershell.rs for the shape of its input).              *)
(*                                                                         *)
(* Joining and splitting the text of a nested line again (cmd /c "...",    *)
(* -Command, a Base64 payload) gives the same line.                        *)
(***************************************************************************)
EXTENDS Analysis

-----------------------------------------------------------------------------
\* classify_program_inner, the arms that read their arguments as file names.

SlashWords == {"/add", "/c", "/d", "/f", "/list", "/listcreds", "/m", "/query", "/ru", "/wait"}

CmdBuiltins == {"type", "findstr", "dir", "fc", "del", "copy", "move", "md"}

\* positional and pos_unix_or_cmd: cmd builtins also skip their /switches.
Operands(prog, args) ==
    SelectSeq(args, LAMBDA w : w \notin DashWords /\ (prog \in CmdBuiltins => w \notin SlashWords))

CmdOperands(args) == SelectSeq(args, LAMBDA w : w \notin DashWords \cup SlashWords)

\* split_last: the last operand is the destination if there are two.
Sources(p) == IF Len(p) > 1 THEN Front(p) ELSE p
Destination(p) == IF Len(p) > 1 THEN <<Last(p)>> ELSE <<>>

\* A bare new name stays in the source's directory: the source stands for it.
RenamedTo(prog, src, dst) ==
    IF prog = "ren" /\ dst # <<>> /\ ~LooksLikePath(dst[1]) THEN Take(src, 1) ELSE dst
Local(words) == SelectSeq(words, LAMBDA w : w \notin RemoteWords)

PrintTools == {"type", "cat"}
SearchTools == {"findstr", "grep"}
CompareTools == {"fc", "diff", "sort"}
QueryTools == CompareTools \cup {"dir", "ls", "echo", "cd", "route", "set"}
ReadTools == PrintTools \cup SearchTools \cup QueryTools \cup {"certutil"}

ReadTool(prog, args) ==
    LET p == Operands(prog, args)
    IN  CASE prog \in PrintTools  -> One("ReadOnly", Refs(p, "ReadDisclose"))
          [] prog \in SearchTools -> One("ReadOnly", Refs(Skip(p, 1), "ReadDisclose"))
          [] prog = "certutil" ->
                 LET files == CmdOperands(args)
                 IN  CASE Has(args, {"-encode"}) ->
                              One("ReadOnly", Refs(Take(files, 1), "ReadDisclose")
                                              \o Refs(Skip(files, 1), "Write"))
                       [] Has(args, {"-exportpfx"}) -> One("CredentialAccess", <<>>)
                       [] Has(args, {"-urlcache"}) -> One("Network", PathLikeRefs(args, "Write"))
                       [] OTHER -> One("Unknown", PathLikeRefs(args, "Unknown"))
          [] prog = "route" /\ args # <<>> /\ args[1] # "print" -> One("Admin", <<>>)
          [] prog \in {"echo", "set"} -> One("ReadOnly", <<>>)
          [] OTHER -> One("ReadOnly", PathLikeRefs(p, IF prog \in CompareTools
                                                      THEN "ReadDisclose" ELSE "Read"))

DeleteTools == {"del", "rm"}
CopyTools == {"copy", "scp"}
MoveTools == {"move", "ren"}
ModifyTools == {"md", "touch", "icacls"}
ArchiveTools == {"tar", "zip"}
ChangeTools == UNION {DeleteTools, CopyTools, MoveTools, ModifyTools, ArchiveTools,
                      {"mklink", "sed", "curl", "ssh"}}

ChangeTool(prog, args) ==
    LET p == Operands(prog, args)
    IN  CASE prog \in DeleteTools -> One("Unknown", Refs(p, "Delete"))
          [] prog \in CopyTools ->
                 One(IF prog = "scp" THEN "Network" ELSE "Unknown",
                     Refs(Local(Sources(p)), "ReadDisclose") \o Refs(Local(Destination(p)), "Write"))
          [] prog \in MoveTools ->
                 One("Unknown", Refs(Sources(p), "Delete")
                                \o Refs(RenamedTo(prog, Sources(p), Destination(p)), "Write"))
          [] prog \in ModifyTools -> One("Unknown", Refs(p, "Write"))
          [] prog = "mklink" ->
                 LET files == CmdOperands(args)
                 IN  One("Unknown", Refs(Take(files, 1), "Write") \o Refs(Skip(files, 1), "Read"))
          [] prog = "sed" ->
                 IF Has(args, {"-i"}) THEN One("Unknown", Refs(Skip(p, 1), "Write"))
                 ELSE One("ReadOnly", Refs(Skip(p, 1), "ReadDisclose"))
          [] prog = "curl" ->
                 One("Network", Refs(SelectSeq(ValuesOf(args, {"-o", "--output"}), LAMBDA w : w # "-"),
                                     "Write")
                                \o Refs(ValuesOf(args, {"-t", "--upload-file", "--data"}),
                                        "ReadDisclose"))
          [] prog = "ssh" -> One("Network", <<>>)
          [] OTHER -> One("Unknown", PathLikeRefs(args, "Unknown"))

-----------------------------------------------------------------------------
\* classify_program_inner, the arms about the system.

MachineKeys == {"hklm", "hkcr"}
SecretHives == {"hklm\\sam"}

RegistryTools == {"reg", "sc", "net", "netsh"}

RegistryTool(prog, args) ==
    LET sub == IF args = <<>> THEN "" ELSE args[1]
        key == IF Len(args) > 1 THEN args[2] ELSE ""
    IN  CASE prog = "reg" ->
                 CASE sub = "query" -> One("ReadOnly", <<>>)
                   [] sub = "export" /\ key \in SecretHives -> One("CredentialAccess", <<>>)
                   [] sub = "export" -> One("ReadOnly", Refs(Take(Skip(CmdOperands(args), 2), 1), "Write"))
                   [] key \in MachineKeys \cup SecretHives -> One("Admin", <<>>)
                   [] OTHER -> One("SystemChange", <<>>)
          [] prog = "sc" -> One(IF sub = "query" THEN "ReadOnly" ELSE "Admin", <<>>)
          [] prog = "net" ->
                 CASE sub \in {"start", "stop"} /\ Len(args) > 1 -> One("Admin", <<>>)
                   [] sub = "user" /\ (Has(args, {"/add"}) \/ Len(args) > 2) -> One("Admin", <<>>)
                   [] sub = "localgroup" /\ Has(args, {"/add"}) -> One("Admin", <<>>)
                   [] sub = "use" /\ Len(args) > 1 -> One("SystemChange", <<>>)
                   [] OTHER -> One("ReadOnly", <<>>)
          [] prog = "netsh" ->
                 One(IF Has(args, {"show"}) /\ ~Has(args, {"set", "add"}) THEN "ReadOnly" ELSE "Admin",
                     <<>>)

SystemTools == {"diskpart", "msiexec", "chkdsk", "shutdown", "schtasks", "setx", "wmic", "cmdkey",
                "vaultcmd", "rundll32", "mimikatz", "procdump", "git-credential-store"}

SystemTool(prog, args) ==
    LET Of(c, yes, no) == One(IF c THEN yes ELSE no, <<>>)
    IN  CASE prog \in {"diskpart", "msiexec"} -> One("Admin", <<>>)
          [] prog = "chkdsk" -> Of(Has(args, {"/f"}), "Admin", "ReadOnly")
          [] prog = "shutdown" -> One("SystemChange", <<>>)
          [] prog = "schtasks" ->
                 IF Has(args, {"/query"}) THEN One("ReadOnly", <<>>)
                 ELSE Of("system" \in Range(ValuesOf(args, {"/ru"})), "Admin", "SystemChange")
          [] prog = "setx" -> Of(Has(args, {"/m"}), "Admin", "SystemChange")
          [] prog = "wmic" -> Of(Has(args, {"call", "delete"}), "Admin", "ReadOnly")
          [] prog = "cmdkey" -> Of(Has(args, {"/list"}), "ReadOnly", "SystemChange")
          [] prog = "vaultcmd" -> Of(Has(args, {"/listcreds"}), "CredentialAccess", "SystemChange")
          [] prog = "rundll32" -> Of(Has(args, {"keymgr"}), "CredentialAccess", "Dynamic")
          [] prog = "procdump" ->
                 IF Has(args, {"lsass"}) THEN One("CredentialAccess", <<>>)
                 ELSE One("Unknown", PathLikeRefs(args, "Write"))
          [] OTHER -> One("CredentialAccess", <<>>)

Interpreters == {"bash", "node", "python", "wsl"}

PackageCategory(scope) ==
    CASE scope = "Local"  -> "PackageLocal"
      [] scope = "Global" -> "PackageGlobal"
      [] scope = "Admin"  -> "Admin"
      [] OTHER            -> "Unknown"

\* The interpreters, the package managers and every other program.
OtherProgram(prog, args, scope) ==
    CASE prog = "python" /\ scope # "None" -> One(PackageCategory(scope), <<>>)
      [] prog \in Interpreters ->
             One(IF Has(args, {"-c", "-e", "-command"}) \/ prog = "wsl" THEN "Dynamic" ELSE "Unknown",
                 PathLikeRefs(args, "Unknown"))
      [] scope # "None" ->
             One(PackageCategory(scope), Refs(ValuesOf(args, {"--target", "-t"}), "Write"))
      [] OTHER -> One("Unknown", PathLikeRefs(args, "Unknown"))

GitFinding(g) ==
    LET category ==
            CASE g.kind \in {"ResetHard", "Clean", "HistoryRewrite"}       -> "GitDestructive"
              [] g.kind = "CredentialAccess"                               -> "CredentialAccess"
              [] g.kind \in {"IdentityChange", "GlobalConfigChange"}       -> "SystemChange"
              [] g.kind = "Unknown"                                        -> "Unknown"
              [] OTHER                                                     -> "GitSafe"
    IN  Found(<<[Finding(category, Refs(g.outputs, "Write")) EXCEPT
                   !.git = g, !.texts = g.messages, !.files = g.files, !.refs = g.refs,
                   !.idents = g.idents]>>)

GhFinding(g) ==
    LET category ==
            CASE g.kind = "Read"                            -> "GithubRead"
              [] g.kind \in {"Write", "DestructiveWrite"}   -> "GithubWrite"
              [] g.kind = "CredentialAccess"                -> "CredentialAccess"
              [] g.kind = "CredentialChange"                -> "SystemChange"
              [] OTHER                                      -> "Unknown"
    IN  Found(<<[Finding(category, Refs(g.files, "Read")) EXCEPT
                   !.gh = g, !.texts = g.texts, !.files = Range(g.files), !.refs = g.refs]>>)

-----------------------------------------------------------------------------
\* classify_ps_command, the cmdlets.

PsSwitches == {"-recurse", "-file"}

\* split_ps_params: a parameter takes the next word unless it is a switch.
PsGet(args, keys) == SelectSeq(ValuesOf(args, keys), LAMBDA w : w \notin DashWords)
PsPositional(args) == Positional(WithoutValues(args, DashWords \ PsSwitches))

PathOrFirst(args) ==
    LET named == PsGet(args, {"-path"})
    IN  IF named = <<>> THEN Take(PsPositional(args), 1) ELSE named

\* A parameter, or the second positional word.
NamedOrSecond(args, keys) ==
    LET named == PsGet(args, keys)
    IN  IF named = <<>> THEN Take(Skip(PsPositional(args), 1), 1) ELSE named

ProviderCategory == [hklm |-> "Admin", hkcu |-> "SystemChange", env |-> "ReadOnly",
                     cert |-> "CredentialAccess"]
OnProvider(words) == words # <<>> /\ words[1] \in DOMAIN ProviderCategory

PsReadCmdlets == {"get-content", "get-filehash", "select-string", "get-childitem", "test-path",
                  "split-path", "set-content", "tee-object"}

\* Cmdlets that read, list or write a file in place.
PsReadCmdlet(name, args) ==
    LET p == PathOrFirst(args)
        named == PsGet(args, {"-path"})
    IN  CASE name = "get-content" -> One("ReadOnly", Refs(p, "ReadDisclose"))
          [] name = "get-filehash" -> One("ReadOnly", Refs(p, "Read"))
          [] name = "select-string" -> One("ReadOnly", Refs(named, "ReadDisclose"))
          [] name \in {"get-childitem", "test-path", "split-path"} ->
                 LET q == IF name = "split-path" THEN named ELSE p
                 IN  One("ReadOnly", IF OnProvider(q) THEN <<>> ELSE Refs(q, "Read"))
          [] name = "set-content" -> One("Unknown", Refs(p, "Write"))
          [] name = "tee-object" ->
                 One("Unknown", Refs(IF named = <<>> THEN PsPositional(args) ELSE named, "Write"))

PsChangeCmdlets == {"new-item", "remove-item", "copy-item", "move-item", "rename-item", "set-item",
                    "expand-archive", "compress-archive", "invoke-webrequest"}

\* Cmdlets that create, move, delete or fetch.
PsChangeCmdlet(name, args) ==
    LET p == PathOrFirst(args)
        named == PsGet(args, {"-path"})
    IN  CASE name = "new-item" ->
                 LET q == IF p = <<>> THEN PsGet(args, {"-name"}) ELSE p
                 IN  IF OnProvider(q) THEN One(ProviderCategory[q[1]], <<>>)
                     ELSE One("Unknown", Refs(q, "Write") \o Refs(PsGet(args, {"-target"}), "Read"))
          [] name = "remove-item" ->
                 IF OnProvider(p) THEN One(ProviderCategory[p[1]], <<>>)
                 ELSE One("Unknown", Refs(p, "Delete"))
          [] name = "copy-item" ->
                 One("Unknown", Refs(p, "ReadDisclose")
                                \o Refs(NamedOrSecond(args, {"-destination"}), "Write"))
          [] name \in {"move-item", "rename-item"} ->
                 LET dst == NamedOrSecond(args, {"-destination"})
                 IN  One("Unknown", Refs(p, "Delete")
                                    \o Refs(IF name = "move-item" THEN dst ELSE RenamedTo("ren", p, dst),
                                            "Write"))
          [] name = "set-item" ->
                 One(IF OnProvider(p) THEN ProviderCategory[p[1]] ELSE "SystemChange", <<>>)
          [] name = "expand-archive" ->
                 LET dst == PsGet(args, {"-destination"})
                 IN  One("Unknown", Refs(p, "Read") \o Refs(IF dst = <<>> THEN <<".">> ELSE dst, "Write"))
          [] name = "compress-archive" ->
                 One("Unknown", Refs(named, "ReadDisclose") \o Refs(PsGet(args, {"-destination"}), "Write"))
          [] name = "invoke-webrequest" ->
                 One("Network", Refs(PsGet(args, {"-outfile"}), "Write")
                                \o Refs(PsGet(args, {"-infile"}), "ReadDisclose"))

PsSystemCmdlets == {"get-credential", "new-service", "set-executionpolicy", "register-scheduledtask",
                    "install-module", "invoke-expression"}

PsSystemCmdlet(name, args) ==
    LET scope == PsGet(args, {"-scope"})
    IN  CASE name = "get-credential" -> One("CredentialAccess", <<>>)
          [] name = "new-service" -> One("Admin", <<>>)
          [] name = "set-executionpolicy" ->
                 One(CASE scope = <<"process">>     -> "ReadOnly"
                       [] scope = <<"currentuser">> -> "SystemChange"
                       [] OTHER                     -> "Admin", <<>>)
          [] name = "register-scheduledtask" -> One("SystemChange", <<>>)
          [] name = "install-module" ->
                 One(IF scope = <<"allusers">> THEN "Admin" ELSE "PackageGlobal", <<>>)
          [] name = "invoke-expression" -> One("Dynamic", <<>>)

\* Other names of the cmdlets that are also programs of cmd or of this model.
PsAlias == [cat |-> "get-content", type |-> "get-content", dir |-> "get-childitem",
            ls |-> "get-childitem", cd |-> "get-childitem", sc |-> "set-content",
            md |-> "new-item", del |-> "remove-item", rm |-> "remove-item", copy |-> "copy-item",
            move |-> "move-item", ren |-> "rename-item", curl |-> "invoke-webrequest",
            start |-> "start-process", echo |-> "write-output", set |-> "write-output",
            sort |-> "write-output"]
PsName(word) == IF word \in DOMAIN PsAlias THEN PsAlias[word] ELSE word

PsQuietCmdlets == {"write-output", "import-module"}

\* Names with '-' and no '.', '\' or '/' that no arm knows.
UnknownCmdlets == {"invoke-thing"}

\* classify_member: tokens are the type, the member and its literal arguments.
ClassifyMember(tokens) ==
    LET type == tokens[1]
        member == tokens[2]
        literals == SubSeq(tokens, 3, Len(tokens))
        first == Take(literals, 1)
        second == Take(Skip(literals, 1), 1)
    IN  CASE type = "[scriptblock]" /\ member = "create" -> One("Dynamic", <<>>)
          [] type = "[environment]" /\ member = "setenvironmentvariable" ->
                 One(CASE "machine" \in Range(literals) -> "Admin"
                       [] "user" \in Range(literals)    -> "SystemChange"
                       [] OTHER                         -> "ReadOnly", <<>>)
          [] type = "[registry]" -> One("SystemChange", <<>>)
          [] type = "[io.file]" ->
                 CASE member = "readalltext" -> One("ReadOnly", Refs(first, "ReadDisclose"))
                   [] member = "exists"      -> One("ReadOnly", Refs(first, "Read"))
                   [] member = "delete"      -> One("Unknown", Refs(first, "Delete"))
                   [] member = "copy"        -> One("Unknown", Refs(first, "ReadDisclose") \o Refs(second, "Write"))
                   [] member = "move"        -> One("Unknown", Refs(first, "Delete") \o Refs(second, "Write"))
                   [] OTHER                  -> One("Unknown", Refs(first, "Write"))
          [] member = "downloadfile" -> One("Network", Refs(second, "Write"))
          [] member = "uploadfile"   -> One("Network", <<>>)
          [] member = "invoke"       -> One("Dynamic", <<>>)
          [] member = "save"         -> One("Unknown", Refs(first, "Write"))
          [] OTHER                   -> Found(<<>>)

-----------------------------------------------------------------------------
\* Wrappers of cmd: the loop of cmd_findings that strips call, start, if, for.

RECURSIVE DropStartSwitches(_)
DropStartSwitches(t) ==
    CASE t = <<>>                          -> <<>>
      [] t[1] = "/d"                       -> DropStartSwitches(Skip(t, 2))
      [] t[1] \in SlashWords \cup {""}     -> DropStartSwitches(Tail(t))
      [] OTHER                             -> t

StartBody(t) ==
    LET body == DropStartSwitches(t)
    IN  IF Len(body) > 1 /\ body[1] = "a title" THEN Tail(body) ELSE body

\* Mutant: the condition takes one word too many.
IfBodyTooLong(t) ==
    LET c == IF t # <<>> /\ t[1] = "not" THEN Tail(t) ELSE t
    IN  IF c # <<>> /\ c[1] \in {"exist", "defined"} THEN Skip(c, 3) ELSE c

IfBody(t) ==
    LET c == IF t # <<>> /\ t[1] = "not" THEN Tail(t) ELSE t
    IN  CASE c = <<>>                           -> <<>>
          [] c[1] \in {"exist", "defined"}      -> Skip(c, 2)
          [] c[1] = "a==b"                      -> Tail(c)
          [] Len(c) >= 3                        -> Skip(c, 3)
          [] OTHER                              -> c

ForBody(t) == LET do == SelectInSeq(t, LAMBDA w : w = "do") IN IF do = 0 THEN <<>> ELSE Skip(t, do)

\* The words left after the wrappers, and one Dynamic finding for each if or for.
RECURSIVE Unwrap(_)
Unwrap(t) ==
    LET Dynamic(u) == [u EXCEPT !.findings = <<Finding("Dynamic", <<>>)>> \o @]
    IN  CASE t # <<>> /\ t[1] = "call" /\ Len(t) > 1  -> Unwrap(Tail(t))
          [] t # <<>> /\ t[1] = "start" /\ Len(t) > 1 -> Unwrap(StartBody(Tail(t)))
          [] t # <<>> /\ t[1] = "if"                  -> Dynamic(Unwrap(IfBody(Tail(t))))
          [] t # <<>> /\ t[1] = "for"                 -> Dynamic(Unwrap(ForBody(t)))
          [] OTHER                                    -> [tokens |-> t, findings |-> <<>>]

-----------------------------------------------------------------------------
\* The recursive analysis.  env.parser: the PowerShell parser answers in time;
\* env.venv: pip resolves to a project's virtual environment.

\* The command line that the words of an argument list spell.
Text(words, inner) ==
    CASE "@" \in Range(words) -> inner
      [] words = <<>>         -> <<>>
      [] OTHER                -> <<Segment(words)>>

\* classify_program: redirections go to the first finding, or are one.
Redirected(found, redirects) ==
    CASE redirects = <<>>         -> found
      [] found.findings = <<>>    -> [found EXCEPT !.findings = <<Finding("Unknown", redirects)>>]
      [] OTHER                    -> [found EXCEPT !.findings[1].paths = @ \o redirects]

CmdRedirects(seg) ==
    LET real == SelectSeq(seg.redirects, LAMBDA r : r.target # "nul")
    IN  [i \in 1 .. Len(real) |-> Ref(real[i].target, IF real[i].input THEN "ReadDisclose" ELSE "Write")]

PsRedirects(seg) ==
    LET real == SelectSeq(seg.redirects, LAMBDA r : r.target # "nul")
    IN  [i \in 1 .. Len(real) |-> Ref(real[i].target, "Write")]

\* Who reads a line ("cmd", "powershell", or "process" for one program and its
\* arguments), the line, and how deep it is nested.
RECURSIVE Findings(_, _, _, _)

\* The arms that analyse a command line found in their arguments.
CmdProgram(args, inner, depth, env) ==
    LET at == SelectInSeq(args, LAMBDA w : w = "/c")
    IN  IF at = 0 THEN One("Dynamic", <<>>)
        ELSE Findings("cmd", Text(Skip(args, at), inner), depth + 1, env)

PowershellProgram(args, inner, depth, env) ==
    LET at == SelectInSeq(args, LAMBDA w : w \in {"-enc", "-command", "-c", "-file", "-f"})
        option == IF at = 0 THEN "" ELSE args[at]
        rest == IF at = 0 THEN Positional(args) ELSE Skip(args, at)
        opaque == \/ option = "" /\ rest = <<>>
                  \/ option = "-enc" /\ Take(rest, 1) # <<"@">>
                  \/ option \in {"-command", "-c"} /\ rest = <<"-">>
        extra == CASE option = "-enc" -> <<"Dynamic">> [] option = "" -> <<"Unknown">> [] OTHER -> <<>>
    IN  CASE option \in {"-file", "-f"} -> One("Unknown", Refs(Take(rest, 1), "Read"))
          [] opaque                     -> One("Dynamic", <<>>)
          [] OTHER                      -> AndAll(Findings("powershell", Text(rest, inner), depth + 1, env), extra)

\* classify_program_inner
ClassifyProgramInner(prog, args, inner, depth, env) ==
    CASE prog = "cmd"             -> CmdProgram(args, inner, depth, env)
      [] prog = "powershell"      -> PowershellProgram(args, inner, depth, env)
      [] prog = "git"             -> GitFinding(ParseGit(args))
      [] prog = "gh"              -> GhFinding(ParseGh(args))
      [] prog \in ReadTools       -> ReadTool(prog, args)
      [] prog \in ChangeTools     -> ChangeTool(prog, args)
      [] prog \in RegistryTools   -> RegistryTool(prog, args)
      [] prog \in SystemTools     -> SystemTool(prog, args)
      [] OTHER                    -> OtherProgram(prog, args, PackageScope(prog, args, env.venv))

\* classify_program
ClassifyProgram(tokens, inner, redirects, depth, env) ==
    Redirected(Findings("process", <<[Segment(tokens) EXCEPT !.inner = inner]>>, depth, env), redirects)

\* One segment of a cmd line, its wrappers taken off.  When they use up all the
\* words, the segment's redirections are not looked at.
CmdSegment(seg, u, redirects, depth, env) ==
    CASE seg.tokens = <<>> /\ redirects = <<>> -> Found(<<>>)
      [] seg.tokens = <<>> -> One("Unknown", redirects)
      [] u.tokens = <<>>   -> Found(u.findings)
      [] OTHER -> Join(Found(u.findings),
                       AndAll(ClassifyProgram(u.tokens, seg.inner, redirects, depth, env),
                              IF u.tokens[1] = "%prog%" THEN <<"Dynamic">> ELSE <<>>))

CmdFindings(line, depth, env) ==
    LET Add(acc, seg) == Join(acc, CmdSegment(seg, Unwrap(seg.tokens), CmdRedirects(seg), depth, env))
    IN  IF depth > MaxDepth THEN One("Dynamic", <<>>) ELSE FoldLeft(Add, Found(<<>>), line)

\* Start-Process: the program is classified, and the launch is dynamic.
StartProcess(args, inner, redirects, depth, env) ==
    LET named == PsGet(args, {"-path"})
        file == Take(IF named = <<>> THEN PsPositional(args) ELSE named, 1)
        words == PsGet(args, {"-argumentlist"})
        rest == IF words = <<"@">> THEN inner[1] ELSE Segment(words)
    IN  CASE PsGet(args, {"-verb"}) = <<"runas">> -> Redirected(One("Admin", <<>>), redirects)
          [] file = <<>> -> Redirected(One("Dynamic", <<>>), redirects)
          [] OTHER -> And(ClassifyProgram(file \o rest.tokens, rest.inner, redirects, depth + 1, env),
                          "Dynamic")

\* classify_ps_command
PsCommand(seg, depth, env) ==
    LET name == PsName(seg.tokens[1])
        args == Tail(seg.tokens)
        redirects == PsRedirects(seg)
    IN  CASE name = "$cmd" -> One("Dynamic", redirects)
          [] name \in PsReadCmdlets   -> Redirected(PsReadCmdlet(name, args), redirects)
          [] name \in PsChangeCmdlets -> Redirected(PsChangeCmdlet(name, args), redirects)
          [] name \in PsSystemCmdlets -> Redirected(PsSystemCmdlet(name, args), redirects)
          [] name = "start-process"   -> StartProcess(args, seg.inner, redirects, depth, env)
          [] name = "import-module"   ->
                 Redirected(One("ReadOnly", PathLikeRefs(Take(PsPositional(args), 1), "Read")), redirects)
          [] name \in PsQuietCmdlets  -> Redirected(One("ReadOnly", <<>>), redirects)
          [] name \in UnknownCmdlets  -> One("Unknown", PathLikeRefs(args, "Unknown") \o redirects)
          [] OTHER -> ClassifyProgram(seg.tokens, seg.inner, redirects, depth + 1, env)

\* A script: its commands, then its member calls.  "<error>" marks a syntax
\* error the parser reports beside the commands it recognised.
PsFindings(line, depth, env) ==
    LET IsMember(seg) == seg.tokens[1] \in NetTypes
        IsCommand(seg) == seg.tokens[1] \notin NetTypes \cup {"<error>"}
        Add(acc, seg) ==
            Join(acc, IF IsMember(seg) THEN ClassifyMember(seg.tokens) ELSE PsCommand(seg, depth, env))
        failed == [Found(<<>>) EXCEPT !.error = \E i \in DOMAIN line : line[i].tokens[1] = "<error>"]
    IN  CASE depth > MaxDepth -> One("Dynamic", <<>>)
          [] ~env.parser      -> [One("Unknown", <<>>) EXCEPT !.error = TRUE]
          [] OTHER            -> FoldLeft(Add, failed, SelectSeq(line, IsCommand) \o SelectSeq(line, IsMember))

Findings(shell, line, depth, env) ==
    CASE shell = "cmd"        -> CmdFindings(line, depth, env)
      [] shell = "powershell" -> PsFindings(line, depth, env)
      [] shell = "process"    ->
             ClassifyProgramInner(line[1].tokens[1], Tail(line[1].tokens), line[1].inner, depth, env)

\* analyze_process, analyze_cmd, analyze_powershell
AnalyzeCommand(shell, line, env) == Findings(shell, line, 0, env)
=============================================================================
