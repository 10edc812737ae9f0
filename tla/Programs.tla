------------------------------ MODULE Programs ------------------------------
(***************************************************************************)
(* Argument-aware classification of the programs the command analysis      *)
(* reads closely: git, gh and the package managers                         *)
(* (crates/workstation-policy/src/command/git.rs, gh.rs, packages.rs).     *)
(*                                                                         *)
(* An argument list is a sequence of words.  A word is a string that the   *)
(* code has already lower-cased; a flag and its value are two words, which *)
(* stands for the spellings "--flag value", "--flag=value" and "-fvalue".  *)
(* A value never looks like a flag.  A match arm of many names is          *)
(* represented by some of its names.                                       *)
(***************************************************************************)
EXTENDS Sequences, SequencesExt, Naturals

\* Words that start with '-', the ones the parsers skip as options.  Git's own
\* short flags keep their case, the others are lower-cased by the code.
DashWords ==
    {"-", "-b", "-C", "-c", "-d", "-e", "-enc", "-F", "-f", "-fu", "-g", "-i", "-l", "-m", "-n",
     "-o", "-t", "-u", "-X", "-argumentlist", "-command", "-destination", "-encode", "-exportpfx",
     "-file", "-infile", "-name", "-outfile", "-path", "-recurse", "-scope", "-target",
     "-urlcache", "-verb", "--all", "--amend", "--author", "--body-file", "--continue", "--data",
     "--delete", "--force", "--get", "--global", "--hard", "--head", "--input", "--list",
     "--mirror", "--output", "--prune", "--repo", "--scope", "--show-token", "--system", "--tags",
     "--target", "--title", "--trailer", "--unset", "--upload-file", "--user"}

Skip(s, n) == SubSeq(s, n + 1, Len(s))
Take(s, n) == SubSeq(s, 1, IF n < Len(s) THEN n ELSE Len(s))

Has(args, flags) == \E i \in DOMAIN args : args[i] \in flags

Positional(args) == SelectSeq(args, LAMBDA w : w \notin DashWords)

\* The i-th positional word, or the empty word.
Nth(args, i) == LET p == Positional(args) IN IF Len(p) >= i THEN p[i] ELSE ""

\* What follows a flag of the set, in order.
ValuesOf(args, flags) ==
    LET at == SelectSeq([i \in 1 .. Len(args) |-> i],
                        LAMBDA i : args[i] \in flags /\ i < Len(args))
    IN  [k \in 1 .. Len(at) |-> args[at[k] + 1]]

\* The list without the flags of the set and without what follows them.
WithoutValues(args, flags) ==
    LET kept == SelectSeq([i \in 1 .. Len(args) |-> i],
                          LAMBDA i : /\ args[i] \notin flags
                                     /\ i > 1 => args[i - 1] \notin flags)
    IN  [k \in 1 .. Len(kept) |-> args[kept[k]]]

-----------------------------------------------------------------------------
\* git.rs

IdentityKeys == {"user.name", "user.email"}

\* Values of "-c" that set one of those keys for one command.
IdentitySettings == {"user.name=dev", "user.name=agent"}

\* A push: a refspec is a record of its source, its destination and its '+'.
\* Words name refspecs here, and Refspec reads them.
Refspec(w) ==
    CASE w = "+topic"        -> [src |-> "topic", dst |-> "topic", plus |-> TRUE]
      [] w = ":topic"        -> [src |-> "", dst |-> "topic", plus |-> FALSE]
      [] w = "topic:main"    -> [src |-> "topic", dst |-> "main", plus |-> FALSE]
      [] w = ":refs/tags/v1" -> [src |-> "", dst |-> "refs/tags/v1", plus |-> FALSE]
      [] OTHER               -> [src |-> w, dst |-> w, plus |-> FALSE]

IsTag(ref) == ref = "refs/tags/v1"

\* parse_push: options first, then the remote, then the refspecs.  A deletion
\* seen before a tag refspec marks it as a deleted tag as well.
PushOf(rest, words, specs) ==
    LET heads == SelectSeq(specs, LAMBDA r : ~IsTag(r.dst))
        deletes == Has(rest, {"-d", "--delete", "--prune"})
        deletesBy(i) == deletes \/ \E j \in 1 .. i : specs[j].src = ""
    IN  [remote       |-> IF words = <<>> THEN "" ELSE words[1],
         destinations |-> [i \in 1 .. Len(heads) |-> heads[i].dst],
         force        |-> \/ Has(rest, {"-f", "-fu", "--force", "--mirror"})
                          \/ \E i \in DOMAIN specs : specs[i].plus,
         delete       |-> deletes \/ \E i \in DOMAIN specs : specs[i].src = "",
         all          |-> Has(rest, {"--all"}),
         mirror       |-> Has(rest, {"--mirror"}),
         deletes_tags |-> \/ \E i \in DOMAIN specs : IsTag(specs[i].dst) /\ deletesBy(i)
                          \/ /\ Has(rest, {"--tags"})
                             /\ deletes \/ \E i \in DOMAIN specs : specs[i].src = "",
         created      |-> {specs[i].dst : i \in DOMAIN specs} \ {"", "HEAD"}]

ParsePush(rest) ==
    LET words == ValuesOf(rest, {"--repo"}) \o Positional(WithoutValues(rest, {"--repo", "-o"}))
    IN  PushOf(rest, words, [i \in 1 .. Len(words) - 1 |-> Refspec(words[i + 1])])

NoPush == [remote |-> "", destinations |-> <<>>, force |-> FALSE, delete |-> FALSE,
           all |-> FALSE, mirror |-> FALSE, deletes_tags |-> FALSE, created |-> {}]

\* classify_config
ConfigKind(rest) ==
    LET key == Nth(rest, 1)
    IN  CASE \/ Has(rest, {"--get", "--list", "-l"})
             \/ Len(Positional(rest)) < 2 /\ ~Has(rest, {"--unset"})          -> "ReadOnly"
          [] key \in IdentityKeys                                             -> "IdentityChange"
          [] key = "credential.helper"                                        -> "GlobalConfigChange"
          [] Has(rest, {"--global", "--system"})                              -> "GlobalConfigChange"
          [] OTHER                                                            -> "LocalMutation"

\* Where the global options of git end: -c and -C take a value.
AfterGlobals(args) ==
    LET rest == {i \in DOMAIN args : /\ args[i] \notin DashWords
                                     /\ i > 1 => args[i - 1] \notin {"-c", "-C"}}
    IN  IF rest = {} THEN <<>> ELSE SubSeq(args, Min(rest), Len(args))

GitReads == {"", "status", "log", "diff", "ls-remote", "archive"}

\* parse: subcommands that only read unless their arguments say otherwise.
GitListing(sub, rest) ==
    LET first == Nth(rest, 1)
        ReadIf(c) == IF c THEN "ReadOnly" ELSE "LocalMutation"
    IN  CASE sub \in GitReads  -> "ReadOnly"
          [] sub = "reflog"    -> ReadIf(first \notin {"expire", "delete"})
          [] sub = "fetch"     -> "Fetch"
          [] sub = "pull"      -> "Pull"
          [] sub = "clone"     -> "Clone"
          [] sub = "branch"    -> ReadIf(/\ first = "" \/ Has(rest, {"--list", "-l"})
                                         /\ ~Has(rest, {"-d", "-m", "-c", "-u", "-f", "--delete", "--force"}))
          [] sub = "tag"       -> ReadIf(/\ first = "" \/ Has(rest, {"--list", "-l"})
                                         /\ ~Has(rest, {"-d", "--delete"})
                                         /\ ValuesOf(rest, {"-m"}) = <<>>)
          [] sub = "remote"    -> ReadIf(first \in {"", "show", "get-url"})
          [] sub = "stash"     -> ReadIf(first \in {"list", "show"})
          [] sub = "worktree"  -> ReadIf(first = "list")
          [] sub = "submodule" -> ReadIf(first \in {"", "status", "summary"})

\* parse: subcommands that change the work tree, the history or a remote.
GitChange(sub, rest) ==
    CASE sub \in {"checkout", "switch", "add", "merge", "notes"} -> "LocalMutation"
      [] sub = "commit"    -> IF Has(rest, {"--amend"}) THEN "CommitAmend" ELSE "LocalMutation"
      [] sub = "reset"     -> IF Has(rest, {"--hard"}) THEN "ResetHard" ELSE "LocalMutation"
      [] sub = "clean"     -> IF ~Has(rest, {"-n"}) /\ Has(rest, {"-f", "-fu", "--force"})
                              THEN "Clean" ELSE "ReadOnly"
      [] sub = "filter-branch" -> "HistoryRewrite"
      [] sub = "rebase"    -> IF Has(rest, {"--continue"}) THEN "LocalMutation" ELSE "Rebase"
      [] sub = "push"      -> "Push"
      [] sub = "credential" -> "CredentialAccess"
      [] sub = "config"    -> ConfigKind(rest)
      [] OTHER             -> "Unknown"

GitListings == GitReads \cup {"reflog", "fetch", "pull", "clone", "branch", "tag", "remote", "stash",
                              "worktree", "submodule"}
GitKind(sub, rest) == IF sub \in GitListings THEN GitListing(sub, rest) ELSE GitChange(sub, rest)

\* The names a command creates: a branch, a tag, or what a push writes.
CreatedRefs(sub, rest, push) ==
    LET names == Positional(rest)
    IN  CASE sub = "branch" /\ GitKind(sub, rest) # "ReadOnly" /\ ~Has(rest, {"-d", "--delete"})
                 -> IF names = <<>> THEN {} ELSE {Last(names)}
          [] sub = "tag" /\ GitKind(sub, rest) # "ReadOnly" /\ ~Has(rest, {"-d", "--delete"})
                 -> IF names = <<>> THEN {} ELSE {names[1]}
          [] sub \in {"checkout", "switch"} -> Range(ValuesOf(rest, {"-b", "-c", "-C"}))
          [] sub = "push" -> push.created
          [] OTHER -> {}

\* What a command writes outside the repository.
OutputPaths(sub, rest) ==
    CASE sub = "clone" /\ Nth(rest, 2) # ""                       -> <<Nth(rest, 2)>>
      [] sub = "archive"                                          -> ValuesOf(rest, {"--output", "-o"})
      [] sub = "worktree" /\ Nth(rest, 1) = "add" /\ Nth(rest, 2) # "" -> <<Nth(rest, 2)>>
      [] OTHER                                                    -> <<>>

\* git::parse, once the global options are off.
ParseSubcommand(globals, sub, rest, push) ==
    [kind     |-> GitKind(sub, rest),
     push     |-> push,
     messages |-> Range(CASE sub = "commit" -> ValuesOf(rest, {"-m", "--trailer"})
                          [] sub \in {"tag", "merge", "notes"} -> ValuesOf(rest, {"-m"})
                          [] OTHER -> <<>>),
     files    |-> IF sub \in {"commit", "tag"} THEN Range(ValuesOf(rest, {"-F"})) ELSE {},
     idents   |-> UNION {Range(ValuesOf(globals, {"-c"})) \cap IdentitySettings,
                         IF sub = "commit" THEN Range(ValuesOf(rest, {"--author"})) ELSE {},
                         IF GitKind(sub, rest) = "IdentityChange"
                         THEN {Nth(rest, 2)} \ {""} ELSE {}},
     refs     |-> CreatedRefs(sub, rest, push),
     outputs  |-> OutputPaths(sub, rest)]

\* git::parse
ParseGit(args) ==
    LET tail == AfterGlobals(args)
        sub == IF tail = <<>> THEN "" ELSE tail[1]
        rest == Skip(tail, 1)
    IN  ParseSubcommand(SubSeq(args, 1, Len(args) - Len(tail)), sub, rest,
                        IF sub = "push" THEN ParsePush(rest) ELSE NoPush)

-----------------------------------------------------------------------------
\* gh.rs

\* parse: the kind of a gh command, from its group and its action.
GhKind(args) ==
    LET group == Nth(args, 1)
        action == Nth(args, 2)
        Kind(reads, destroys) == CASE action \in reads    -> "Read"
                                   [] action \in destroys -> "DestructiveWrite"
                                   [] OTHER               -> "Write"
        method == ValuesOf(args, {"-X"})
        fields == ValuesOf(args, {"-f", "-F"})
    IN  CASE group = "auth" ->
                 CASE action = "token"                                 -> "CredentialAccess"
                   [] action = "status" /\ Has(args, {"-t", "--show-token"}) -> "CredentialAccess"
                   [] action = "status"                                -> "Read"
                   [] action \in {"login", "logout"}                   -> "CredentialChange"
                   [] OTHER                                            -> "Unknown"
          [] group = "secret"   -> IF action \in {"list", "get"} THEN "Read" ELSE "CredentialChange"
          [] group = "pr"       -> Kind({"list", "view", "checkout"}, {"delete"})
          [] group = "release"  -> Kind({"list", "view"}, {"delete"})
          [] group = "repo"     -> Kind({"view", "list", "clone"}, {"delete", "archive", "rename"})
          [] group = "gist"     -> Kind({"list", "view"}, {"delete"})
          [] group = "workflow" -> Kind({"list", "view"}, {})
          [] group = "api" ->
                 CASE method # <<>> /\ method[1] = "delete"            -> "DestructiveWrite"
                   [] method # <<>> /\ method[1] = "get"               -> "Read"
                   [] method # <<>>                                    -> "Write"
                   [] fields = <<>> /\ ~Has(args, {"--input"})         -> "Read"
                   [] OTHER                                            -> "Write"
          [] group \in {"search", "help"} -> "Read"
          [] OTHER              -> "Unknown"

\* The texts, the files and the names a gh command publishes.
ParseGh(args) ==
    LET tag == IF Nth(args, 1) = "release" /\ Nth(args, 2) = "create" THEN {Nth(args, 3)} \ {""}
               ELSE {}
    IN  [kind  |-> GhKind(args),
         texts |-> UNION {Range(ValuesOf(args, {"--title", "-t", "-b", "-n", "-d"})), tag,
                          IF Nth(args, 1) = "api" THEN Range(ValuesOf(args, {"-f", "-F"})) ELSE {}},
         files |-> ValuesOf(args, {"--body-file", "-F"}),
         refs  |-> Range(ValuesOf(args, {"--head"})) \cup tag]

-----------------------------------------------------------------------------
\* packages.rs

\* classify_pip
PipScope(args, inTrusted) ==
    LET first == Nth(args, 1)
    IN  CASE first \notin {"install", "uninstall", "download", "wheel"} -> "NotInstall"
          [] Has(args, {"--user"})                                     -> "Global"
          [] Has(args, {"--target", "-t"})                             -> "Local"
          [] first \in {"download", "wheel"}                           -> "Local"
          [] OTHER -> IF inTrusted THEN "Local" ELSE "Global"

\* classify: where an invocation installs, "None" for a program that is not a
\* package manager.  inTrusted: its executable lies in the trusted workspace.
PackageScope(program, args, inTrusted) ==
    LET first == Nth(args, 1)
        second == IF Len(args) >= 2 THEN args[2] ELSE ""
        global == Has(args, {"-g", "--global"})
        playwright == Has(args, {"playwright"}) /\ Has(args, {"install"})
        If(c, yes, no) == IF c THEN yes ELSE no
    IN  CASE program \in {"npm", "yarn"} ->
                 LET wide == global \/ (program = "yarn" /\ first = "global")
                 IN  CASE first \in {"install", "add", "ci", "remove", "global", ""}
                              -> If(wide, "Global", "Local")
                       [] first = "exec" /\ playwright -> "Global"
                       [] OTHER -> "NotInstall"
          [] program = "npx"      -> If(playwright, "Global", "NotInstall")
          [] program = "pip"      -> PipScope(args, inTrusted)
          [] program = "python"   ->
                 LET module == ValuesOf(args, {"-m"})
                     at == SelectInSeq(args, LAMBDA w : w = "-m")
                 IN  CASE module # <<>> /\ module[1] = "pip"
                              -> PipScope(SubSeq(args, at + 2, Len(args)), inTrusted)
                       [] module # <<>> /\ module[1] = "venv" -> "Local"
                       [] OTHER -> "None"
          [] program = "uv"       -> If(\/ first = "tool" /\ second = "install"
                                        \/ first = "pip" /\ Has(args, {"--system"}),
                                        "Global", "Local")
          [] program = "poetry"   -> "Local"
          [] program = "pipx"     -> If(first = "install", "Global", "NotInstall")
          [] program \in {"cargo", "go"} -> If(first = "install", "Global", "Local")
          [] program = "rustup"   -> If(first = "show", "NotInstall", "Global")
          [] program = "dotnet"   ->
                 CASE first = "tool" /\ global                        -> "Global"
                   [] first = "new" /\ second = "install"             -> "Global"
                   [] first = "workload" /\ second = "install"        -> "Admin"
                   [] OTHER                                           -> "Local"
          [] program = "winget"   ->
                 CASE first # "install"                               -> "NotInstall"
                   [] Has(args, {"--scope"}) /\ Has(args, {"machine"}) -> "Admin"
                   [] OTHER                                           -> "Global"
          [] program = "choco"    -> If(first = "install", "Admin", "NotInstall")
          [] program = "scoop"    ->
                 If(first = "install", If(global, "Admin", "Global"), "NotInstall")
          [] program = "gem"      -> If(first = "install", "Global", "NotInstall")
          [] program = "composer" -> If(first = "global", "Global", "Local")
          [] program = "nvm"      -> If(first = "list", "NotInstall", "Global")
          [] OTHER                -> "None"
=============================================================================
