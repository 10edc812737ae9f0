------------------------------ MODULE MCPolicy ------------------------------
\* The policy on a small machine: a trusted workspace with an environment file
\* and a source file with a telling name, a directory elsewhere, a protected
\* directory, the control data, and cache areas of the caller and of others.
EXTENDS Policy, Commands

PlaceIn(path, roots, owner, guard, name) ==
    [path |-> path, roots |-> roots, owner |-> owner, guard |-> guard, name |-> name]

MCPlace ==
    [wsdir  |-> PlaceIn(<<"ws">>, {"trusted"}, "none", "none", "plain"),
     ws     |-> PlaceIn(<<"ws", "f">>, {"trusted"}, "none", "none", "plain"),
     wsenv  |-> PlaceIn(<<"ws", ".env">>, {"trusted"}, "none", "env", "plain"),
     wsrs   |-> PlaceIn(<<"ws", "token.rs">>, {"trusted"}, "none", "generic", "source"),
     extdir |-> PlaceIn(<<"ext">>, {}, "none", "none", "plain"),
     ext    |-> PlaceIn(<<"ext", "f">>, {}, "none", "none", "plain"),
     deep   |-> PlaceIn(<<"ext", "d", "f">>, {}, "none", "none", "plain"),
     key    |-> PlaceIn(<<"home", ".ssh", "k">>, {}, "none", "directory", "plain"),
     pem    |-> PlaceIn(<<"ext", "p.pem">>, {}, "none", "pattern", "plain"),
     ctl    |-> PlaceIn(<<"app", "db">>, {"app_data"}, "none", "none", "plain"),
     temp   |-> PlaceIn(<<"app", "temp", "t1">>, {"cache", "app_data"}, "task", "none", "plain"),
     alien  |-> PlaceIn(<<"app", "temp", "t2">>, {"cache", "app_data"}, "other", "none", "plain")]

MCPathWords == DOMAIN MCPlace

Strict == [fault |-> FALSE, shellChecks |-> TRUE, installs |-> "RequireApproval",
           allowDestructive |-> FALSE, autoPush |-> FALSE, envReads |-> FALSE,
           externalGrants |-> {}, mutationExceptions |-> {}]
Loose == [Strict EXCEPT !.installs = "Allow", !.allowDestructive = TRUE, !.autoPush = TRUE,
                        !.envReads = TRUE, !.mutationExceptions = {"pem"},
                        !.externalGrants = {[prefix |-> <<"ext", "d">>, allowDelete |-> FALSE]}]
OnMain == [repo |-> "r", current |-> "main", upstream |-> "", defaults |-> {}, published |-> TRUE]
OnTopic == [repo |-> "r", current |-> "topic", upstream |-> "topic", defaults |-> {"trunk"},
            published |-> FALSE]
Up == [parser |-> TRUE, venv |-> TRUE]
Down == [parser |-> FALSE, venv |-> FALSE]

In(dir, s, f, e) == [cwd |-> dir, settings |-> s, facts |-> f, env |-> e]
MCContexts ==
    {In("wsdir", Strict, OnMain, Up), In("extdir", Loose, OnMain, Up),
     In("extdir", [Strict EXCEPT !.installs = "Deny"], OnTopic, Down),
     In("temp", Strict, OnTopic, Up), In("ctl", Strict, OnMain, Up),
     In("extdir", [Strict EXCEPT !.fault = TRUE], OnMain, Up),
     In("alien", [Strict EXCEPT !.shellChecks = FALSE], OnMain, Up)}

\* At least one command for each family of programs and each of its outcomes.
MCCmdCommands ==
    {<<"type", "wsenv">>, <<"findstr", "x", "key">>, <<"fc", "ctl", "ws">>, <<"dir", "ctl">>,
     <<"echo", "x">>, <<"route", "add">>, <<"certutil", "-encode", "ws", "ext">>,
     <<"certutil", "-exportpfx">>, <<"del", "/f", "ext">>, <<"del", "alien">>, <<"copy", "pem", "ws">>,
     <<"scp", "wsrs", "host:f">>, <<"ren", "ext", "name">>, <<"move", "ws", "deep">>, <<"md", "$x">>,
     <<"mklink", "ext", "key">>, <<"sed", "-i", "x", "ws">>, <<"curl", "-o", "deep", "http://u">>,
     <<"curl", "--upload-file", "key", "http://u">>, <<"tar", "key">>,
     <<"reg", "export", "hklm\\sam">>, <<"reg", "add", "hkcu">>, <<"sc", "query">>, <<"net", "use", "x">>,
     <<"netsh", "show">>, <<"setx", "/m">>, <<"schtasks", "/ru", "system">>, <<"vaultcmd", "/listcreds">>,
     <<"rundll32", "x">>, <<"procdump", "ext">>, <<"python", "-c", "x">>, <<"python", "-m", "pip", "install">>,
     <<"node", "ext">>, <<"npm", "install", "-g">>, <<"npm", "ci">>, <<"pip", "install", "--target", "ext">>,
     <<"dotnet", "workload", "install">>, <<"make", "ws">>, <<"%prog%">>, <<"start", "/wait">>,
     <<"powershell", "-file", "ws">>, <<"powershell", "get-content", "ws">>, <<"cmd">>,
     <<"cmd", "/c", "del", "ext">>,
     <<"git", "status">>, <<"git", "push">>, <<"git", "push", "o", "HEAD">>, <<"git", "push", "o", "+topic">>,
     <<"git", "push", "o", ":refs/tags/v1">>, <<"git", "push", "--repo", "o", "topic:main">>,
     <<"git", "push", "--all">>, <<"git", "reset", "--hard">>, <<"git", "commit", "--amend">>,
     <<"git", "commit", "-m", "byline">>, <<"git", "commit", "-F", "wsrs">>,
     <<"git", "-c", "user.name=agent", "commit">>, <<"git", "config", "user.name", "dev">>,
     <<"git", "config", "--global", "x", "y">>, <<"git", "credential">>, <<"git", "clone", "u", "ext">>,
     <<"git", "branch", "agent/x">>, <<"git", "rebase", "main">>, <<"git", "frob">>,
     <<"gh", "pr", "create", "--title", "byline">>, <<"gh", "repo", "delete">>, <<"gh", "auth", "token">>,
     <<"gh", "api", "-X", "get">>, <<"gh", "pr", "create", "--body-file", "wsrs">>}

MCPsCommands ==
    {<<"get-content", "wsenv">>, <<"get-filehash", "key">>, <<"set-content", "ext">>, <<"dir", "cert">>,
     <<"tee", "ws", "ext">>, <<"new-item", "-path", "hklm">>, <<"new-item", "-name", "deep">>, <<"del", "hkcu">>,
     <<"remove-item", "-recurse", "ext">>, <<"copy-item", "key", "-destination", "ws">>,
     <<"ren", "ext", "name">>, <<"set-item", "env">>, <<"expand-archive", "ws">>,
     <<"invoke-webrequest", "-outfile", "ext">>, <<"get-credential">>, <<"set-executionpolicy">>,
     <<"install-module", "-scope", "allusers">>, <<"invoke-expression", "x">>, <<"$cmd">>,
     <<"start-process", "x", "-verb", "runas">>, <<"import-module", "ext">>, <<"invoke-thing", "ctl">>,
     <<"<error>">>, <<"[io.file]", "delete", "ext">>, <<"[io.file]", "copy", "key", "ws">>,
     <<"[environment]", "setenvironmentvariable", "machine">>, <<"[object]", "invoke">>,
     <<"git", "push">>, <<"npm", "ci">>}

MCTailCommands == {<<"git", "push">>, <<"cat", "key">>, <<"echo", "x">>, <<"del", "ext">>, <<"del", "ext", "deep">>}

MCFsRequests == [path : {"ws", "ext", "deep", "pem", "ctl"}, access : {"Read", "Write", "Delete", "MoveDestination"}]
MCGitRequests == {<<"push">>, <<"push", "o", "main">>, <<"push", "o", "topic:main">>, <<"reset", "--hard">>,
                  <<"commit", "--amend">>, <<"config", "--global", "x", "y">>}

\* The analysis of module Commands is compositional, as the theorem on
\* PartsDecide supposes of the lines written: here for two and three commands.
ASSUME CommandsCompose ==
    Compositional({<<Segment(v), Segment(w)>> : v \in MCCmdCommands \cup MCPsCommands, w \in MCTailCommands}
                  \cup {<<Segment(w), Segment(v), Segment(w)>> : v \in MCCmdCommands \cup MCPsCommands,
                                                              w \in MCTailCommands})
=============================================================================
