------------------------------ MODULE MCBroker ------------------------------
\* A workspace with three directories (a file; a protected file; a file and a
\* second name of a control file), a directory elsewhere with a file, and the
\* control data.
EXTENDS Broker, TLC

MCNodes == {"R", "W", "X", "C", "D", "E", "H", "F", "G", "I", "S", "K", "n1", "n2", "n3", "n4", "n5", "n6"}
MCNames == {"ws", "ext", "ctl", "d", "e", "f", "g", "h", "key", "s"}

MCFs ==
    [tree   |-> <<>> :> "R" @@ <<"ws">> :> "W" @@ <<"ext">> :> "X" @@ <<"ctl">> :> "C" @@ <<"ws", "d">> :> "D"
                @@ <<"ws", "e">> :> "E" @@ <<"ws", "d", "f">> :> "F" @@ <<"ws", "e", "key">> :> "K"
                @@ <<"ws", "h">> :> "H" @@ <<"ws", "h", "f">> :> "I" @@ <<"ws", "h", "s">> :> "S"
                @@ <<"ext", "g">> :> "G" @@ <<"ctl", "s">> :> "S",
     kind   |-> [x \in MCNodes |-> CASE x \in {"R", "W", "X", "C", "D", "E", "H"} -> "dir"
                                     [] x \in {"F", "G", "I", "S", "K"}            -> "file"
                                     [] OTHER                                     -> "free"],
     target |-> [x \in MCNodes |-> <<>>],
     data   |-> [x \in MCNodes |-> CASE x \in {"S", "K"} -> "secret" [] x \in {"F", "G", "I"} -> "old" [] OTHER -> None]]

MCSecrets == {[path |-> <<"ctl", "s">>, node |-> "S"], [path |-> <<"ws", "e", "key">>, node |-> "K"]}

\* The names that the calls below are about, and a place to put things aside.
MCContested == {<<"ws", "d">>, <<"ws", "g">>, <<"ws", "d", "f">>, <<"ws", "d", "g">>, <<"ws", "d", "s">>,
                <<"ws", "g", "f">>, <<"ext", "g">>, <<"ext", "d">>}

MCLinkTargets == {<<"ctl">>, <<"ext">>}

In(form, words) == [form |-> form, words |-> words]
Ws(words) == In("relative", words)
Req(kind, source, dest) ==
    [kind |-> kind, source |-> source, dest |-> dest, overwrite |-> TRUE, append |-> FALSE,
     recursive |-> TRUE, parents |-> TRUE]

MCRequests ==
    {Req("stat", Ws(<<"d", "f">>), Ws(<<>>)), Req("stat", Ws(<<"g">>), Ws(<<>>)),
     Req("list", Ws(<<"d">>), Ws(<<>>)), Req("read", Ws(<<"d", "f">>), Ws(<<>>)), Req("read", Ws(<<"h", "s">>), Ws(<<>>)),
     Req("read", In("absolute", <<"ctl", "s">>), Ws(<<>>)), Req("read", In("unc", <<"ws">>), Ws(<<>>)),
     Req("write", Ws(<<>>), In("verbatim", <<"ws", "d", "f">>)), Req("write", Ws(<<>>), Ws(<<"d", "s">>)),
     Req("write", Ws(<<>>), Ws(<<"d", "g", "f">>)), Req("write", Ws(<<>>), Ws(<<"h", "s">>)),
     [Req("write", Ws(<<>>), Ws(<<"d", "f">>)) EXCEPT !.overwrite = FALSE],
     [Req("write", Ws(<<>>), Ws(<<"..", "ext", "g">>)) EXCEPT !.append = TRUE], Req("patch", Ws(<<>>), Ws(<<"d.", "f">>)),
     Req("mkdir", Ws(<<>>), Ws(<<"g", "s">>)), Req("mkdir", Ws(<<>>), Ws(<<"d">>)),
     Req("delete", Ws(<<"d", "f">>), Ws(<<>>)), Req("delete", Ws(<<"d">>), Ws(<<>>)), Req("delete", Ws(<<"e">>), Ws(<<>>)),
     [Req("delete", Ws(<<"d">>), Ws(<<>>)) EXCEPT !.recursive = FALSE],
     Req("move", Ws(<<"d", "f">>), Ws(<<"g">>)), Req("move", Ws(<<"d">>), Ws(<<"g">>)), Req("move", Ws(<<"e">>), Ws(<<"g">>)),
     Req("move", Ws(<<"d", "f">>), In("absolute", <<"ext", "g">>)),
     Req("copy", Ws(<<"d", "f">>), In("absolute", <<"ext", "s">>)), Req("copy", Ws(<<"d">>), Ws(<<"g">>)),
     Req("copy", Ws(<<"e">>), Ws(<<"g">>)), Req("copy", Ws(<<"h">>), Ws(<<"g">>)), Req("delete", Ws(<<"h">>), Ws(<<>>)),
     [Req("copy", Ws(<<"d">>), Ws(<<"g">>)) EXCEPT !.recursive = FALSE]}
=============================================================================
