------------------------------ MODULE Analysis ------------------------------
(***************************************************************************)
(* What the command analysis reads and what it reports: the types of       *)
(* crates/workstation-policy/src/command/mod.rs and tokenize.rs.  Module   *)
(* Commands has the analysis itself, module Policy decides on its report.  *)
(*                                                                         *)
(* A line is a sequence of segments, what split_cmd and the PowerShell     *)
(* parser return: the words of one command, its redirections and, for a    *)
(* command that carries another command line in an argument, that line:    *)
(* the word "@" stands for its text.  In a script a segment whose first    *)
(* word is a .NET type is a member call.                                   *)
(***************************************************************************)
EXTENDS Programs

CONSTANTS
    MaxDepth,     \* MAX_DEPTH, the nesting the analysis follows
    PathWords,    \* words that look like a path and resolve to one
    OpaqueWords,  \* words that look like a path and contain an unknown variable
    UrlWords,     \* words with "://"
    RemoteWords   \* words of the form host:path

ASSUME MaxDepthNat == MaxDepth \in Nat

Segment(tokens) == [tokens |-> tokens, redirects |-> <<>>, inner |-> <<>>]

Ref(word, access) == [path |-> word, access |-> access]

\* refs: nothing for an empty word or a URL.
Refs(words, access) ==
    LET kept == SelectSeq(words, LAMBDA w : w # "" /\ w \notin UrlWords)
    IN  [i \in 1 .. Len(kept) |-> Ref(kept[i], access)]

LooksLikePath(word) == word \in PathWords \cup OpaqueWords

PathLikeRefs(args, access) == Refs(SelectSeq(args, LooksLikePath), access)

NoGit == [kind |-> "None"]
NoGh == [kind |-> "None"]

\* Finding::new and with_paths.  texts, files, refs and idents are what the
\* command publishes: messages and titles, files they are read from, names of
\* branches and tags, identities.
Finding(category, paths) ==
    [category |-> category, paths |-> paths, git |-> NoGit, gh |-> NoGh,
     texts |-> {}, files |-> {}, refs |-> {}, idents |-> {}]

\* What the analysis of a part returns: findings and whether it met an error.
Found(findings) == [findings |-> findings, error |-> FALSE]
One(category, paths) == Found(<<Finding(category, paths)>>)
Join(a, b) == [findings |-> a.findings \o b.findings, error |-> a.error \/ b.error]
AndAll(a, categories) == Join(a, Found([i \in DOMAIN categories |-> Finding(categories[i], <<>>)]))
And(a, category) == AndAll(a, <<category>>)

\* The .NET types of member calls.
NetTypes == {"[io.file]", "[scriptblock]", "[environment]", "[registry]", "[object]"}
=============================================================================
