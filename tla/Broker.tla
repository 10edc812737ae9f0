------------------------------- MODULE Broker -------------------------------
(***************************************************************************)
(* The filesystem broker and the file tools on top of it                   *)
(* (crates/workstation-policy/src/broker.rs, winpath.rs and winfs.rs,      *)
(* crates/workstation-server/src/tools/fs.rs).                             *)
(*                                                                         *)
(* A tool call resolves its paths, has the policy judge the canonical      *)
(* paths, and then works on handles, one system call per step.  Between    *)
(* any two steps other programs move, remove, link and create files.  The  *)
(* file system is a function from paths to objects: a file can have        *)
(* several paths (hard links), a directory has one, a link holds a path.   *)
(***************************************************************************)
EXTENDS Naturals, Sequences, SequencesExt, FiniteSets

CONSTANTS
    Nodes,          \* file system objects; the object's identity
    Names,          \* names of directory entries
    Root,           \* the root directory of the volume
    InitialFs,      \* the file system at the start
    Secrets,        \* what protected locations hold: [path, node]
    Fixed,          \* objects other programs leave where they are
    Contested,      \* the paths where other programs put entries
    LinkTargets,    \* paths that links point to
    Requests,       \* tool calls
    MaxMoves,       \* bound on what other programs do during a call
    None

VARIABLES
    fs,             \* tree: the object at each path; kind, target and data of objects
    op,             \* the call in progress, or its result
    moves           \* how often other programs intervened

vars == <<fs, op, moves>>

\* A path is the sequence of its components; Gone is no path of any object.
Gone == <<None>>
First(p, n) == SubSeq(p, 1, n)
Skip(p, n) == SubSeq(p, n + 1, Len(p))

\* What objects are and what they hold.
Kinds == {"dir", "file", "link", "free"}
Contents == {"secret", "old", "other", "empty", "new", "partial"}

\* Names lie in directories, a directory has one name, the root has none.
IsTree(tree, kind) ==
    /\ DOMAIN tree \subseteq Seq(Names) /\ IsFiniteSet(DOMAIN tree)
    /\ <<>> \in DOMAIN tree /\ tree[<<>>] = Root /\ kind[Root] = "dir"
    /\ \A p \in DOMAIN tree : tree[p] \in Nodes /\ kind[tree[p]] # "free"
    /\ \A p \in DOMAIN tree : \A n \in 0 .. Len(p) - 1 : First(p, n) \in DOMAIN tree /\ kind[tree[First(p, n)]] = "dir"
    /\ \A p, q \in DOMAIN tree : tree[p] = tree[q] /\ kind[tree[p]] = "dir" => p = q

FileSystem(f) ==
    /\ f = [tree |-> f.tree, kind |-> f.kind, target |-> f.target, data |-> f.data]
    /\ f.kind \in [Nodes -> Kinds] /\ f.target \in [Nodes -> Seq(Names)] /\ f.data \in [Nodes -> Contents \cup {None}]
    /\ IsTree(f.tree, f.kind)

ASSUME NoneAssumption == None \notin Names \cup Nodes \cup Contents

ASSUME FsAssumption == FileSystem(InitialFs)

ASSUME OthersAssumption == Contested \subseteq Seq(Names) \ {<<>>} /\ LinkTargets \subseteq Seq(Names)

-----------------------------------------------------------------------------
\* winpath.rs: normalize_component and normalize.  Words with a meaning of
\* their own stand for their kind.

CleanName(word) ==
    CASE word = "d."                        -> "d"          \* trailing dots are dropped
      [] word \in {"f:s", "nul", "f?", "."} -> "bad"        \* stream, device, character
      [] OTHER                              -> word

\* The trusted root, the base of relative paths.
Base == <<"ws">>

\* An input is its form and its words; the result is a path, or Gone if the
\* form is refused.
Normalize(input) ==
    LET n == Len(input.words)
        start == IF input.form = "relative" THEN Base ELSE <<>>
        Step(path, word) ==
            CASE path = Gone \/ (word \in {".", ".."} /\ input.form = "verbatim") -> Gone
              [] path # Gone /\ word = "." /\ input.form # "verbatim"  -> path
              [] path # Gone /\ word = ".." /\ input.form # "verbatim" -> IF path = <<>> THEN path ELSE Front(path)
              [] OTHER -> IF CleanName(word) = "bad" THEN Gone ELSE Append(path, CleanName(word))
        steps[i \in 0 .. n] == IF i = 0 THEN start ELSE Step(steps[i - 1], input.words[i])
    IN  IF input.form \in {"relative", "absolute", "verbatim"} THEN steps[n] ELSE Gone

\* A tool call: every word of its inputs is, once cleaned, a name or refused.
ToolKinds == {"stat", "list", "read", "write", "patch", "mkdir", "copy", "move", "delete"}

ASSUME RequestsAssumption ==
    \A r \in Requests :
        /\ r.kind \in ToolKinds
        /\ \A flag \in {r.overwrite, r.append, r.recursive, r.parents} : flag \in BOOLEAN
        /\ \A input \in {r.source, r.dest} : Normalize(input) = Gone \/ Normalize(input) \in Seq(Names)

-----------------------------------------------------------------------------
\* winfs.rs: what opening a path, a handle's final path, identity and links are.

IsDir(x) == fs.kind[x] = "dir"
IsLink(x) == fs.kind[x] = "link"
Free == {x \in Nodes : fs.kind[x] = "free"}
Fresh == CHOOSE x \in Free : TRUE

\* The paths that exist, the names of an object, and what lies in a directory.
Paths == DOMAIN fs.tree
NamesOf(x) == {p \in Paths : fs.tree[p] = x}
Links(x) == Cardinality(NamesOf(x))
Children(x) == {p \in Paths : p # <<>> /\ fs.tree[Front(p)] = x}
Under(x) == {p \in Paths : \E q \in NamesOf(x) : IsStrictPrefix(q, p)}
Below(x, top) == x = top \/ NamesOf(x) \cap Under(top) # {}

PathOf(x) == IF NamesOf(x) = {} THEN Gone ELSE CHOOSE p \in NamesOf(x) : TRUE

\* A slot is a directory and a name in it.
SlotPath(slot) == Append(PathOf(slot[1]), slot[2])
At(slot) == IF SlotPath(slot) \in Paths THEN fs.tree[SlotPath(slot)] ELSE None

\* A handle knows the name it was opened by, and follows a rename.
Handle(x, slot) == [node |-> x, at |-> slot]
NoHandle == Handle(None, <<Root, None>>)
HandleAt(p) == IF p = <<>> THEN Handle(Root, <<Root, None>>) ELSE Handle(fs.tree[p], <<fs.tree[Front(p)], Last(p)>>)

FinalPath(h) == IF SlotPath(h.at) \in NamesOf(h.node) THEN SlotPath(h.at) ELSE PathOf(h.node)

Found(h, rest) == [ok |-> TRUE, h |-> h, rest |-> rest]
Error == [ok |-> FALSE]

\* Where the way along w.path meets a link; the last component is followed
\* unless the link itself is meant.
LinksOn(w, follow) ==
    {n \in 1 .. Len(w.path) : /\ First(w.path, n) \in Paths /\ IsLink(fs.tree[First(w.path, n)])
                              /\ follow \/ n < Len(w.path)}

\* The link is replaced by its target, of which w.need components must exist.
Follow(w, follow) ==
    IF LinksOn(w, follow) = {} THEN w
    ELSE LET n == CHOOSE n \in LinksOn(w, follow) : TRUE
             target == fs.target[fs.tree[First(w.path, n)]]
         IN  [path |-> target \o Skip(w.path, n),
              need |-> IF w.need > n THEN Len(target) + w.need - n ELSE Len(target)]

\* Where the way along w.path ends: the longest prefix that exists, and rest,
\* which does not.
WayEnd(w, follow) ==
    LET n == CHOOSE n \in 0 .. Len(w.path) :
                 First(w.path, n) \in Paths /\ \A m \in n + 1 .. Len(w.path) : First(w.path, m) \notin Paths
        h == HandleAt(First(w.path, n))
    IN  IF \/ LinksOn(w, follow) # {} \/ n < w.need
           \/ n < Len(w.path) /\ ~IsDir(h.node)         \* a file has no children
        THEN Error
        ELSE Found(h, Skip(w.path, n))

\* Opening a path.  Three links are followed, then the way is taken to be a
\* loop; there is one way.
Lookup(path, follow) ==
    LET Onward(ways) == {Follow(w, follow) : w \in ways}
        ways == Onward(Onward(Onward({[path |-> path, need |-> 0]})))
    IN  IF path = Gone THEN Error ELSE CHOOSE end \in {WayEnd(w, follow) : w \in ways} : TRUE

\* open_path
OpenPath(path, follow) == LET w == Lookup(path, follow) IN IF w.ok /\ w.rest = <<>> THEN w ELSE Error

\* canonicalize and resolve
Canonical(input, follow) ==
    LET w == Lookup(Normalize(input), follow)
    IN  IF ~w.ok THEN Error
        ELSE [ok |-> TRUE, existing |-> FinalPath(w.h), tail |-> w.rest, path |-> FinalPath(w.h) \o w.rest,
              id |-> w.h.node, exists |-> w.rest = <<>>, kind |-> fs.kind[w.h.node]]

-----------------------------------------------------------------------------
\* The policy on canonical paths: module Policy has its rules.

ClassOf(path) ==
    CASE path # <<>> /\ path[1] = "ctl" -> "ControlData"
      [] path # <<>> /\ path[1] = "ws"  -> "Trusted"
      [] OTHER                          -> "External"

ProtectedPath(path) == path # <<>> /\ Last(path) = "key"

\* fs_decision: "Ask" is answered by the user, module Approvals.
Evaluate(path, mutation) ==
    IF ClassOf(path) = "ControlData" \/ ProtectedPath(path) THEN "Deny"
    ELSE IF ClassOf(path) = "External" /\ mutation THEN "Ask" ELSE "Allow"

\* Protected objects are files, found where they are protected, and nothing
\* else has their data.  Other programs leave the directories above their names
\* where they are.
ASSUME SecretsAssumption ==
    /\ \A s \in Secrets :
           /\ s.path \in DOMAIN InitialFs.tree /\ InitialFs.tree[s.path] = s.node
           /\ InitialFs.kind[s.node] = "file" /\ InitialFs.data[s.node] = "secret"
           /\ Evaluate(s.path, FALSE) = "Deny"
    /\ \A x \in Nodes : InitialFs.data[x] = "secret" => \E s \in Secrets : x = s.node
    /\ \A p, q \in DOMAIN InitialFs.tree :
           IsStrictPrefix(p, q) /\ (\E s \in Secrets : InitialFs.tree[q] = s.node) => InitialFs.tree[p] \in Fixed

\* Mutant: no name is looked at.
AnyLinks(path, links, mutation) == TRUE

\* check_links: path names the file, links is the count the handle reported.
LinksAllowed(path, links, mutation) ==
    links > 1 =>
        LET w == OpenPath(path, TRUE)
        IN  /\ w.ok
            /\ \A p \in NamesOf(w.h.node) :
                   /\ Evaluate(p, mutation) # "Deny"
                   /\ mutation => ClassOf(p) = ClassOf(path)

-----------------------------------------------------------------------------
\* The steps of a call.  A step has the name of the operator below that
\* performs it; every operation takes its steps in the same order.

\* Mutant: a file is emptied before the edits are matched.
TruncateFirst ==
    <<"OpenSource", "PinSourceParent", "VerifySourceParent", "OpenChild", "VerifySource", "CheckSource",
      "CheckSourceLinks", "Read", "List", "Inspect", "CheckMoved", "ScanSource",
      "PinDestParent", "VerifyDestParent", "OpenDest", "CheckDest", "CheckDestLinks",
      "MakeDirs", "VerifyNewParent", "CreateDest", "VerifyDest",
      "Truncate", "ReadDest", "WriteData", "CopyData", "DeleteTree", "Unlink", "Rename", "VerifyMoved", "ReadTree", "CopyTree">>

Order ==
    <<"OpenSource", "PinSourceParent", "VerifySourceParent", "OpenChild", "VerifySource", "CheckSource",
      "CheckSourceLinks", "Read", "List", "Inspect", "CheckMoved", "ScanSource",
      "PinDestParent", "VerifyDestParent", "OpenDest", "CheckDest", "CheckDestLinks",
      "MakeDirs", "VerifyNewParent", "CreateDest", "VerifyDest",
      "ReadDest", "Truncate", "WriteData", "CopyData", "DeleteTree", "Unlink", "Rename", "VerifyMoved", "ReadTree", "CopyTree">>

\* open_for_write on a file that exists.
ExistingDest == {"PinDestParent", "VerifyDestParent", "OpenDest", "CheckDest", "CheckDestLinks", "VerifyDest"}

\* ensure_dirs: the missing directories below the longest existing prefix.
EnsureDirs == {"PinDestParent", "VerifyDestParent", "MakeDirs", "VerifyNewParent"}

OpenForWrite(dst) == IF dst.exists THEN ExistingDest ELSE EnsureDirs \cup {"CreateDest", "VerifyDest"}

SourceFile == {"OpenSource", "VerifySource", "CheckSource", "CheckSourceLinks"}
SourceEntry == {"PinSourceParent", "VerifySourceParent", "OpenChild", "CheckSource"}

\* An operation: whether the canonical paths alone refuse it, before anything is
\* opened for change, and its steps.
StatOp(r, src, dst) == [refused |-> FALSE, steps |-> IF src.exists THEN {"OpenSource", "VerifySource"} ELSE {}]

ListOp(r, src, dst) == [refused |-> ~src.exists, steps |-> {"OpenSource", "VerifySource", "List"}]

ReadOp(r, src, dst) == [refused |-> ~src.exists, steps |-> SourceFile \cup {"Read"}]

NoParent(r, dst) == Len(dst.tail) > 1 /\ ~r.parents

WriteRefused(r, dst) == \/ dst.exists /\ (dst.kind = "dir" \/ ~r.overwrite)
                        \/ NoParent(r, dst)

WriteOp(r, src, dst) ==
    [refused |-> WriteRefused(r, dst),
     steps   |-> OpenForWrite(dst) \cup (IF r.append THEN {} ELSE {"Truncate"}) \cup {"WriteData"}]

PatchOp(r, src, dst) ==
    [refused |-> ~dst.exists \/ dst.kind = "dir", steps |-> ExistingDest \cup {"ReadDest", "Truncate", "WriteData"}]

MkdirOp(r, src, dst) ==
    [refused |-> (dst.exists /\ dst.kind # "dir") \/ NoParent(r, dst),
     steps   |-> IF dst.exists THEN {} ELSE EnsureDirs]

DeleteOp(r, src, dst) == [refused |-> ~src.exists, steps |-> SourceEntry \cup {"Inspect"}]

\* The root of a drive has no parent to split off.
MoveOp(r, src, dst) ==
    [refused |-> \/ ~src.exists \/ src.path = <<>>
                 \/ (dst.exists /\ (dst.kind = "dir" \/ ~r.overwrite)) \/ NoParent(r, dst),
     steps   |-> SourceEntry \cup {"CheckMoved", "Rename", "VerifyMoved"}
                 \cup (IF dst.exists THEN {"PinDestParent", "VerifyDestParent"} ELSE EnsureDirs)]

CopyFileOp(r, src, dst) ==
    [refused |-> WriteRefused(r, dst), steps |-> SourceFile \cup OpenForWrite(dst) \cup {"Truncate", "CopyData"}]

CopyTreeOp(r, src, dst) ==
    [refused |-> ~r.recursive \/ dst.exists \/ IsPrefix(src.path, dst.path) \/ NoParent(r, dst),
     steps   |-> {"OpenSource", "VerifySource", "ScanSource"} \cup EnsureDirs \cup {"ReadTree", "CopyTree"}]

CopyOp(r, src, dst) ==
    IF ~src.exists THEN [refused |-> TRUE, steps |-> {}]
    ELSE IF src.kind = "dir" THEN CopyTreeOp(r, src, dst) ELSE CopyFileOp(r, src, dst)

\* The tools: the decisions they ask for and the operation they then perform.
StatTool(r, src, dst) ==
    [decisions |-> {IF ClassOf(src.path) = "ControlData" THEN "Deny" ELSE "Allow"}, op |-> StatOp(r, src, dst)]
ListTool(r, src, dst) == [decisions |-> {Evaluate(src.path, FALSE)}, op |-> ListOp(r, src, dst)]
ReadTool(r, src, dst) == [decisions |-> {Evaluate(src.path, FALSE)}, op |-> ReadOp(r, src, dst)]
WriteTool(r, src, dst) == [decisions |-> {Evaluate(dst.path, TRUE)}, op |-> WriteOp(r, src, dst)]
PatchTool(r, src, dst) == [decisions |-> {Evaluate(dst.path, TRUE)}, op |-> PatchOp(r, src, dst)]
MkdirTool(r, src, dst) == [decisions |-> {Evaluate(dst.path, TRUE)}, op |-> MkdirOp(r, src, dst)]
CopyTool(r, src, dst) ==
    [decisions |-> {Evaluate(src.path, FALSE), Evaluate(dst.path, TRUE)}, op |-> CopyOp(r, src, dst)]
MoveTool(r, src, dst) ==
    [decisions |-> {Evaluate(src.path, TRUE), Evaluate(dst.path, TRUE)}, op |-> MoveOp(r, src, dst)]
DeleteTool(r, src, dst) ==
    [decisions |-> {IF src.path \in {<<>>, Base} THEN "Deny" ELSE Evaluate(src.path, TRUE)}, op |-> DeleteOp(r, src, dst)]

Tool(r, src, dst) ==
    CASE r.kind = "stat"   -> StatTool(r, src, dst)
      [] r.kind = "list"   -> ListTool(r, src, dst)
      [] r.kind = "read"   -> ReadTool(r, src, dst)
      [] r.kind = "write"  -> WriteTool(r, src, dst)
      [] r.kind = "patch"  -> PatchTool(r, src, dst)
      [] r.kind = "mkdir"  -> MkdirTool(r, src, dst)
      [] r.kind = "copy"   -> CopyTool(r, src, dst)
      [] r.kind = "move"   -> MoveTool(r, src, dst)
      [] r.kind = "delete" -> DeleteTool(r, src, dst)

-----------------------------------------------------------------------------
Idle == [req |-> None, src |-> Error, dst |-> Error, todo |-> {}, result |-> "none", made |-> 0,
         p1 |-> NoHandle, h1 |-> NoHandle, p2 |-> NoHandle, h2 |-> NoHandle,
         pending |-> <<>>, out |-> None, effects |-> {}]

Init == fs = InitialFs /\ op = Idle /\ moves = 0

\* Ending a call closes its handles.
Ended(o, result) == [o EXCEPT !.todo = {}, !.result = result, !.pending = <<>>]

\* The early returns of a call, in their order.
Answered(r, src, dst) ==
    LET ok == src.ok /\ dst.ok
        tool == Tool(r, src, dst)
        denied == "Deny" \in tool.decisions
    IN  CASE ~ok                                          -> "invalid"
          [] ok /\ denied                                 -> "denied"
          [] ok /\ ~denied /\ tool.op.refused             -> "refused"
          [] ok /\ ~denied /\ ~tool.op.refused            -> IF tool.op.steps = {} THEN "ok" ELSE "none"

\* A tool call: resolve, the decision, the early returns.  Delete and move
\* describe a link itself, the others what it leads to.
Call(r) ==
    LET follow == r.kind \notin {"delete", "move"}
        src == Canonical(r.source, follow)
        dst == Canonical(r.dest, follow)
        o == [Idle EXCEPT !.req = r, !.src = src, !.dst = dst]
        answer == Answered(r, src, dst)
    IN  /\ op = Idle
        /\ op' = IF answer = "none" THEN [o EXCEPT !.todo = Tool(r, src, dst).op.steps] ELSE Ended(o, answer)
        /\ UNCHANGED <<fs, moves>>

-----------------------------------------------------------------------------
\* Steps that only open and check.  A failed check ends the call.

\* The step is the first one that is left.
Doing(step) ==
    /\ step \in op.todo
    /\ \E i \in DOMAIN Order : Order[i] = step /\ \A j \in 1 .. i - 1 : Order[j] \notin op.todo

\* The last step ends the call with success.
Advance(step, o) == IF o.todo = {step} THEN Ended(o, "ok") ELSE [o EXCEPT !.todo = @ \ {step}]

Continue(step, o) == op' = Advance(step, o) /\ UNCHANGED <<fs, moves>>
Stop(result) == op' = Ended(op, result) /\ UNCHANGED <<fs, moves>>
Check(step, c, result) == Doing(step) /\ IF c THEN Continue(step, op) ELSE Stop(result)

OpenSource ==
    /\ Doing("OpenSource")
    /\ LET w == OpenPath(op.src.path, TRUE)
       IN  IF w.ok THEN Continue("OpenSource", [op EXCEPT !.h1 = w.h]) ELSE Stop("io_error")

PinSourceParent ==
    /\ Doing("PinSourceParent")
    /\ LET w == OpenPath(Front(op.src.path), TRUE)
       IN  IF w.ok THEN Continue("PinSourceParent", [op EXCEPT !.p1 = w.h]) ELSE Stop("io_error")

\* split_parent of an existing target, the existing prefix of a new one.
DestParent == IF op.dst.exists THEN Front(op.dst.path) ELSE op.dst.existing

PinDestParent ==
    /\ Doing("PinDestParent")
    /\ LET w == OpenPath(DestParent, TRUE)
       IN  IF w.ok THEN Continue("PinDestParent", [op EXCEPT !.p2 = w.h]) ELSE Stop("io_error")

\* Relative to the pinned parent, without following a link.
OpenChild ==
    /\ Doing("OpenChild")
    /\ LET slot == <<op.p1.node, Last(op.src.path)>>
           x == At(slot)
       IN  IF x # None THEN Continue("OpenChild", [op EXCEPT !.h1 = Handle(x, slot)]) ELSE Stop("io_error")

OpenDest ==
    /\ Doing("OpenDest")
    /\ LET slot == <<op.p2.node, Last(op.dst.path)>>
           x == At(slot)
       IN  IF x # None /\ ~IsDir(x) THEN Continue("OpenDest", [op EXCEPT !.h2 = Handle(x, slot)]) ELSE Stop("io_error")

\* verify_final
VerifySource == Check("VerifySource", FinalPath(op.h1) = op.src.path, "changed")
VerifySourceParent == Check("VerifySourceParent", FinalPath(op.p1) = Front(op.src.path), "changed")
VerifyDest == Check("VerifyDest", FinalPath(op.h2) = op.dst.path, "changed")
VerifyDestParent == Check("VerifyDestParent", FinalPath(op.p2) = DestParent, "changed")

\* The parent after op.made directories were made.
NewParent == DestParent \o First(op.dst.tail, op.made)
VerifyNewParent == Check("VerifyNewParent", FinalPath(op.p2) = NewParent, "changed")

\* A directory is not read as a file; its identity is compared except when a
\* tree is copied.
CheckSource ==
    Check("CheckSource", op.h1.node = op.src.id /\ ~(op.req.kind = "read" /\ IsDir(op.h1.node)), "changed")
CheckDest == Check("CheckDest", op.h2.node = op.dst.id /\ ~IsLink(op.h2.node), "changed")

CheckSourceLinks == Check("CheckSourceLinks", LinksAllowed(op.src.path, Links(op.h1.node), FALSE), "denied")
CheckDestLinks == Check("CheckDestLinks", LinksAllowed(op.dst.path, Links(op.h2.node), TRUE), "denied")

\* deny_protected_in_tree: scan_tree reports every entry and enters no link.
HoldsProtected(x) == \E p \in Under(x) : ProtectedPath(p)

\* rename: a tree must hold nothing protected, a file no name elsewhere.
CheckMoved ==
    Check("CheckMoved",
          CASE IsDir(op.h1.node)  -> ~HoldsProtected(op.h1.node)
            [] IsLink(op.h1.node) -> TRUE
            [] OTHER              -> LinksAllowed(op.src.path, Links(op.h1.node), TRUE), "denied")

\* copy: nothing protected and no control data in the source tree.
ScanSource ==
    /\ Doing("ScanSource")
    /\ IF ~IsDir(op.h1.node) THEN Stop("io_error")
       ELSE IF \A p \in Under(op.h1.node) : IsLink(fs.tree[p]) \/ Evaluate(p, FALSE) # "Deny"
            THEN Continue("ScanSource", op) ELSE Stop("denied")

\* delete: what kind of entry it is decides how it goes on.
Inspect ==
    /\ Doing("Inspect")
    /\ LET full == Children(op.h1.node) # {}
           more == IF full THEN {"DeleteTree", "Unlink"} ELSE {"Unlink"}
       IN  CASE full /\ ~op.req.recursive -> Stop("refused")
             [] full /\ op.req.recursive /\ HoldsProtected(op.h1.node) -> Stop("denied")
             [] OTHER -> Continue("Inspect", [op EXCEPT !.todo = @ \cup more])

Read == Doing("Read") /\ Continue("Read", [op EXCEPT !.out = fs.data[op.h1.node]])
List == Check("List", IsDir(op.h1.node), "refused")

\* patch: every edit must match, or nothing is written.
ReadDest == Doing("ReadDest") /\ (Continue("ReadDest", op) \/ Stop("refused"))

-----------------------------------------------------------------------------
\* Steps that change the file system.

With(tree, p, x) == [q \in DOMAIN tree \cup {p} |-> IF q = p THEN x ELSE tree[q]]
Without(tree, p) == [q \in DOMAIN tree \ {p} |-> tree[q]]

\* What is at or below a path goes to another one, which is free and not below it.
Moved(tree, from, to) ==
    LET stay == {q \in DOMAIN tree : ~IsPrefix(from, q)}
        gone == {to \o Skip(q, Len(from)) : q \in DOMAIN tree \ stay}
    IN  [q \in stay \cup gone |-> IF q \in stay THEN tree[q] ELSE tree[from \o Skip(q, Len(to))]]

Make(p, kind, data) ==
    [fs EXCEPT !.tree = With(@, p, Fresh), !.kind[Fresh] = kind, !.data[Fresh] = data]

\* An identity is not used again, so an object without names stays as it is.
Erase(p) == [fs EXCEPT !.tree = Without(@, p)]

Change(step, f, o, effect) ==
    fs' = f /\ op' = Advance(step, [o EXCEPT !.effects = @ \cup {effect}]) /\ UNCHANGED moves

\* How many directories the call makes: all that are missing, or all but the
\* last component, which is the file.
Missing ==
    IF op.req.kind = "mkdir" \/ (op.req.kind = "copy" /\ op.src.kind = "dir")
    THEN Len(op.dst.tail) ELSE Len(op.dst.tail) - 1

\* The next missing directory, until none is missing: created, or opened if
\* somebody made it.
MakeDirs ==
    /\ Doing("MakeDirs")
    /\ LET slot == <<op.p2.node, op.dst.tail[op.made + 1]>>
           x == At(slot)
           Entered(y) == [op EXCEPT !.p2 = Handle(y, slot), !.made = @ + 1]
       IN  \/ op.made = Missing /\ Continue("MakeDirs", op)
           \/ op.made < Missing /\ ~IsDir(op.p2.node) /\ Stop("io_error")
           \/ /\ op.made < Missing /\ IsDir(op.p2.node) /\ x = None
              /\ IF Free = {} THEN Stop("io_error")
                 ELSE /\ fs' = Make(SlotPath(slot), "dir", None)
                      /\ op' = [Entered(Fresh) EXCEPT !.effects = @ \cup {"mkdir"}]
                      /\ UNCHANGED moves
           \/ /\ op.made < Missing /\ IsDir(op.p2.node) /\ x # None
              /\ IF IsDir(x) THEN op' = Entered(x) /\ UNCHANGED <<fs, moves>>
                 ELSE Stop(IF IsLink(x) THEN "changed" ELSE "io_error")

\* The new file; one that appeared meanwhile is not touched.
CreateDest ==
    /\ Doing("CreateDest")
    /\ LET slot == <<op.p2.node, Last(op.dst.tail)>>
       IN  CASE ~IsDir(op.p2.node) -> Stop("io_error")
             [] IsDir(op.p2.node) /\ At(slot) # None -> Stop("changed")
             [] OTHER -> IF Free = {} THEN Stop("io_error")
                         ELSE Change("CreateDest", Make(SlotPath(slot), "file", "empty"),
                                     [op EXCEPT !.h2 = Handle(Fresh, slot)], "create")

Truncate == Doing("Truncate") /\ Change("Truncate", [fs EXCEPT !.data[op.h2.node] = "empty"], op, "write")
WriteData == Doing("WriteData") /\ Change("WriteData", [fs EXCEPT !.data[op.h2.node] = "new"], op, "write")
CopyData ==
    Doing("CopyData") /\ Change("CopyData", [fs EXCEPT !.data[op.h2.node] = fs.data[op.h1.node]], op, "write")

\* The disk is full, or the size limit is reached, in the middle of a write.
WriteFails ==
    /\ Doing("WriteData") \/ Doing("CopyData")
    /\ fs' = [fs EXCEPT !.data[op.h2.node] = "partial"]
    /\ op' = [Ended(op, "io_error") EXCEPT !.effects = @ \cup {"write"}]
    /\ UNCHANGED moves

\* delete_by_handle removes the name the handle stands for.
Unlink ==
    /\ Doing("Unlink")
    /\ IF NamesOf(op.h1.node) = {} \/ Children(op.h1.node) # {} THEN Stop("io_error")
       ELSE Change("Unlink", Erase(FinalPath(op.h1)), op, "unlink")

\* delete_tree: one entry after the other, depth first, until none is left.
DeleteTree ==
    /\ Doing("DeleteTree")
    /\ \/ Under(op.h1.node) = {} /\ Continue("DeleteTree", op)
       \/ \E p \in Under(op.h1.node) :
              /\ Children(fs.tree[p]) = {}
              /\ fs' = Erase(p) /\ op' = [op EXCEPT !.effects = @ \cup {"unlink"}]
              /\ UNCHANGED moves

\* rename_relative: replaces what has the name, if that is allowed.
Rename ==
    /\ Doing("Rename")
    /\ LET slot == <<op.p2.node, Last(op.dst.path)>>
           to == SlotPath(slot)
           there == At(slot)
       IN  IF \/ ~IsDir(op.p2.node) \/ NamesOf(op.h1.node) = {} \/ Below(op.p2.node, op.h1.node)
              \/ there # None /\ (~op.req.overwrite \/ IsDir(there) \/ there = op.h1.node)
           THEN Stop("io_error")
           ELSE Change("Rename", [fs EXCEPT !.tree = Moved(Without(@, to), FinalPath(op.h1), to)], op, "rename")

\* Mutant: the destination is not looked at again.
TrustRename == Doing("VerifyMoved") /\ Continue("VerifyMoved", op)

VerifyMoved == Check("VerifyMoved", FinalPath(op.h1) = op.dst.path, "unknown")

\* copy_tree: the entries of a directory, then one after the other, depth first.
Entries(from, to, path) ==
    LET names == SetToSeq({Last(p) : p \in Children(from)})
    IN  [i \in DOMAIN names |-> [from |-> from, to |-> to, name |-> names[i], path |-> Append(path, names[i])]]

ReadTree ==
    Doing("ReadTree") /\ Continue("ReadTree", [op EXCEPT !.pending = Entries(op.h1.node, op.p2.node, op.src.path)])

CopyTree ==
    /\ Doing("CopyTree")
    /\ IF op.pending = <<>> THEN Continue("CopyTree", op)
       ELSE LET e == Head(op.pending)
                x == At(<<e.from, e.name>>)
                slot == <<e.to, e.name>>
                Copied(kind, data, more) ==
                    IF At(slot) # None \/ Free = {} THEN Stop("io_error")
                    ELSE /\ fs' = Make(SlotPath(slot), kind, data)
                         /\ op' = [op EXCEPT !.pending = more \o Tail(@), !.effects = @ \cup {"create"}]
                         /\ UNCHANGED moves
            IN  CASE x = None -> Stop("io_error")
                  [] x # None /\ IsLink(x) -> op' = [op EXCEPT !.pending = Tail(@)] /\ UNCHANGED <<fs, moves>>
                  [] x # None /\ IsDir(x) -> Copied("dir", None, Entries(x, Fresh, e.path))
                  [] OTHER -> IF LinksAllowed(e.path, Links(x), FALSE) THEN Copied("file", fs.data[x], <<>>)
                              ELSE Stop("denied")

Step ==
    \/ OpenSource \/ PinSourceParent \/ PinDestParent \/ OpenChild \/ OpenDest
    \/ VerifySource \/ VerifySourceParent \/ VerifyDest \/ VerifyDestParent \/ VerifyNewParent
    \/ CheckSource \/ CheckDest \/ CheckSourceLinks \/ CheckDestLinks \/ CheckMoved
    \/ ScanSource \/ Inspect \/ Read \/ List \/ ReadDest
    \/ MakeDirs \/ CreateDest \/ Truncate \/ WriteData \/ CopyData \/ WriteFails
    \/ Unlink \/ DeleteTree \/ Rename \/ VerifyMoved \/ ReadTree \/ CopyTree

-----------------------------------------------------------------------------
\* Other programs, as far as Windows lets them while the call's handles are
\* open, until the call returns.  A handle that does not share deletion keeps its object from being
\* renamed and deleted; a directory with an open object below it is not moved.

Running == op.todo # {}

\* The directories that copy_tree is filling.
Filling == {op.pending[i].to : i \in DOMAIN op.pending}

OpenNodes == IF Running THEN ({op.p1.node, op.h1.node, op.p2.node, op.h2.node} \ {None}) \cup Filling ELSE {}

\* Mutant: the handle to the parent shares deletion.
PinnedFilesOnly == IF Running THEN {op.h2.node} ELSE {}

\* SHARE_PIN, and the share mode of files opened for writing.
Pinned ==
    IF ~Running THEN {}
    ELSE {op.p1.node, op.p2.node, op.h2.node} \cup Filling
         \cup (IF op.req.kind = "copy" /\ op.src.kind = "dir" THEN {op.h1.node} ELSE {})

SecretNodes == {secret.node : secret \in Secrets}

Movable(x) ==
    /\ x \notin Pinned \cup Fixed \cup SecretNodes
    /\ \A y \in OpenNodes \ {x} : ~Below(y, x)

\* Free names at the contested paths; nobody else writes to control data.
Vacant ==
    LET Parent(p) == OpenPath(Front(p), TRUE)
        open == {p \in Contested : Parent(p).ok /\ IsDir(Parent(p).h.node)}
    IN  {t \in {Append(FinalPath(Parent(p).h), Last(p)) : p \in open} :
             t \notin Paths /\ ClassOf(Front(t)) # "ControlData"}

Intervene(f) == moves' = moves + 1 /\ fs' = f /\ UNCHANGED op

MoveEntry(p, t) == Movable(fs.tree[p]) /\ ~IsPrefix(p, t) /\ Intervene([fs EXCEPT !.tree = Moved(@, p, t)])

RemoveEntry(p) == Movable(fs.tree[p]) /\ Children(fs.tree[p]) = {} /\ Intervene(Erase(p))

PlantLink(t, path) ==
    Free # {} /\ Intervene([Make(t, "link", None) EXCEPT !.target[Fresh] = path])

PlantFile(t) == Free # {} /\ Intervene(Make(t, "file", "other"))

HardLink(p, t) ==
    /\ fs.kind[fs.tree[p]] = "file" /\ fs.tree[p] \notin SecretNodes
    /\ Intervene([fs EXCEPT !.tree = With(@, t, @[p])])

Others ==
    /\ moves < MaxMoves /\ op.result = "none"
    /\ \/ \E t \in Vacant :
              \/ \E p \in Paths \ {<<>>} : MoveEntry(p, t) \/ HardLink(p, t)
              \/ \E path \in LinkTargets : PlantLink(t, path)
              \/ PlantFile(t)
       \/ \E p \in Paths \ {<<>>} : RemoveEntry(p)

Next ==
    \/ \E r \in Requests : Call(r)
    \/ Step
    \/ Others

Spec == Init /\ [][Next]_vars

-----------------------------------------------------------------------------
\* Properties

\* A path whose object the call may take away: the evaluated object, what is
\* below it, or what had the evaluated name when a move replaced it.
MayRemove(p) == p = op.dst.path \/ \E q \in NamesOf(op.src.id) : IsPrefix(q, p)

\* A path where the call may put an object: a missing directory on the way to
\* the destination, the destination, or, for a tree, below it.
MayCreate(p) ==
    \/ IsPrefix(p, op.dst.path) /\ Len(p) > Len(DestParent)
    \/ op.req.kind \in {"copy", "move"} /\ IsPrefix(op.dst.path, p)

\* What a step of the call changes, removes, creates and returns.
OnEvaluated ==
    /\ \A x \in Nodes : fs'.data[x] # fs.data[x] =>
           \/ op.dst.exists /\ x = op.dst.id
           \/ ~op.dst.exists /\ (fs.kind[x] = "free" \/ x = op.h2.node)
    /\ \A p \in Paths : ~(p \in Paths' /\ fs'.tree[p] = fs.tree[p]) => MayRemove(p)
    /\ \A p \in Paths' : ~(p \in Paths /\ fs'.tree[p] = fs.tree[p]) => MayCreate(p)
    /\ op'.out # op.out => op.h1.node = op.src.id

\* Whatever other programs rename, remove and link between the decision and
\* the access, a call changes and reads only the object that was evaluated or,
\* for a new one, creates it at the path that was evaluated: no directory that
\* was swapped for a link leads it elsewhere.
ActsOnEvaluated == [][Running /\ moves' = moves => OnEvaluated]_vars

\* Objects in protected and in control locations are neither read, nor copied,
\* nor changed, nor moved, nor deleted through the broker, whichever of their
\* names or links leads to them.
ProtectedStays ==
    /\ \A secret \in Secrets :
           LET w == OpenPath(secret.path, FALSE) IN w.ok /\ w.h.node = secret.node /\ fs.data[secret.node] = "secret"
    /\ \A x \in Nodes \ SecretNodes : fs.data[x] # "secret"
    /\ op.out # "secret"

\* A call that is refused or reports that its target changed has left every
\* file, every entry and every name as it was; only missing directories may
\* have been made.  A file of a copied tree that has a name in a protected
\* location is found on the way: what was copied before it stays.
RefusalIsClean ==
    op.result \in {"changed", "denied", "refused"} =>
        op.effects \subseteq IF op.result = "denied" /\ op.req.kind = "copy" THEN {"mkdir", "create"} ELSE {"mkdir"}

\* What a successful call promises of the file system.
Done ==
    LET at == Lookup(op.dst.path, FALSE)
        old == Lookup(op.src.path, FALSE)
        There(x) == at.ok /\ at.rest = <<>> /\ at.h.node = x
    IN  CASE op.req.kind \in {"write", "patch"} -> There(op.h2.node) /\ fs.data[op.h2.node] = "new"
          [] op.req.kind = "mkdir"  -> at.ok /\ at.rest = <<>> /\ IsDir(at.h.node)
          [] op.req.kind = "move"   -> There(op.src.id)
          [] op.req.kind = "delete" -> ~(old.ok /\ old.rest = <<>> /\ old.h.node = op.src.id)
          [] op.req.kind = "copy"   -> at.ok /\ at.rest = <<>> /\ fs.kind[at.h.node] = op.src.kind
          [] OTHER                  -> TRUE

\* Success is true when it is reported: what was written, made, copied or moved
\* is at the evaluated path, and what was deleted is not.
SuccessIsTrue == op.result = "ok" => Done
=============================================================================
