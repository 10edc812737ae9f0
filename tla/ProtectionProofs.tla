-------------------------- MODULE ProtectionProofs --------------------------
(***************************************************************************)
(* Proofs that the broker of module Broker neither reads nor changes what  *)
(* is protected (ProtectedStays), and that a call that reports success has *)
(* done what it says (SuccessIsTrue), for any file system, request and     *)
(* interference by other programs.                                         *)
(*                                                                         *)
(* ProtectionInv follows the handles of a call: what each of them may lead *)
(* to before and after it was verified and its names were looked at.  The  *)
(* directories above protected objects are in their place whenever an      *)
(* entry could be found through them, which is what the scans of trees and *)
(* the checks of names rely on.                                            *)
(***************************************************************************)
EXTENDS BrokerProofs

-----------------------------------------------------------------------------
\* What holds of protected objects, and what it takes for it to hold

\* A path that the policy denies.
Denied(p) == ClassOf(p) = "ControlData" \/ ProtectedPath(p)

\* x is a directory above a name of a protected object, or above its own place.
Leads(x) == \E p, q \in Paths : fs.tree[p] = x /\ fs.tree[q] \in SecretNodes /\ IsStrictPrefix(p, q)
LeadsToSecret(x) == \E s \in Secrets, p \in Paths : fs.tree[p] = x /\ IsStrictPrefix(p, s.path)

\* Protected objects are where they were, and nothing else has their data.
SecretsHeld ==
    \A s \in Secrets : Stands(s.node, s.path) /\ fs.kind[s.node] = "file" /\ fs.data[s.node] = "secret"
SecretsOnly == \A x \in Nodes : fs.data[x] = "secret" => x \in SecretNodes

\* The directories above them stay where they are; a move may give other names
\* of theirs other directories.
SecretWays ==
    \A p, q \in Paths :
        fs.tree[q] \in SecretNodes /\ IsStrictPrefix(p, q)
            /\ ("rename" \notin op.effects \/ \E s \in Secrets : q = s.path) => fs.tree[p] \in Fixed

\* More on which steps are left.
Moving == op.req.kind \in {"delete", "move"}
FileRead == op.req.kind = "read" \/ (op.req.kind = "copy" /\ ~TreeCopy)
Remaining ==
    /\ op.todo \cap {"OpenSource", "VerifySource"} # {} /\ FileRead => "CheckSourceLinks" \in op.todo
    /\ op.todo \cap {"OpenSource", "VerifySource"} # {} /\ TreeCopy => "ScanSource" \in op.todo
    /\ "OpenSource" \in op.todo => "VerifySource" \in op.todo
    /\ "PinSourceParent" \in op.todo => "VerifySourceParent" \in op.todo
    /\ "OpenChild" \in op.todo /\ op.req.kind = "delete" => "Inspect" \in op.todo
    /\ "OpenChild" \in op.todo /\ op.req.kind = "move" => "CheckMoved" \in op.todo
    /\ "OpenDest" \in op.todo => "CheckDestLinks" \in op.todo
    /\ "VerifySourceParent" \in op.todo => "OpenChild" \in op.todo
    /\ "ReadDest" \in op.todo => op.req.kind = "patch"
    /\ op.todo \cap {"OpenSource", "VerifySource"} # {} => ~Moving
    /\ op.req.kind = "move" /\ op.todo \cap {"PinSourceParent", "VerifySourceParent", "OpenChild", "CheckMoved"} # {} => "Rename" \in op.todo

\* The last step is still to come.
LastStep ==
    /\ op.req.kind \in {"write", "patch"} => "WriteData" \in op.todo
    /\ op.req.kind = "mkdir" => "VerifyNewParent" \in op.todo
    /\ op.req.kind = "delete" => op.todo \cap {"Inspect", "Unlink"} # {}
    /\ op.req.kind = "move" => "VerifyMoved" \in op.todo
    /\ op.req.kind = "copy" /\ ~TreeCopy => "CopyData" \in op.todo
    /\ TreeCopy => "CopyTree" \in op.todo

\* What the policy allowed.
Judged ==
    /\ HasDest => ~Denied(op.dst.path)
    /\ op.req.kind \in {"read", "copy", "delete", "move"} => ~Denied(op.src.path)
    /\ op.req.kind = "copy" => op.src.kind \in {"dir", "file"}

\* The file to write is at the destination, and is not protected.
DestOpened ==
    Writes /\ op.todo \cap {"OpenDest", "CreateDest"} = {} => Stands(op.h2.node, op.dst.path) /\ ~IsDir(op.h2.node)
DestIsFile ==
    Writes /\ op.todo \cap {"OpenDest", "CheckDest", "CreateDest"} = {} => fs.kind[op.h2.node] = "file"
DestNotSecret ==
    Writes /\ op.todo \cap {"OpenDest", "CheckDestLinks", "CreateDest"} = {} => op.h2.node \notin SecretNodes

\* The file to read is not protected.
SourceRead ==
    FileRead =>
        /\ "VerifySource" \notin op.todo /\ op.h1.node \in SecretNodes => Stands(op.h1.node, op.src.path)
        /\ "CheckSourceLinks" \notin op.todo => op.h1.node \notin SecretNodes

\* The entry to delete or to move: where it was found, and that nothing
\* protected is in it.
Pending == op.req.kind = "delete" \/ (op.req.kind = "move" /\ "Rename" \in op.todo)
SourceParent ==
    Pending /\ "VerifySourceParent" \notin op.todo => Stands(op.p1.node, Front(op.src.path))
\* No directory on the way to the path.
NotAbove(x, path) == \A n \in 0 .. Len(path) - 1 : ~Stands(x, First(path, n))

SourceChild ==
    Pending /\ "OpenChild" \notin op.todo =>
        /\ IsDir(op.p1.node) /\ op.h1.at = <<op.p1.node, Last(op.src.path)>>
        /\ NotAbove(op.h1.node, op.src.path)
        /\ op.h1.node \in SecretNodes \/ LeadsToSecret(op.h1.node) => Stands(op.h1.node, op.src.path)
SourceClean ==
    Pending =>
        /\ op.req.kind = "delete" /\ "Inspect" \notin op.todo => ~LeadsToSecret(op.h1.node)
        /\ op.req.kind = "move" /\ "CheckMoved" \notin op.todo =>
               ~LeadsToSecret(op.h1.node) /\ op.h1.node \notin SecretNodes

\* The tree to copy is at the source, and holds nothing protected at its place.
TreeSource ==
    TreeCopy =>
        /\ "VerifySource" \notin op.todo => Stands(op.h1.node, op.src.path)
        /\ "ScanSource" \notin op.todo => \A s \in Secrets : ~IsStrictPrefix(op.src.path, s.path)
JobIsAt(e) ==
    /\ e.path # <<>> /\ Last(e.path) = e.name /\ IsStrictPrefix(op.src.path, e.path)
    /\ Leads(e.from) => Stands(e.from, Front(e.path))
TreeJobs == \A i \in DOMAIN op.pending : JobIsAt(op.pending[i])

ProtectionInv ==
    /\ SecretsHeld /\ SecretsOnly /\ SecretWays /\ op.out # "secret"
    /\ Running =>
           /\ Remaining /\ LastStep /\ Judged /\ DestOpened /\ DestIsFile /\ DestNotSecret /\ SourceRead
           /\ SourceParent /\ SourceChild /\ SourceClean /\ TreeSource /\ TreeJobs

-----------------------------------------------------------------------------
\* One step at a time

LEMMA DoingOne == ASSUME NEW s, NEW t, Doing(s), Doing(t) PROVE s = t
BY DEF Doing, Order

\* The steps that are done when a step is next.
LEMMA Before ==
    ASSUME NEW step, Doing(step)
    PROVE  /\ step = "VerifySource" => "OpenSource" \notin op.todo
           /\ step = "CheckSourceLinks" => op.todo \cap {"OpenSource", "VerifySource"} = {}
           /\ step = "ScanSource" => op.todo \cap {"OpenSource", "VerifySource"} = {}
           /\ step = "ReadTree" => op.todo \cap {"OpenSource", "VerifySource", "ScanSource"} = {}
           /\ step = "CopyTree" => op.todo \cap {"OpenSource", "VerifySource", "ScanSource", "ReadTree"} = {}
           /\ step = "VerifySourceParent" => "PinSourceParent" \notin op.todo
           /\ step = "OpenChild" => op.todo \cap {"PinSourceParent", "VerifySourceParent"} = {}
           /\ step = "Inspect" => op.todo \cap {"VerifySourceParent", "OpenChild"} = {}
           /\ step = "CheckMoved" => op.todo \cap {"VerifySourceParent", "OpenChild"} = {}
           /\ step = "OpenDest" => op.todo \cap {"PinDestParent", "VerifyDestParent"} = {}
           /\ step = "CheckDest" => "OpenDest" \notin op.todo
           /\ step = "CheckDestLinks" => op.todo \cap {"OpenDest", "CheckDest"} = {}
           /\ step = "Read" => op.todo \cap {"OpenSource", "VerifySource", "CheckSourceLinks"} = {}
           /\ step = "CopyData" => op.todo \cap {"OpenSource", "VerifySource", "CheckSourceLinks", "OpenDest", "CheckDest", "CheckDestLinks", "CreateDest"} = {}
           /\ step = "Truncate" => op.todo \cap {"OpenDest", "CheckDest", "CheckDestLinks", "CreateDest"} = {}
           /\ step = "WriteData" => op.todo \cap {"OpenDest", "CheckDest", "CheckDestLinks", "CreateDest"} = {}
           /\ step = "DeleteTree" => op.todo \cap {"VerifySourceParent", "OpenChild", "Inspect"} = {}
           /\ step = "Unlink" => op.todo \cap {"VerifySourceParent", "OpenChild", "Inspect", "DeleteTree"} = {}
           /\ step = "Rename" => op.todo \cap {"VerifySourceParent", "OpenChild", "CheckMoved"} = {}
           /\ step = "VerifyMoved" => "Rename" \notin op.todo
<1>1. step = "VerifySource" => "OpenSource" \notin op.todo
  BY DEF Doing, Order
<1>2. step = "CheckSourceLinks" => op.todo \cap {"OpenSource", "VerifySource"} = {}
  BY DEF Doing, Order
<1>3. step = "ScanSource" => op.todo \cap {"OpenSource", "VerifySource"} = {}
  BY DEF Doing, Order
<1>4. step = "ReadTree" => op.todo \cap {"OpenSource", "VerifySource", "ScanSource"} = {}
  BY DEF Doing, Order
<1>5. step = "CopyTree" => op.todo \cap {"OpenSource", "VerifySource", "ScanSource", "ReadTree"} = {}
  BY DEF Doing, Order
<1>6. step = "VerifySourceParent" => "PinSourceParent" \notin op.todo
  BY DEF Doing, Order
<1>7. step = "OpenChild" => op.todo \cap {"PinSourceParent", "VerifySourceParent"} = {}
  BY DEF Doing, Order
<1>8. step = "Inspect" => op.todo \cap {"VerifySourceParent", "OpenChild"} = {}
  BY DEF Doing, Order
<1>9. step = "CheckMoved" => op.todo \cap {"VerifySourceParent", "OpenChild"} = {}
  BY DEF Doing, Order
<1>10. step = "OpenDest" => op.todo \cap {"PinDestParent", "VerifyDestParent"} = {}
  BY DEF Doing, Order
<1>11. step = "CheckDest" => "OpenDest" \notin op.todo
  BY DEF Doing, Order
<1>12. step = "CheckDestLinks" => op.todo \cap {"OpenDest", "CheckDest"} = {}
  BY DEF Doing, Order
<1>13. step = "Read" => op.todo \cap {"OpenSource", "VerifySource", "CheckSourceLinks"} = {}
  BY DEF Doing, Order
<1>14. step = "CopyData" => op.todo \cap {"OpenSource", "VerifySource", "CheckSourceLinks", "OpenDest", "CheckDest", "CheckDestLinks", "CreateDest"} = {}
  BY DEF Doing, Order
<1>15. step = "Truncate" => op.todo \cap {"OpenDest", "CheckDest", "CheckDestLinks", "CreateDest"} = {}
  BY DEF Doing, Order
<1>16. step = "WriteData" => op.todo \cap {"OpenDest", "CheckDest", "CheckDestLinks", "CreateDest"} = {}
  BY DEF Doing, Order
<1>17. step = "DeleteTree" => op.todo \cap {"VerifySourceParent", "OpenChild", "Inspect"} = {}
  BY DEF Doing, Order
<1>18. step = "Unlink" => op.todo \cap {"VerifySourceParent", "OpenChild", "Inspect", "DeleteTree"} = {}
  BY DEF Doing, Order
<1>19. step = "Rename" => op.todo \cap {"VerifySourceParent", "OpenChild", "CheckMoved"} = {}
  BY DEF Doing, Order
<1>20. step = "VerifyMoved" => "Rename" \notin op.todo
  BY DEF Doing, Order
<1> QED
  BY <1>1, <1>2, <1>3, <1>4, <1>5, <1>6, <1>7, <1>8, <1>9, <1>10, <1>11, <1>12, <1>13, <1>14, <1>15, <1>16, <1>17, <1>18, <1>19, <1>20

\* The step that is next is the one that is taken.
StepIs(step) ==
    /\ step = "OpenSource" => OpenSource
    /\ step = "PinSourceParent" => PinSourceParent
    /\ step = "VerifySourceParent" => VerifySourceParent
    /\ step = "OpenChild" => OpenChild
    /\ step = "VerifySource" => VerifySource
    /\ step = "CheckSource" => CheckSource
    /\ step = "CheckSourceLinks" => CheckSourceLinks
    /\ step = "Read" => Read
    /\ step = "List" => List
    /\ step = "Inspect" => Inspect
    /\ step = "CheckMoved" => CheckMoved
    /\ step = "ScanSource" => ScanSource
    /\ step = "PinDestParent" => PinDestParent
    /\ step = "VerifyDestParent" => VerifyDestParent
    /\ step = "OpenDest" => OpenDest
    /\ step = "CheckDest" => CheckDest
    /\ step = "CheckDestLinks" => CheckDestLinks
    /\ step = "MakeDirs" => MakeDirs
    /\ step = "VerifyNewParent" => VerifyNewParent
    /\ step = "CreateDest" => CreateDest
    /\ step = "VerifyDest" => VerifyDest
    /\ step = "ReadDest" => ReadDest
    /\ step = "Truncate" => Truncate
    /\ step = "WriteData" => (WriteData \/ WriteFails)
    /\ step = "CopyData" => (CopyData \/ WriteFails)
    /\ step = "DeleteTree" => DeleteTree
    /\ step = "Unlink" => Unlink
    /\ step = "Rename" => Rename
    /\ step = "VerifyMoved" => VerifyMoved
    /\ step = "ReadTree" => ReadTree
    /\ step = "CopyTree" => CopyTree

LEMMA StepTaken == ASSUME Step, NEW step, Doing(step) PROVE StepIs(step)
<1>1. /\ (VerifySource => Doing("VerifySource"))
      /\ (VerifySourceParent => Doing("VerifySourceParent"))
      /\ (VerifyDest => Doing("VerifyDest"))
      /\ (VerifyDestParent => Doing("VerifyDestParent"))
      /\ (VerifyNewParent => Doing("VerifyNewParent"))
      /\ (CheckSource => Doing("CheckSource"))
      /\ (CheckDest => Doing("CheckDest"))
      /\ (CheckSourceLinks => Doing("CheckSourceLinks"))
      /\ (CheckDestLinks => Doing("CheckDestLinks"))
      /\ (CheckMoved => Doing("CheckMoved"))
      /\ (List => Doing("List"))
      /\ (VerifyMoved => Doing("VerifyMoved"))
  BY DEF Check, VerifySource, VerifySourceParent, VerifyDest, VerifyDestParent, VerifyNewParent, CheckSource, CheckDest, CheckSourceLinks, CheckDestLinks, CheckMoved, List, VerifyMoved
<1>2. /\ (OpenSource => Doing("OpenSource"))
      /\ (PinSourceParent => Doing("PinSourceParent"))
      /\ (OpenChild => Doing("OpenChild"))
      /\ (Read => Doing("Read"))
      /\ (Inspect => Doing("Inspect"))
      /\ (ScanSource => Doing("ScanSource"))
      /\ (PinDestParent => Doing("PinDestParent"))
      /\ (OpenDest => Doing("OpenDest"))
      /\ (MakeDirs => Doing("MakeDirs"))
      /\ (CreateDest => Doing("CreateDest"))
      /\ (ReadDest => Doing("ReadDest"))
      /\ (Truncate => Doing("Truncate"))
      /\ (WriteData => Doing("WriteData"))
      /\ (CopyData => Doing("CopyData"))
      /\ (DeleteTree => Doing("DeleteTree"))
      /\ (Unlink => Doing("Unlink"))
      /\ (Rename => Doing("Rename"))
      /\ (ReadTree => Doing("ReadTree"))
      /\ (CopyTree => Doing("CopyTree"))
      /\ (WriteFails => Doing("WriteData") \/ Doing("CopyData"))
  BY DEF OpenSource, PinSourceParent, OpenChild, Read, Inspect, ScanSource, PinDestParent, OpenDest, MakeDirs, CreateDest, ReadDest, Truncate, WriteData, CopyData, DeleteTree, Unlink, Rename, ReadTree, CopyTree, WriteFails
<1>3. \A s : Doing(s) => s = step
  BY DoingOne
<1> QED
  BY <1>1, <1>2, <1>3 DEF Step, StepIs

\* What a step of a call that goes on does to the call.
Goes(step) ==
    /\ Doing(step)
    /\ op'.req = op.req /\ op'.src = op.src /\ op'.dst = op.dst
    /\ \/ op'.todo = op.todo \ {step}
       \/ op'.todo = op.todo /\ step \in {"MakeDirs", "DeleteTree", "CopyTree"}
       \/ /\ step = "Inspect" /\ "Unlink" \in op'.todo
          /\ op.todo \ {step} \subseteq op'.todo /\ op'.todo \subseteq (op.todo \cup {"DeleteTree", "Unlink"}) \ {step}
    /\ op'.p1 = op.p1 \/ step = "PinSourceParent"
    /\ op'.h1 = op.h1 \/ step \in {"OpenSource", "OpenChild"}
    /\ op'.h2 = op.h2 \/ step \in {"OpenDest", "CreateDest"}
    /\ op'.pending = op.pending \/ step \in {"ReadTree", "CopyTree"}

LEMMA GoesWith ==
    ASSUME NEW step, Doing(step), NEW o, Shaped(o), op' = Advance(step, o), Running',
           o.req = op.req, o.src = op.src, o.dst = op.dst,
           \/ o.todo = op.todo
           \/ step = "Inspect" /\ "Unlink" \in o.todo /\ op.todo \subseteq o.todo /\ o.todo \subseteq op.todo \cup {"DeleteTree", "Unlink"},
           o.p1 = op.p1 \/ step = "PinSourceParent",
           o.h1 = op.h1 \/ step \in {"OpenSource", "OpenChild"},
           o.h2 = op.h2 \/ step \in {"OpenDest", "CreateDest"},
           o.pending = op.pending \/ step \in {"ReadTree", "CopyTree"}
    PROVE  Goes(step)
<1>1. PICK a : a = Advance(step, o)
  OBVIOUS
<1>2. /\ a.req = o.req /\ a.src = o.src /\ a.dst = o.dst /\ a.p1 = o.p1 /\ a.h1 = o.h1 /\ a.h2 = o.h2
      /\ o.todo = {step} => a.todo = {}
      /\ o.todo # {step} => a.todo = o.todo \ {step} /\ a.pending = o.pending
  BY <1>1, AdvanceIs
<1>3. op' = a /\ a.todo # {}
  BY <1>1 DEF Running
<1>4. a.todo = o.todo \ {step} /\ a.pending = o.pending
  BY <1>2, <1>3
<1>5. step # "Unlink" \/ o.todo = op.todo
  OBVIOUS
<1>6. \/ op'.todo = op.todo \ {step}
      \/ /\ step = "Inspect" /\ "Unlink" \in op'.todo
         /\ op.todo \ {step} \subseteq op'.todo /\ op'.todo \subseteq (op.todo \cup {"DeleteTree", "Unlink"}) \ {step}
  BY <1>3, <1>4
<1> QED
  BY <1>2, <1>3, <1>4, <1>6 DEF Goes

LEMMA GoesOnward ==
    ASSUME NEW step, Doing(step), NEW o, Shaped(o), Continue(step, o), Running',
           o.req = op.req, o.src = op.src, o.dst = op.dst,
           \/ o.todo = op.todo
           \/ step = "Inspect" /\ "Unlink" \in o.todo /\ op.todo \subseteq o.todo /\ o.todo \subseteq op.todo \cup {"DeleteTree", "Unlink"},
           o.p1 = op.p1 \/ step = "PinSourceParent",
           o.h1 = op.h1 \/ step \in {"OpenSource", "OpenChild"},
           o.h2 = op.h2 \/ step \in {"OpenDest", "CreateDest"},
           o.pending = op.pending \/ step \in {"ReadTree", "CopyTree"}
    PROVE  Goes(step)
BY GoesWith DEF Continue

LEMMA GoesUnchanged ==
    ASSUME Shaped(op), NEW step, Doing(step), Continue(step, op), Running'
    PROVE  Goes(step)
BY GoesOnward

LEMMA StopEnds == ASSUME Shaped(op), NEW result, Stop(result) PROVE ~Running'
<1>1. PICK a : a = Ended(op, result)
  OBVIOUS
<1>2. a.todo = {} /\ op' = a
  BY <1>1, EndedIs DEF Stop
<1> QED
  BY <1>2 DEF Running

LEMMA GoesChecked ==
    ASSUME Shaped(op), NEW step, NEW c, NEW result, Check(step, c, result), Running'
    PROVE  Goes(step) /\ c
<1>1. Doing(step) /\ (c => Continue(step, op)) /\ (~c => Stop(result))
  BY DEF Check
<1>2. c
  BY <1>1, StopEnds
<1> QED
  BY <1>1, <1>2, GoesUnchanged

LEMMA GoesChanged ==
    ASSUME Shaped(op), NEW step, Doing(step), NEW f, NEW effect, Change(step, f, op, effect), Running'
    PROVE  Goes(step)
<1>1. PICK o : o = [op EXCEPT !.effects = @ \cup {effect}]
  OBVIOUS
<1>2. /\ Shaped(o) /\ o.req = op.req /\ o.src = op.src /\ o.dst = op.dst /\ o.todo = op.todo /\ o.p1 = op.p1
      /\ o.h1 = op.h1 /\ o.h2 = op.h2 /\ o.pending = op.pending
  BY <1>1 DEF Shaped
<1>3. op' = Advance(step, o)
  BY <1>1 DEF Change
<1> QED
  BY <1>2, <1>3, GoesWith

LEMMA ChecksGo ==
    ASSUME Shaped(op), Checks, Running'
    PROVE  \E step : Goes(step)
<1>1. ASSUME NEW step, NEW c, NEW result, Check(step, c, result)
      PROVE  \E s : Goes(s)
  BY <1>1, GoesChecked
<1> QED
  BY <1>1 DEF Checks, VerifySource, VerifySourceParent, VerifyDest, VerifyDestParent, VerifyNewParent, CheckSource, CheckDest,
     CheckSourceLinks, CheckDestLinks, CheckMoved, List, VerifyMoved

\* A step that opens something, or fails.
LEMMA OpensGo ==
    ASSUME Shaped(op), Opens, Running'
    PROVE  \E step : Goes(step)
<1>1. ASSUME NEW step, Doing(step), NEW o, Continue(step, o), NEW h,
             \/ step \in {"OpenSource", "OpenChild"} /\ o = [op EXCEPT !.h1 = h]
             \/ step = "PinSourceParent" /\ o = [op EXCEPT !.p1 = h]
             \/ step = "PinDestParent" /\ o = [op EXCEPT !.p2 = h]
             \/ step = "OpenDest" /\ o = [op EXCEPT !.h2 = h]
             \/ step = "Read" /\ o = [op EXCEPT !.out = h]
      PROVE  \E s : Goes(s)
  <2>1. /\ Shaped(o) /\ o.req = op.req /\ o.src = op.src /\ o.dst = op.dst /\ o.todo = op.todo /\ o.pending = op.pending
        /\ o.p1 = op.p1 \/ step = "PinSourceParent"
        /\ o.h1 = op.h1 \/ step \in {"OpenSource", "OpenChild"}
        /\ o.h2 = op.h2 \/ step = "OpenDest"
    BY <1>1 DEF Shaped
  <2> QED
    BY <1>1, <2>1, GoesOnward
<1>2. ASSUME NEW result, Stop(result) PROVE FALSE
  BY <1>2, StopEnds
<1>3. CASE OpenSource
  BY <1>1, <1>2, <1>3 DEF OpenSource
<1>4. CASE PinSourceParent
  BY <1>1, <1>2, <1>4 DEF PinSourceParent
<1>5. CASE PinDestParent
  BY <1>1, <1>2, <1>5 DEF PinDestParent
<1>6. CASE OpenChild
  BY <1>1, <1>2, <1>6 DEF OpenChild
<1>7. CASE OpenDest
  BY <1>1, <1>2, <1>7 DEF OpenDest
<1>8. CASE Read
  BY <1>1, <1>8 DEF Read
<1> QED
  BY <1>3, <1>4, <1>5, <1>6, <1>7, <1>8 DEF Opens

LEMMA LooksGo ==
    ASSUME Shaped(op), Looks, Running'
    PROVE  \E step : Goes(step)
<1>2. ASSUME NEW result, Stop(result) PROVE FALSE
  BY <1>2, StopEnds
<1>3. CASE ScanSource
  BY <1>2, <1>3, GoesUnchanged DEF ScanSource
<1>4. CASE Inspect
  <2>1. PICK more : /\ more \subseteq {"DeleteTree", "Unlink"} /\ "Unlink" \in more
                    /\ Doing("Inspect") /\ Continue("Inspect", [op EXCEPT !.todo = @ \cup more])
    BY <1>2, <1>4 DEF Inspect
  <2>2. PICK o : o = [op EXCEPT !.todo = @ \cup more]
    OBVIOUS
  <2>3. /\ Shaped(o) /\ o.req = op.req /\ o.src = op.src /\ o.dst = op.dst /\ o.todo = op.todo \cup more /\ o.p1 = op.p1
        /\ o.h1 = op.h1 /\ o.h2 = op.h2 /\ o.pending = op.pending
    BY <2>2 DEF Shaped
  <2>4. Continue("Inspect", o)
    BY <2>1, <2>2
  <2>5. "Unlink" \in o.todo /\ op.todo \subseteq o.todo /\ o.todo \subseteq op.todo \cup {"DeleteTree", "Unlink"}
    BY <2>1, <2>3
  <2> QED
    BY <2>1, <2>3, <2>4, <2>5, GoesOnward
<1>5. CASE ReadDest
  BY <1>2, <1>5, GoesUnchanged DEF ReadDest
<1>6. CASE ReadTree
  <2>1. PICK jobs : Doing("ReadTree") /\ Continue("ReadTree", [op EXCEPT !.pending = jobs])
    BY <1>6 DEF ReadTree
  <2>2. PICK o : o = [op EXCEPT !.pending = jobs]
    OBVIOUS
  <2>3. /\ Shaped(o) /\ o.req = op.req /\ o.src = op.src /\ o.dst = op.dst /\ o.todo = op.todo /\ o.p1 = op.p1
        /\ o.h1 = op.h1 /\ o.h2 = op.h2
    BY <2>2 DEF Shaped
  <2> QED
    BY <2>1, <2>2, <2>3, GoesOnward
<1> QED
  BY <1>3, <1>4, <1>5, <1>6 DEF Looks

\* A step that is taken more than once.
LEMMA GoesAgain ==
    ASSUME NEW step \in {"MakeDirs", "DeleteTree", "CopyTree"}, Doing(step), NEW o, op' = o,
           o.req = op.req, o.src = op.src, o.dst = op.dst, o.todo = op.todo, o.p1 = op.p1, o.h1 = op.h1, o.h2 = op.h2,
           o.pending = op.pending \/ step = "CopyTree"
    PROVE  Goes(step)
BY DEF Goes

LEMMA ChangesGo ==
    ASSUME Shaped(op), Running',
           MakeDirs \/ CreateDest \/ Fills \/ Unlink \/ DeleteTree \/ Rename \/ CopyTree
    PROVE  \E step : Goes(step)
<1>1. ASSUME NEW result, Stop(result) PROVE FALSE
  BY <1>1, StopEnds
<1>2. ASSUME NEW step, Doing(step), Continue(step, op) PROVE \E s : Goes(s)
  BY <1>2, GoesUnchanged
<1>3. ASSUME NEW step, Doing(step), NEW f, NEW effect, Change(step, f, op, effect) PROVE \E s : Goes(s)
  BY <1>3, GoesChanged
<1>4. CASE MakeDirs
  <2> DEFINE slot == <<op.p2.node, op.dst.tail[op.made + 1]>>
             x == At(slot)
             Entered(y) == [op EXCEPT !.p2 = Handle(y, slot), !.made = @ + 1]
  <2>1. ASSUME NEW y, NEW o, o = [Entered(y) EXCEPT !.effects = @ \cup {"mkdir"}] \/ o = Entered(y), op' = o, Doing("MakeDirs")
        PROVE  \E s : Goes(s)
    <3>1. PICK h : h = Handle(y, slot)
      OBVIOUS
    <3>2. /\ o.req = op.req /\ o.src = op.src /\ o.dst = op.dst /\ o.todo = op.todo /\ o.p1 = op.p1 /\ o.h1 = op.h1
          /\ o.h2 = op.h2 /\ o.pending = op.pending
      BY <2>1, <3>1 DEF Shaped
    <3> QED
      BY <2>1, <3>2, GoesAgain
  <2>2. Doing("MakeDirs")
    BY <1>4 DEF MakeDirs
  <2>3. \/ Continue("MakeDirs", op)
        \/ \E result : Stop(result)
        \/ \E y : op' = [Entered(y) EXCEPT !.effects = @ \cup {"mkdir"}] \/ op' = Entered(y)
    BY <1>4 DEF MakeDirs
  <2> HIDE DEF Entered
  <2> QED
    BY <1>1, <1>2, <2>1, <2>2, <2>3
<1>5. CASE CreateDest
  <2>1. PICK h, f : /\ Doing("CreateDest")
                    /\ (\E result : Stop(result)) \/ Change("CreateDest", f, [op EXCEPT !.h2 = h], "create")
    BY <1>5 DEF CreateDest
  <2>2. PICK o : o = [[op EXCEPT !.h2 = h] EXCEPT !.effects = @ \cup {"create"}]
    OBVIOUS
  <2>3. /\ Shaped(o) /\ o.req = op.req /\ o.src = op.src /\ o.dst = op.dst /\ o.todo = op.todo /\ o.p1 = op.p1
        /\ o.h1 = op.h1 /\ o.pending = op.pending
    BY <2>2 DEF Shaped
  <2>4. Change("CreateDest", f, [op EXCEPT !.h2 = h], "create")
    BY <1>1, <2>1
  <2>5. op' = Advance("CreateDest", o)
    BY <2>2, <2>4 DEF Change
  <2> QED
    BY <2>1, <2>3, <2>5, GoesWith
<1>6. CASE Fills
  <2>1. CASE WriteFails
    <3>1. PICK a : a = Ended(op, "io_error")
      OBVIOUS
    <3>2. PICK e : op' = [a EXCEPT !.effects = e]
      BY <2>1, <3>1 DEF WriteFails
    <3>3. Shaped(a) /\ a.todo = {}
      BY <3>1, EndedIs
    <3>4. op'.todo = {}
      BY <3>2, <3>3 DEF Shaped
    <3> QED
      BY <3>4 DEF Running
  <2> QED
    BY <1>3, <1>6, <2>1 DEF Fills, Truncate, WriteData, CopyData
<1>7. CASE Unlink
  BY <1>1, <1>3, <1>7 DEF Unlink
<1>8. CASE DeleteTree
  <2>1. Doing("DeleteTree")
    BY <1>8 DEF DeleteTree
  <2>2. Continue("DeleteTree", op) \/ \E e : op' = [op EXCEPT !.effects = e]
    BY <1>8 DEF DeleteTree
  <2>3. ASSUME NEW e, op' = [op EXCEPT !.effects = e] PROVE \E s : Goes(s)
    <3>1. PICK o : o = [op EXCEPT !.effects = e]
      OBVIOUS
    <3>2. /\ o.req = op.req /\ o.src = op.src /\ o.dst = op.dst /\ o.todo = op.todo /\ o.p1 = op.p1 /\ o.h1 = op.h1
          /\ o.h2 = op.h2 /\ o.pending = op.pending
      BY <3>1 DEF Shaped
    <3> QED
      BY <2>1, <2>3, <3>1, <3>2, GoesAgain
  <2> QED
    BY <1>2, <2>1, <2>2, <2>3
<1>9. CASE Rename
  BY <1>1, <1>3, <1>9 DEF Rename
<1>10. CASE CopyTree
  <2>1. Doing("CopyTree")
    BY <1>10 DEF CopyTree
  <2>2. ASSUME NEW jobs, NEW e, op' = [op EXCEPT !.pending = jobs, !.effects = e] PROVE \E s : Goes(s)
    <3>1. PICK o : o = [op EXCEPT !.pending = jobs, !.effects = e]
      OBVIOUS
    <3>2. /\ o.req = op.req /\ o.src = op.src /\ o.dst = op.dst /\ o.todo = op.todo /\ o.p1 = op.p1 /\ o.h1 = op.h1
          /\ o.h2 = op.h2
      BY <3>1 DEF Shaped
    <3> QED
      BY <2>1, <2>2, <3>1, <3>2, GoesAgain
  <2>3. ASSUME NEW jobs, op' = [op EXCEPT !.pending = jobs] PROVE \E s : Goes(s)
    <3>1. PICK o : o = [op EXCEPT !.pending = jobs]
      OBVIOUS
    <3>2. /\ o.req = op.req /\ o.src = op.src /\ o.dst = op.dst /\ o.todo = op.todo /\ o.p1 = op.p1 /\ o.h1 = op.h1
          /\ o.h2 = op.h2
      BY <3>1 DEF Shaped
    <3> QED
      BY <2>1, <2>3, <3>1, <3>2, GoesAgain
  <2>4. \/ Continue("CopyTree", op) \/ (\E result : Stop(result))
        \/ (\E jobs, e : op' = [op EXCEPT !.pending = jobs, !.effects = e])
        \/ (\E jobs : op' = [op EXCEPT !.pending = jobs])
    BY <1>10 DEF CopyTree
  <2> QED
    BY <1>1, <1>2, <2>1, <2>2, <2>3, <2>4
<1> QED
  BY <1>4, <1>5, <1>6, <1>7, <1>8, <1>9, <1>10

LEMMA StepGoes ==
    ASSUME BrokerInv, Step, Running'
    PROVE  \E step : Goes(step) /\ StepIs(step)
<1>1. Shaped(op)
  BY DEF BrokerInv
<1>2. Checks \/ Opens \/ Looks \/ MakeDirs \/ CreateDest \/ Fills \/ Unlink \/ DeleteTree \/ Rename \/ CopyTree
  BY DEF Step, Checks, Opens, Looks, Fills
<1>3. PICK step : Goes(step)
  BY <1>1, <1>2, ChecksGo, OpensGo, LooksGo, ChangesGo
<1>4. StepIs(step)
  BY <1>3, StepTaken DEF Goes
<1> QED
  BY <1>3, <1>4

-----------------------------------------------------------------------------
\* What a change does to the names and the data of objects

\* Nothing is lost or moved.
Grows ==
    /\ \A x, p : Stands(x, p) => Stands(x, p)'
    /\ \A x, p : Stands(x, p) => fs'.kind[x] = fs.kind[x]

\* No path has another object than before, and a protected object no new name.
Tame ==
    /\ \A p \in Paths : p \in Paths' => fs'.tree[p] = fs.tree[p]
    /\ \A x \in SecretNodes : \A p : "rename" \notin op.effects /\ Stands(x, p)' => Stands(x, p)

\* The protected objects are left alone.
Safe == SecretsHeld' /\ SecretsOnly' /\ Tame

LEMMA SecretsAre == SecretNodes \subseteq Nodes /\ \A s \in Secrets : s.node \in SecretNodes /\ s.path \in Seq(Names)
<1>1. \A s \in Secrets : s.path \in DOMAIN InitialFs.tree /\ InitialFs.tree[s.path] = s.node
  BY SecretsAssumption
<1>2. \A p \in DOMAIN InitialFs.tree : InitialFs.tree[p] \in Nodes /\ p \in Seq(Names)
  BY FsAssumption DEF FileSystem, IsTree
<1> QED
  BY <1>1, <1>2 DEF SecretNodes

LEMMA SecretIs ==
    ASSUME SecretsHeld, NEW x \in SecretNodes
    PROVE  x \in Nodes /\ fs.kind[x] = "file" /\ \E s \in Secrets : s.node = x /\ Stands(x, s.path)
BY SecretsAre DEF SecretsHeld, SecretNodes

LEMMA SameSafe ==
    ASSUME SecretsHeld, SecretsOnly, fs' = fs
    PROVE  Grows /\ Safe
<1>1. Grows /\ Tame
  BY DEF Grows, Tame, Stands, Paths
<1>2. SecretsHeld'
  BY DEF SecretsHeld, Stands, Paths
<1>3. SecretsOnly'
  BY DEF SecretsOnly
<1> QED
  BY <1>1, <1>2, <1>3 DEF Safe

LEMMA DataSafe ==
    ASSUME FileSystem(fs), SecretsHeld, SecretsOnly, NEW x, x \notin SecretNodes,
           NEW data \in Contents \cup {None}, data # "secret", fs' = Filled(x, data)
    PROVE  Grows /\ Safe
<1>1. PICK f : f = fs'
  OBVIOUS
<1>2. /\ f.tree = fs.tree /\ f.kind = fs.kind
      /\ \A y \in Nodes : f.data[y] = IF y = x THEN data ELSE fs.data[y]
  BY <1>1, DataKeeps
<1>3. Grows /\ Tame
  BY <1>1, <1>2 DEF Grows, Tame, Stands, Paths
<1>4. SecretsHeld'
  BY <1>1, <1>2, SecretsAre DEF SecretsHeld, Stands, Paths
<1>5. SecretsOnly'
  BY <1>1, <1>2 DEF SecretsOnly
<1> QED
  BY <1>3, <1>4, <1>5 DEF Safe

\* A new object.
LEMMA NewSafe ==
    ASSUME FileSystem(fs), SecretsHeld, SecretsOnly, NEW y, y \notin SecretNodes, NEW q, q \notin Paths,
           \A r : r \in DOMAIN fs'.tree <=> r \in Paths \/ r = q,
           fs'.tree[q] = y, \A r \in Paths : fs'.tree[r] = fs.tree[r],
           \A x, r : Stands(x, r) => fs'.kind[x] = fs.kind[x],
           \A x \in Nodes : fs'.data[x] = fs.data[x] \/ (fs'.data[x] # "secret" /\ x \notin SecretNodes)
    PROVE  Grows /\ Safe
<1>1. Grows /\ Tame
  BY DEF Grows, Tame, Stands, Paths
<1>2. SecretsHeld'
  BY <1>1, SecretsAre DEF SecretsHeld, Grows
<1>3. SecretsOnly'
  BY DEF SecretsOnly
<1> QED
  BY <1>1, <1>2, <1>3 DEF Safe

LEMMA MakeSafe ==
    ASSUME FileSystem(fs), SecretsHeld, SecretsOnly, Free # {}, NEW p \in Seq(Names), p # <<>>, p \notin Paths, Front(p) \in Paths,
           IsDir(fs.tree[Front(p)]), NEW kind \in Kinds, kind # "free", NEW data \in Contents \cup {None}, data # "secret",
           NEW f, f = Make(p, kind, data), fs'.tree = f.tree, fs'.kind = f.kind, fs'.data = f.data
    PROVE  Grows /\ Safe
<1>1. PICK y : y = Fresh
  OBVIOUS
<1>2. y \in Nodes /\ fs.kind[y] = "free" /\ \A q \in Paths : fs.tree[q] # y
  BY <1>1, FreshIs
<1>3. y \notin SecretNodes
  BY <1>2, SecretIs
<1>4. /\ (\A q : q \in DOMAIN f.tree <=> q \in Paths \/ q = p) /\ f.tree[p] = y
      /\ \A q \in Paths : f.tree[q] = fs.tree[q]
      /\ \A x \in Nodes : f.kind[x] = IF x = y THEN kind ELSE fs.kind[x]
      /\ \A x \in Nodes : f.data[x] = IF x = y THEN data ELSE fs.data[x]
  BY <1>1, MakeKeeps
<1>5. \A x, r : Stands(x, r) => fs'.kind[x] = fs.kind[x]
  BY <1>2, <1>4, PathsTyped DEF Stands
<1> QED
  BY <1>3, <1>4, <1>5, NewSafe

LEMMA MadeSafe ==
    ASSUME FileSystem(fs), SecretsHeld, SecretsOnly, Free # {}, NEW slot, NEW q, NEW p, SlotOf(slot, q, p), At(slot) = None,
           NEW kind \in {"dir", "file"}, NEW data \in Contents \cup {None}, data # "secret", fs' = Make(SlotPath(slot), kind, data)
    PROVE  Grows /\ Safe
<1>1. /\ SlotPath(slot) = q /\ q \in Seq(Names) /\ q # <<>> /\ Front(q) \in Paths /\ IsDir(fs.tree[Front(q)]) /\ q \notin Paths
  BY DEF SlotOf
<1>2. kind \in Kinds /\ kind # "free"
  BY DEF Kinds
<1>3. PICK f : f = Make(q, kind, data)
  OBVIOUS
<1>4. fs' = f
  BY <1>1, <1>3
<1> QED
  BY <1>1, <1>2, <1>3, <1>4, MakeSafe

LEMMA EraseSafe ==
    ASSUME FileSystem(fs), SecretsHeld, SecretsOnly, NEW p \in Paths, p # <<>>, Children(fs.tree[p]) = {}, fs' = Erase(p),
           \A s \in Secrets : p # s.path
    PROVE  /\ Safe /\ (\A x, q : Stands(x, q) /\ q # p => Stands(x, q)') /\ (\A x, q : Stands(x, q)' => Stands(x, q))
           /\ fs'.kind = fs.kind
<1>1. PICK f : f = fs'
  OBVIOUS
<1>2. /\ (\A q : q \in DOMAIN f.tree <=> q \in Paths /\ q # p)
      /\ \A q \in Paths \ {p} : f.tree[q] = fs.tree[q]
      /\ f.kind = fs.kind /\ f.data = fs.data
  BY <1>1, EraseKeeps
<1>3. /\ Tame /\ (\A x, q : Stands(x, q) /\ q # p => Stands(x, q)') /\ (\A x, q : Stands(x, q)' => Stands(x, q))
  BY <1>1, <1>2 DEF Tame, Stands, Paths
<1>4. SecretsHeld'
  BY <1>1, <1>2, <1>3 DEF SecretsHeld
<1>5. SecretsOnly'
  BY <1>1, <1>2 DEF SecretsOnly
<1> QED
  BY <1>1, <1>2, <1>3, <1>4, <1>5 DEF Safe

\* The directories above protected objects stay.
LEMMA WaysStay ==
    ASSUME FileSystem(fs), FileSystem(fs)', SecretsHeld, SecretWays, Tame, "rename" \in op'.effects <=> "rename" \in op.effects
    PROVE  SecretWays'
<1> SUFFICES ASSUME NEW p \in Paths', NEW q \in Paths', fs'.tree[q] \in SecretNodes, IsStrictPrefix(p, q),
                    "rename" \notin op.effects \/ \E s \in Secrets : q = s.path,
                    NEW t, t = fs'.tree[p]
             PROVE  t \in Fixed
  BY DEF SecretWays
<1>1. q \in Paths /\ fs.tree[q] \in SecretNodes
  <2>1. CASE "rename" \notin op.effects
    BY <2>1 DEF Tame, Stands, Paths
  <2>2. CASE \E s \in Secrets : q = s.path
    BY <2>2, SecretsAre DEF SecretsHeld, Stands
  <2> QED
    BY <2>1, <2>2
<1>2. q \in Seq(Names) /\ IsTree(fs.tree, fs.kind) /\ IsPrefix(p, q)
  BY <1>1, PathsTyped DEF FileSystem, IsStrictPrefix
<1>3. p \in Seq(Names)
  BY DEF FileSystem, IsTree, Paths
<1>4. p \in Paths
  BY <1>1, <1>2, <1>3, TreePrefix DEF Paths
<1>5. fs.tree[p] \in Fixed
  BY <1>1, <1>4 DEF SecretWays
<1> QED
  BY <1>4, <1>5 DEF Tame

-----------------------------------------------------------------------------
\* The steps that are left

\* The step that ends a call.
Ending(step) ==
    \/ step = "WriteData" /\ op.req.kind \in {"write", "patch"}
    \/ step = "VerifyNewParent" /\ op.req.kind = "mkdir"
    \/ step = "Unlink" /\ op.req.kind = "delete"
    \/ step = "VerifyMoved" /\ op.req.kind = "move"
    \/ step = "CopyData" /\ op.req.kind = "copy" /\ ~TreeCopy
    \/ step = "CopyTree" /\ TreeCopy

\* Which steps can come after it.
LEMMA AfterEnding ==
    ASSUME NEW step, Doing(step), op.todo \subseteq {Order[i] : i \in DOMAIN Order}
    PROVE  /\ step = "WriteData" => op.todo \subseteq {"WriteData", "CopyData", "DeleteTree", "Unlink", "Rename", "VerifyMoved", "ReadTree", "CopyTree"}
           /\ step = "VerifyNewParent" => op.todo \subseteq {"VerifyNewParent", "CreateDest", "VerifyDest", "ReadDest", "Truncate", "WriteData",
                  "CopyData", "DeleteTree", "Unlink", "Rename", "VerifyMoved", "ReadTree", "CopyTree"}
           /\ step = "Unlink" => op.todo \subseteq {"Unlink", "Rename", "VerifyMoved", "ReadTree", "CopyTree"}
           /\ step = "VerifyMoved" => op.todo \subseteq {"VerifyMoved", "ReadTree", "CopyTree"}
           /\ step = "CopyData" => op.todo \subseteq {"CopyData", "DeleteTree", "Unlink", "Rename", "VerifyMoved", "ReadTree", "CopyTree"}
           /\ step = "CopyTree" => op.todo \subseteq {"CopyTree"}
<1>1. step = "WriteData" => op.todo \subseteq {"WriteData", "CopyData", "DeleteTree", "Unlink", "Rename", "VerifyMoved", "ReadTree", "CopyTree"}
  BY DEF Doing, Order
<1>2. step = "VerifyNewParent" => op.todo \subseteq {"VerifyNewParent", "CreateDest", "VerifyDest", "ReadDest", "Truncate", "WriteData",
          "CopyData", "DeleteTree", "Unlink", "Rename", "VerifyMoved", "ReadTree", "CopyTree"}
  BY DEF Doing, Order
<1>3. step = "Unlink" => op.todo \subseteq {"Unlink", "Rename", "VerifyMoved", "ReadTree", "CopyTree"}
  BY DEF Doing, Order
<1>4. step = "VerifyMoved" => op.todo \subseteq {"VerifyMoved", "ReadTree", "CopyTree"}
  BY DEF Doing, Order
<1>5. step = "CopyData" => op.todo \subseteq {"CopyData", "DeleteTree", "Unlink", "Rename", "VerifyMoved", "ReadTree", "CopyTree"}
  BY DEF Doing, Order
<1>6. step = "CopyTree" => op.todo \subseteq {"CopyTree"}
  BY DEF Doing, Order
<1> QED
  BY <1>1, <1>2, <1>3, <1>4, <1>5, <1>6

\* The kind of a call excludes the steps of others.
LEMMA EndingIsLast ==
    ASSUME Plan, Remaining, NEW step, Doing(step), Ending(step)
    PROVE  op.todo = {step}
<1>1. step \in op.todo /\ op.todo \subseteq {Order[i] : i \in DOMAIN Order}
  BY DEF Doing, Plan
<1>2. /\ \A s \in op.todo : s \in {"CreateDest", "VerifyDest", "Truncate", "WriteData", "CopyData"} => Writes
      /\ "CopyData" \in op.todo => op.req.kind = "copy"
      /\ \A s \in op.todo : s \in {"Rename", "VerifyMoved"} => op.req.kind = "move"
      /\ \A s \in op.todo : s \in {"DeleteTree", "Unlink"} => op.req.kind = "delete"
      /\ \A s \in op.todo : s \in {"ReadTree", "CopyTree"} => TreeCopy
      /\ "ReadDest" \in op.todo => op.req.kind = "patch"
  BY DEF Plan, Remaining
<1>3. CASE step = "WriteData" /\ op.req.kind \in {"write", "patch"}
  BY <1>1, <1>2, <1>3, AfterEnding DEF TreeCopy
<1>4. CASE step = "VerifyNewParent" /\ op.req.kind = "mkdir"
  BY <1>1, <1>2, <1>4, AfterEnding DEF TreeCopy, Writes
<1>5. CASE step = "Unlink" /\ op.req.kind = "delete"
  BY <1>1, <1>2, <1>5, AfterEnding DEF TreeCopy
<1>6. CASE step = "VerifyMoved" /\ op.req.kind = "move"
  BY <1>1, <1>2, <1>6, AfterEnding DEF TreeCopy
<1>7. CASE step = "CopyData" /\ op.req.kind = "copy" /\ ~TreeCopy
  BY <1>1, <1>2, <1>7, AfterEnding
<1>8. CASE step = "CopyTree" /\ TreeCopy
  BY <1>1, <1>2, <1>8, AfterEnding
<1> QED
  BY <1>3, <1>4, <1>5, <1>6, <1>7, <1>8 DEF Ending

LEMMA SameCall ==
    ASSUME op'.req = op.req, op'.src = op.src, op'.dst = op.dst
    PROVE  /\ (HasDest' <=> HasDest) /\ (TreeCopy' <=> TreeCopy) /\ (Writes' <=> Writes)
           /\ (Identified' <=> Identified) /\ (Moving' <=> Moving) /\ (FileRead' <=> FileRead)
BY DEF HasDest, TreeCopy, Writes, Identified, Moving, FileRead

\* What a step of a call that goes on leaves.
LEMMA Left ==
    ASSUME NEW step, Goes(step), Plan, Remaining, Running'
    PROVE  /\ \A s \in op'.todo : s \in op.todo \/ s \in {"DeleteTree", "Unlink"}
           /\ \A s \in op.todo : s # step => s \in op'.todo
           /\ Ending(step) => step = "CopyTree" /\ op'.todo = op.todo
<1>1. Ending(step) => op.todo = {step}
  BY EndingIsLast DEF Goes
<1> QED
  BY <1>1 DEF Goes, Running, Ending

LEMMA InspectLeaves ==
    ASSUME Shaped(op), Inspect, Running'
    PROVE  "Unlink" \in op'.todo
<1>1. ASSUME NEW result, Stop(result) PROVE FALSE
  BY <1>1, StopEnds
<1>2. PICK more : "Unlink" \in more /\ Continue("Inspect", [op EXCEPT !.todo = @ \cup more])
  BY <1>1 DEF Inspect
<1>3. PICK o : o = [op EXCEPT !.todo = @ \cup more]
  OBVIOUS
<1>4. Shaped(o) /\ "Unlink" \in o.todo
  BY <1>2, <1>3 DEF Shaped
<1>5. op' = Advance("Inspect", o)
  BY <1>2, <1>3 DEF Continue
<1>6. o.todo # {"Inspect"} => op'.todo = o.todo \ {"Inspect"}
  BY <1>4, <1>5, AdvanceIs
<1> QED
  BY <1>4, <1>6

LEMMA RemainingKeeps ==
    ASSUME NEW step, Goes(step), Plan, Remaining, Running'
    PROVE  Remaining'
<1>1. /\ \A s \in op'.todo : s \in op.todo \/ s \in {"DeleteTree", "Unlink"}
      /\ \A s \in op.todo : s # step => s \in op'.todo
  BY Left
<1>2. /\ (TreeCopy' <=> TreeCopy) /\ (Moving' <=> Moving) /\ (FileRead' <=> FileRead) /\ op'.req = op.req
  BY SameCall DEF Goes
<1>3. Doing(step)
  BY DEF Goes
<1>4. /\ step = "CheckSourceLinks" => "OpenSource" \notin op.todo /\ "VerifySource" \notin op.todo
      /\ step = "ScanSource" => "OpenSource" \notin op.todo /\ "VerifySource" \notin op.todo
      /\ step = "VerifySource" => "OpenSource" \notin op.todo
      /\ step = "VerifySourceParent" => "PinSourceParent" \notin op.todo
      /\ step = "OpenChild" => "PinSourceParent" \notin op.todo /\ "VerifySourceParent" \notin op.todo
      /\ step = "Inspect" => "VerifySourceParent" \notin op.todo /\ "OpenChild" \notin op.todo
      /\ step = "CheckMoved" => "VerifySourceParent" \notin op.todo /\ "OpenChild" \notin op.todo
      /\ step = "Rename" => "VerifySourceParent" \notin op.todo /\ "OpenChild" \notin op.todo /\ "CheckMoved" \notin op.todo
      /\ step = "CheckDestLinks" => "OpenDest" \notin op.todo
  BY <1>3, Before
<1>5. /\ "OpenSource" \in op.todo => "VerifySource" \in op.todo
      /\ "PinSourceParent" \in op.todo => "VerifySourceParent" \in op.todo
      /\ "OpenDest" \in op.todo => "CheckDestLinks" \in op.todo
      /\ "VerifySourceParent" \in op.todo => "OpenChild" \in op.todo
      /\ "ReadDest" \in op.todo => op.req.kind = "patch"
  BY DEF Remaining
<1>6. (op.todo \cap {"OpenSource", "VerifySource"} # {} /\ FileRead => "CheckSourceLinks" \in op.todo)'
  BY <1>1, <1>2, <1>4 DEF Remaining
<1>7. (op.todo \cap {"OpenSource", "VerifySource"} # {} /\ TreeCopy => "ScanSource" \in op.todo)'
  BY <1>1, <1>2, <1>4 DEF Remaining
<1>8. /\ ("OpenSource" \in op.todo => "VerifySource" \in op.todo)'
      /\ ("PinSourceParent" \in op.todo => "VerifySourceParent" \in op.todo)'
      /\ ("OpenDest" \in op.todo => "CheckDestLinks" \in op.todo)'
      /\ ("VerifySourceParent" \in op.todo => "OpenChild" \in op.todo)'
      /\ ("ReadDest" \in op.todo => op.req.kind = "patch")'
  BY <1>1, <1>2, <1>4, <1>5
<1>9. ("OpenChild" \in op.todo /\ op.req.kind = "delete" => "Inspect" \in op.todo)'
  BY <1>1, <1>2, <1>4 DEF Remaining
<1>10. ("OpenChild" \in op.todo /\ op.req.kind = "move" => "CheckMoved" \in op.todo)'
  BY <1>1, <1>2, <1>4 DEF Remaining
<1>11. (op.todo \cap {"OpenSource", "VerifySource"} # {} => ~Moving)'
  BY <1>1, <1>2 DEF Remaining
<1>12. (op.req.kind = "move" /\ op.todo \cap {"PinSourceParent", "VerifySourceParent", "OpenChild", "CheckMoved"} # {} => "Rename" \in op.todo)'
  BY <1>1, <1>2, <1>4, <1>5 DEF Remaining
<1> QED
  BY <1>6, <1>7, <1>8, <1>9, <1>10, <1>11, <1>12 DEF Remaining

LEMMA LastStepKeeps ==
    ASSUME NEW step, Goes(step), Plan, Remaining, LastStep, Running', step = "Inspect" => "Unlink" \in op'.todo
    PROVE  LastStep'
<1>1. /\ \A s \in op.todo : s # step => s \in op'.todo
      /\ Ending(step) => step = "CopyTree" /\ op'.todo = op.todo
  BY Left
<1>2. (TreeCopy' <=> TreeCopy) /\ op'.req = op.req
  BY SameCall DEF Goes
<1>3. (op.req.kind \in {"write", "patch"} => "WriteData" \in op.todo)'
  BY <1>1, <1>2 DEF LastStep, Ending
<1>4. (op.req.kind = "mkdir" => "VerifyNewParent" \in op.todo)'
  BY <1>1, <1>2 DEF LastStep, Ending
<1>5. (op.req.kind = "delete" => op.todo \cap {"Inspect", "Unlink"} # {})'
  BY <1>1, <1>2 DEF LastStep, Ending
<1>6. (op.req.kind = "move" => "VerifyMoved" \in op.todo)'
  BY <1>1, <1>2 DEF LastStep, Ending
<1>7. (op.req.kind = "copy" /\ ~TreeCopy => "CopyData" \in op.todo)'
  BY <1>1, <1>2 DEF LastStep, Ending
<1>8. (TreeCopy => "CopyTree" \in op.todo)'
  BY <1>1, <1>2 DEF LastStep, Ending
<1> QED
  BY <1>3, <1>4, <1>5, <1>6, <1>7, <1>8 DEF LastStep

LEMMA JudgedKeeps ==
    ASSUME op'.req = op.req, op'.src = op.src, op'.dst = op.dst, Judged
    PROVE  Judged'
<1>1. HasDest' <=> HasDest
  BY SameCall
<1>2. ASSUME NEW p, NEW q, p = q, Denied(p)' PROVE Denied(q)
  BY <1>2 DEF Denied, ClassOf, ProtectedPath
<1> QED
  BY <1>1, <1>2 DEF Judged

-----------------------------------------------------------------------------
\* What the checks of names find

LEMMA DeniedIs == \A p, mutation : Evaluate(p, mutation) = "Deny" <=> Denied(p)
BY DEF Evaluate, Denied

LEMMA SecretsDenied == \A s \in Secrets : Denied(s.path)
BY SecretsAssumption, DeniedIs

LEMMA TwoNames ==
    ASSUME FileSystem(fs), NEW x, NEW p, NEW q, Stands(x, p), Stands(x, q), p # q
    PROVE  Links(x) > 1
<1>1. IsFiniteSet(NamesOf(x)) /\ p \in NamesOf(x) /\ q \in NamesOf(x)
  <2>1. IsFiniteSet(Paths) /\ NamesOf(x) \subseteq Paths
    BY DEF FileSystem, IsTree, Paths, NamesOf
  <2> QED
    BY <2>1, FS_Subset DEF NamesOf, Stands
<1>2. PICK T : T = NamesOf(x) \ {p}
  OBVIOUS
<1>3. IsFiniteSet(T) /\ Cardinality(T) = Cardinality(NamesOf(x)) - 1
  BY <1>1, <1>2, FS_RemoveElement
<1>4. Cardinality(T) \in Nat /\ Cardinality(T) # 0
  BY <1>1, <1>2, <1>3, FS_CardinalityType, FS_EmptySet
<1>5. Cardinality(NamesOf(x)) \in Nat
  BY <1>1, FS_CardinalityType
<1> QED
  BY <1>3, <1>4, <1>5 DEF Links

\* A protected object that is found by another path than its own is found to
\* have a name that is denied.
LEMMA LinksProtect ==
    ASSUME FileSystem(fs), SecretsHeld, NEW x \in SecretNodes, NEW p, Stands(x, p), \A s \in Secrets : s.path # p, NEW mutation
    PROVE  ~LinksAllowed(p, Links(x), mutation)
<1>1. PICK s \in Secrets : s.node = x /\ Stands(x, s.path) /\ fs.kind[x] = "file"
  BY SecretIs
<1>2. Denied(s.path) /\ s.path # p
  BY SecretsDenied
<1>3. Links(x) > 1
  BY <1>1, <1>2, TwoNames
<1>4. p \in Paths /\ fs.tree[p] = x /\ ~IsLink(x)
  BY <1>1 DEF Stands, IsLink
<1>5. OpenPath(p, TRUE) = Found(HandleAt(p), <<>>)
  BY <1>4, LookupThere
<1>6. HandleAt(p).node = x
  BY <1>4, HandleAtIs
<1>7. OpenPath(p, TRUE).h.node = x
  <2>1. PICK h : h = HandleAt(p)
    OBVIOUS
  <2>2. PICK w : w = OpenPath(p, TRUE)
    OBVIOUS
  <2>3. w = [ok |-> TRUE, h |-> h, rest |-> <<>>]
    BY <1>5, <2>1, <2>2 DEF Found
  <2>4. w.h = h
    BY <2>3
  <2> QED
    BY <1>6, <2>1, <2>2, <2>4
<1>8. s.path \in NamesOf(x)
  BY <1>1 DEF Stands, NamesOf
<1>9. Evaluate(s.path, mutation) = "Deny"
  BY <1>2, DeniedIs
<1> QED
  BY <1>3, <1>7, <1>8, <1>9 DEF LinksAllowed

-----------------------------------------------------------------------------
\* The file that is written

LEMMA OpenDestFinds ==
    ASSUME BrokerInv, OpenDest, Running'
    PROVE  fs' = fs /\ Stands(op'.h2.node, op.dst.path) /\ ~IsDir(op'.h2.node)
<1>1. Doing("OpenDest") /\ FileSystem(fs) /\ Shaped(op) /\ CallInv
  BY DEF OpenDest, BrokerInv, Doing, Running
<1>2. PICK slot, x : /\ slot = <<op.p2.node, Last(op.dst.path)>> /\ x = At(slot) /\ x # None /\ ~IsDir(x)
                     /\ Continue("OpenDest", [op EXCEPT !.h2 = Handle(x, slot)])
  <2>1. ASSUME NEW result, Stop(result) PROVE FALSE
    BY <1>1, <2>1, StopEnds
  <2> QED
    BY <2>1 DEF OpenDest
<1>3. op'.h2.node = x /\ fs' = fs
  <2>1. PICK h : h = Handle(x, slot)
    OBVIOUS
  <2>2. PICK o : o = [op EXCEPT !.h2 = h]
    OBVIOUS
  <2>3. Shaped(o) /\ o.h2 = h /\ op' = Advance("OpenDest", o) /\ fs' = fs
    BY <1>1, <1>2, <2>1, <2>2 DEF Shaped, Continue
  <2>4. op'.h2 = h
    BY <2>3, AdvanceIs
  <2> QED
    BY <2>1, <2>3, <2>4 DEF Handle
<1>4. HasDest /\ op.dst.exists /\ "VerifyDestParent" \notin op.todo /\ op.dst.path \in Seq(Names) /\ op.dst.path # <<>>
      /\ op.req.kind # "move"
  <2>1. "OpenDest" \in op.todo /\ "VerifyDestParent" \notin op.todo
    BY <1>1, Before DEF Doing
  <2>2. Writes /\ op.dst.exists /\ Plan
    BY <1>1, <2>1 DEF CallInv, Plan
  <2>3. HasDest /\ op.req.kind # "move"
    BY <2>2 DEF Writes, HasDest
  <2> QED
    BY <1>1, <2>1, <2>2, <2>3, NewParentIs DEF Plan
<1>5. Stands(op.p2.node, Front(op.dst.path)) /\ Last(op.dst.path) \in Names
      /\ Append(Front(op.dst.path), Last(op.dst.path)) = op.dst.path
  BY <1>1, <1>4, NewParentIs, FrontIs DEF CallInv, ParentHeld
<1>6. PICK d, name : d = op.p2.node /\ name = Last(op.dst.path)
  OBVIOUS
<1>7. SlotPath(slot) \in Paths /\ fs.tree[SlotPath(slot)] = x /\ slot = <<d, name>> /\ name \in Names
  BY <1>2, <1>5, <1>6 DEF At
<1>8. IsDir(d)
  BY <1>1, <1>7, SlotFound
<1>9. SlotPath(slot) = op.dst.path
  BY <1>1, <1>5, <1>6, <1>7, <1>8, SlotOfDir
<1> QED
  BY <1>2, <1>3, <1>7, <1>9 DEF Stands

LEMMA CreateDestMakes ==
    ASSUME BrokerInv, SecretsHeld, CreateDest, Running'
    PROVE  fs'.kind[op'.h2.node] = "file" /\ op'.h2.node \notin SecretNodes
<1>1. Doing("CreateDest") /\ FileSystem(fs) /\ Shaped(op) /\ CallInv
  BY DEF CreateDest, BrokerInv, Doing, Running
<1>2. PICK slot, y, f : /\ slot = <<op.p2.node, Last(op.dst.tail)>> /\ y = Fresh /\ f = Make(SlotPath(slot), "file", "empty")
                        /\ Free # {} /\ Change("CreateDest", f, [op EXCEPT !.h2 = Handle(y, slot)], "create")
  <2>1. ASSUME NEW result, Stop(result) PROVE FALSE
    BY <1>1, <2>1, StopEnds
  <2> QED
    BY <2>1 DEF CreateDest
<1>3. fs' = f /\ op'.h2.node = y
  <2>1. PICK h : h = Handle(y, slot)
    OBVIOUS
  <2>2. PICK o : o = [[op EXCEPT !.h2 = h] EXCEPT !.effects = @ \cup {"create"}]
    OBVIOUS
  <2>3. Shaped(o) /\ o.h2 = h /\ op' = Advance("CreateDest", o) /\ fs' = f
    BY <1>1, <1>2, <2>1, <2>2 DEF Shaped, Change
  <2>4. op'.h2 = h
    BY <2>3, AdvanceIs
  <2> QED
    BY <2>1, <2>3, <2>4 DEF Handle
<1>4. y \in Nodes /\ fs.kind[y] = "free"
  BY <1>1, <1>2, FreshIs
<1>5. f.kind[y] = "file"
  BY <1>1, <1>2, <1>4 DEF Make, FileSystem
<1> QED
  BY <1>3, <1>4, <1>5, SecretIs

\* What a check that the call passed has found.
LEMMA CheckPassed ==
    ASSUME Shaped(op), NEW step, NEW c, NEW result, Check(step, c, result), Running'
    PROVE  c /\ fs' = fs
<1>1. Doing(step) /\ (c => Continue(step, op)) /\ (~c => Stop(result))
  BY DEF Check
<1>2. c
  BY <1>1, StopEnds
<1> QED
  BY <1>1, <1>2 DEF Continue

LEMMA ExistingDestSteps ==
    ASSUME Plan, Remaining, NEW step, Goes(step), Running', op.todo \cap {"OpenDest", "CheckDest"} # {}
    PROVE  step = "OpenDest" => "CheckDest" \in op'.todo /\ "CheckDestLinks" \in op'.todo
<1>1. \A s \in op.todo : s # step => s \in op'.todo
  BY Left
<1>2. step \in op.todo
  BY DEF Goes, Doing
<1> QED
  BY <1>1, <1>2 DEF Plan, Remaining

LEMMA DestKeeps ==
    ASSUME BrokerInv, FileSystem(fs)', BrokerInv', ProtectionInv, NEW step, Goes(step), StepIs(step), Running', Writes => Grows
    PROVE  DestOpened' /\ DestIsFile' /\ DestNotSecret'
<1>1. /\ Shaped(op) /\ FileSystem(fs) /\ CallInv /\ CallInv' /\ Remaining /\ Judged /\ SecretsHeld
      /\ DestOpened /\ DestIsFile /\ DestNotSecret /\ Plan
  BY DEF BrokerInv, ProtectionInv, Goes, Doing, Running, CallInv
<1>2. /\ (HasDest' <=> HasDest) /\ (Writes' <=> Writes) /\ op'.dst = op.dst /\ op'.src = op.src /\ op'.req = op.req
      /\ step \in op.todo /\ Doing(step)
      /\ step # "OpenDest" /\ step # "CreateDest" => op'.h2 = op.h2
  BY SameCall DEF Goes, Doing
<1>3. \A s \in op.todo : s # step => s \in op'.todo
  BY <1>1, Left
<1> SUFFICES ASSUME Writes
             PROVE  DestOpened' /\ DestIsFile' /\ DestNotSecret'
  BY <1>2 DEF DestOpened, DestIsFile, DestNotSecret
<1>4. PICK h : h = op'.h2.node
  OBVIOUS
<1>5. ASSUME step \notin {"OpenDest", "CreateDest"}, op.todo \cap {"OpenDest", "CreateDest"} = {}
      PROVE  /\ op.h2.node = h /\ Stands(h, op.dst.path) /\ Stands(h, op.dst.path)' /\ fs.kind[h] # "dir"
             /\ fs'.kind[h] = fs.kind[h]
  BY <1>1, <1>2, <1>4, <1>5 DEF DestOpened, Grows, IsDir
<1>6. CASE step = "OpenDest"
  <2>1. OpenDest
    BY <1>6 DEF StepIs
  <2>2. fs' = fs /\ Stands(h, op.dst.path) /\ ~IsDir(h)
    BY <1>4, <2>1, OpenDestFinds
  <2>3. DestOpened'
    BY <1>2, <1>4, <2>2 DEF DestOpened, Stands, Paths, IsDir
  <2>4. "CheckDest" \in op'.todo /\ "CheckDestLinks" \in op'.todo
    BY <1>1, <1>2, <1>6, ExistingDestSteps
  <2> QED
    BY <2>3, <2>4 DEF DestIsFile, DestNotSecret
<1>7. CASE step = "CreateDest"
  <2>1. CreateDest
    BY <1>7 DEF StepIs
  <2>2. fs'.kind[h] = "file" /\ h \notin SecretNodes
    BY <1>1, <1>4, <2>1, CreateDestMakes
  <2>3. ~op.dst.exists
    BY <1>1, <1>2, <1>7 DEF Plan
  <2>4. "CreateDest" \notin op'.todo
    BY <1>2, <1>7 DEF Goes
  <2>5. Stands(op.h2.node, op.dst.path)'
    BY <1>1, <1>2, <2>3, <2>4 DEF CallInv, NewHeld
  <2> QED
    BY <1>4, <2>2, <2>5 DEF DestOpened, DestIsFile, DestNotSecret, IsDir
<1>8. CASE step \notin {"OpenDest", "CreateDest"}
  <2>1. DestOpened'
    <3>1. op'.todo \cap {"OpenDest", "CreateDest"} = {} => op.todo \cap {"OpenDest", "CreateDest"} = {}
      BY <1>3, <1>8
    <3> QED
      BY <1>2, <1>4, <1>5, <1>8, <3>1 DEF DestOpened, IsDir
  <2>2. DestIsFile'
    <3> SUFFICES ASSUME op'.todo \cap {"OpenDest", "CheckDest", "CreateDest"} = {}
                 PROVE  fs'.kind[h] = "file"
      BY <1>2, <1>4 DEF DestIsFile
    <3>1. op.todo \cap {"OpenDest", "CreateDest"} = {} /\ ("CheckDest" \in op.todo => step = "CheckDest")
      BY <1>3, <1>8
    <3>2. /\ op.h2.node = h /\ Stands(h, op.dst.path) /\ fs.kind[h] # "dir" /\ fs'.kind[h] = fs.kind[h]
      BY <1>5, <1>8, <3>1
    <3>3. CASE step = "CheckDest"
      <4>1. CheckDest
        BY <3>3 DEF StepIs
      <4>2. ~IsLink(op.h2.node)
        BY <1>1, <4>1, CheckPassed DEF CheckDest
      <4>3. fs.kind[h] \in Kinds /\ fs.kind[h] # "free"
        BY <1>1, <3>2 DEF FileSystem, IsTree, Stands, Paths
      <4> QED
        BY <3>2, <4>2, <4>3 DEF IsLink, Kinds
    <3>4. CASE step # "CheckDest"
      BY <1>1, <3>1, <3>2, <3>4 DEF DestIsFile
    <3> QED
      BY <3>3, <3>4
  <2>3. DestNotSecret'
    <3> SUFFICES ASSUME op'.todo \cap {"OpenDest", "CheckDestLinks", "CreateDest"} = {}
                 PROVE  h \notin SecretNodes
      BY <1>2, <1>4 DEF DestNotSecret
    <3>1. op.todo \cap {"OpenDest", "CreateDest"} = {} /\ ("CheckDestLinks" \in op.todo => step = "CheckDestLinks")
      BY <1>3, <1>8
    <3>2. op.h2.node = h /\ Stands(h, op.dst.path)
      BY <1>5, <1>8, <3>1
    <3>3. CASE step = "CheckDestLinks"
      <4>1. CheckDestLinks
        BY <3>3 DEF StepIs
      <4>2. LinksAllowed(op.dst.path, Links(op.h2.node), TRUE)
        <5> DEFINE c == LinksAllowed(op.dst.path, Links(op.h2.node), TRUE)
        <5>1. Check("CheckDestLinks", c, "denied")
          BY <4>1 DEF CheckDestLinks
        <5> HIDE DEF c
        <5>2. c
          BY <1>1, <5>1, CheckPassed
        <5> QED
          BY <5>2 DEF c
      <4>3. ~Denied(op.dst.path)
        BY <1>1 DEF Judged, Writes, HasDest
      <4> QED
        BY <1>1, <3>2, <4>2, <4>3, LinksProtect, SecretsDenied
    <3>4. CASE step # "CheckDestLinks"
      BY <1>1, <3>1, <3>2, <3>4 DEF DestNotSecret
    <3> QED
      BY <3>3, <3>4
  <2> QED
    BY <2>1, <2>2, <2>3
<1> QED
  BY <1>6, <1>7, <1>8

-----------------------------------------------------------------------------
\* The file or the tree that is read

LEMMA SourceTyped == ASSUME Plan PROVE op.src.path \in Seq(Names)
BY ConcatIs DEF Plan, CanonicalPath

LEMMA SourceReadKeeps ==
    ASSUME BrokerInv, ProtectionInv, NEW step, Goes(step), StepIs(step), Running', FileRead => Grows
    PROVE  SourceRead'
<1>1. /\ Shaped(op) /\ FileSystem(fs) /\ CallInv /\ Remaining /\ Judged /\ SecretsHeld /\ SourceRead /\ Plan
  BY DEF BrokerInv, ProtectionInv, Goes, Doing, Running, CallInv
<1>2. /\ (FileRead' <=> FileRead) /\ op'.src = op.src /\ step \in op.todo /\ Doing(step)
      /\ step # "OpenSource" /\ step # "OpenChild" => op'.h1 = op.h1
  BY SameCall DEF Goes, Doing
<1>3. \A s \in op.todo : s # step => s \in op'.todo
  BY <1>1, Left
<1> SUFFICES ASSUME FileRead
             PROVE  SourceRead'
  BY <1>2 DEF SourceRead
<1>4. PICK h : h = op'.h1.node
  OBVIOUS
<1>5. op'.h1 = op.h1 \/ step = "OpenSource"
  BY <1>1, <1>2 DEF Plan, FileRead
<1>6. CASE step = "OpenSource"
  <2>1. "VerifySource" \in op'.todo /\ "CheckSourceLinks" \in op'.todo
    BY <1>1, <1>2, <1>3, <1>6 DEF Remaining
  <2> QED
    BY <2>1 DEF SourceRead
<1>7. CASE step # "OpenSource"
  <2>1. op.h1.node = h
    BY <1>4, <1>5, <1>7
  <2>2. ASSUME "VerifySource" \notin op'.todo, h \in SecretNodes
        PROVE  Stands(h, op.src.path) /\ Stands(h, op.src.path)'
    <3>1. Stands(h, op.src.path)
      <4>1. CASE step = "VerifySource"
        <5>1. VerifySource
          BY <4>1 DEF StepIs
        <5> DEFINE c == FinalPath(op.h1) = op.src.path
        <5>2. Check("VerifySource", c, "changed")
          BY <5>1 DEF VerifySource
        <5> HIDE DEF c
        <5>3. c
          BY <1>1, <5>2, CheckPassed
        <5> QED
          BY <1>1, <2>1, <5>3, SourceTyped, FinalPathIs DEF c
      <4>2. CASE step # "VerifySource"
        BY <1>1, <1>3, <2>1, <2>2, <4>2 DEF SourceRead
      <4> QED
        BY <4>1, <4>2
    <3> QED
      BY <1>2, <3>1 DEF Grows, Stands, Paths
  <2>3. ASSUME "CheckSourceLinks" \notin op'.todo
        PROVE  h \notin SecretNodes
    <3>1. CASE step = "CheckSourceLinks"
      <4>1. CheckSourceLinks
        BY <3>1 DEF StepIs
      <4>2. LinksAllowed(op.src.path, Links(op.h1.node), FALSE)
        <5> DEFINE c == LinksAllowed(op.src.path, Links(op.h1.node), FALSE)
        <5>1. Check("CheckSourceLinks", c, "denied")
          BY <4>1 DEF CheckSourceLinks
        <5> HIDE DEF c
        <5>2. c
          BY <1>1, <5>1, CheckPassed
        <5> QED
          BY <5>2 DEF c
      <4>3. ~Denied(op.src.path)
        BY <1>1 DEF Judged, FileRead
      <4>4. "VerifySource" \notin op'.todo
        BY <1>2, <3>1, Before DEF Goes
      <4> QED
        BY <1>1, <2>1, <2>2, <4>2, <4>3, <4>4, LinksProtect, SecretsDenied
    <3>2. CASE step # "CheckSourceLinks"
      BY <1>1, <1>3, <2>1, <2>3, <3>2 DEF SourceRead
    <3> QED
      BY <3>1, <3>2
  <2>4. op'.src.path = op.src.path
    BY <1>2
  <2> QED
    BY <1>4, <2>2, <2>3, <2>4 DEF SourceRead
<1> QED
  BY <1>6, <1>7

LEMMA TreeSourceKeeps ==
    ASSUME BrokerInv, ProtectionInv, NEW step, Goes(step), StepIs(step), Running', TreeCopy => Grows
    PROVE  TreeSource'
<1>1. /\ Shaped(op) /\ FileSystem(fs) /\ CallInv /\ Remaining /\ SecretsHeld /\ TreeSource /\ Plan
  BY DEF BrokerInv, ProtectionInv, Goes, Doing, Running, CallInv
<1>2. /\ (TreeCopy' <=> TreeCopy) /\ op'.src = op.src /\ step \in op.todo /\ Doing(step)
      /\ step # "OpenSource" /\ step # "OpenChild" => op'.h1 = op.h1
  BY SameCall DEF Goes, Doing
<1>3. \A s \in op.todo : s # step => s \in op'.todo
  BY <1>1, Left
<1> SUFFICES ASSUME TreeCopy
             PROVE  TreeSource'
  BY <1>2 DEF TreeSource
<1>4. op'.h1 = op.h1 \/ step = "OpenSource"
  BY <1>1, <1>2 DEF Plan, TreeCopy
<1>5. CASE step = "OpenSource"
  <2>1. "VerifySource" \in op'.todo /\ "ScanSource" \in op'.todo
    BY <1>1, <1>2, <1>3, <1>5 DEF Remaining
  <2> QED
    BY <2>1 DEF TreeSource
<1>6. CASE step # "OpenSource"
  <2>1. PICK h : h = op.h1.node /\ h = op'.h1.node
    BY <1>4, <1>6
  <2>2. ASSUME "VerifySource" \notin op'.todo
        PROVE  Stands(h, op.src.path) /\ Stands(h, op.src.path)'
    <3>1. Stands(h, op.src.path)
      <4>1. CASE step = "VerifySource"
        <5>1. VerifySource
          BY <4>1 DEF StepIs
        <5> DEFINE c == FinalPath(op.h1) = op.src.path
        <5>2. Check("VerifySource", c, "changed")
          BY <5>1 DEF VerifySource
        <5> HIDE DEF c
        <5>3. c
          BY <1>1, <5>2, CheckPassed
        <5> QED
          BY <1>1, <2>1, <5>3, SourceTyped, FinalPathIs DEF c
      <4>2. CASE step # "VerifySource"
        BY <1>1, <1>3, <2>1, <2>2, <4>2 DEF TreeSource
      <4> QED
        BY <4>1, <4>2
    <3> QED
      BY <1>2, <3>1 DEF Grows, Stands, Paths
  <2>3. ASSUME "ScanSource" \notin op'.todo, NEW s \in Secrets
        PROVE  ~IsStrictPrefix(op.src.path, s.path)
    <3>1. CASE step = "ScanSource"
      <4>1. ScanSource
        BY <3>1 DEF StepIs
      <4>2. \A p \in Under(h) : IsLink(fs.tree[p]) \/ Evaluate(p, FALSE) # "Deny"
        <5>1. ASSUME NEW result, Stop(result) PROVE FALSE
          BY <1>1, <5>1, StopEnds
        <5> QED
          BY <2>1, <4>1, <5>1 DEF ScanSource
      <4>3. "VerifySource" \notin op'.todo
        BY <1>2, <3>1, Before DEF Goes
      <4>4. Stands(h, op.src.path)
        BY <2>2, <4>3
      <4>5. Stands(s.node, s.path) /\ fs.kind[s.node] = "file" /\ Evaluate(s.path, FALSE) = "Deny"
        BY <1>1, SecretsDenied, DeniedIs DEF SecretsHeld
      <4>6. ~(s.path \in Under(h))
        BY <4>2, <4>5 DEF Stands, IsLink
      <4> QED
        BY <4>4, <4>5, <4>6 DEF Under, NamesOf, Stands
    <3>2. CASE step # "ScanSource"
      BY <1>1, <1>3, <2>3, <3>2 DEF TreeSource
    <3> QED
      BY <3>1, <3>2
  <2>4. op'.src.path = op.src.path
    BY <1>2
  <2> QED
    BY <2>1, <2>2, <2>3, <2>4 DEF TreeSource
<1> QED
  BY <1>5, <1>6

-----------------------------------------------------------------------------
\* The tree that is copied

LEMMA AppendExtends ==
    ASSUME NEW p \in Seq(Names), NEW x \in Names, NEW q, q = Append(p, x)
    PROVE  IsStrictPrefix(p, q) /\ q \in Seq(Names)
<1>1. q \in Seq(Names) /\ Len(q) = Len(p) + 1 /\ Len(p) \in Nat
  BY AppendIs, LenProperties
<1>2. First(q, Len(p)) = p /\ Len(p) \in 0 .. Len(q)
  <2>1. Len(p) \in 0 .. Len(p) /\ Len(p) \in 0 .. Len(q)
    BY <1>1
  <2>2. First(q, Len(p)) = First(p, Len(p))
    BY <2>1, AppendIs
  <2> QED
    BY <2>1, <2>2, FirstAll
<1>3. IsPrefix(p, q)
  BY <1>1, <1>2, FirstIsPrefix
<1> QED
  BY <1>1, <1>3 DEF IsStrictPrefix

LEMMA PrefixLen ==
    ASSUME NEW p \in Seq(Names), NEW q \in Seq(Names), IsPrefix(p, q)
    PROVE  Len(p) \in Nat /\ Len(q) \in Nat /\ Len(p) <= Len(q) /\ (Len(p) = Len(q) => p = q)
<1>1. Len(p) \in 0 .. Len(q) /\ p = First(q, Len(p)) /\ Len(q) \in Nat
  BY PrefixIs, LenProperties
<1> QED
  BY <1>1, FirstAll

LEMMA StrictTrans ==
    ASSUME NEW p \in Seq(Names), NEW q \in Seq(Names), NEW r \in Seq(Names), IsPrefix(p, q), IsPrefix(q, r), p # q \/ q # r
    PROVE  IsStrictPrefix(p, r)
<1>1. IsPrefix(p, r)
  BY PrefixTrans
<1>2. /\ Len(p) \in Nat /\ Len(q) \in Nat /\ Len(r) \in Nat /\ Len(p) <= Len(q) /\ Len(q) <= Len(r)
      /\ (Len(p) = Len(q) => p = q) /\ (Len(q) = Len(r) => q = r)
  BY PrefixLen
<1>3. ASSUME p = r PROVE FALSE
  <2>1. Len(p) = Len(r)
    BY <1>3
  <2> QED
    BY <1>2, <2>1
<1> QED
  BY <1>1, <1>3 DEF IsStrictPrefix

\* A new name is not one of a protected object.
LEMMA LeadsBack ==
    ASSUME FileSystem(fs), FileSystem(fs)', Tame, "rename" \notin op.effects, NEW x, Leads(x)'
    PROVE  Leads(x)
<1>1. PICK p, q \in Paths' : fs'.tree[p] = x /\ fs'.tree[q] \in SecretNodes /\ IsStrictPrefix(p, q)
  BY DEF Leads
<1>2. q \in Paths /\ fs.tree[q] \in SecretNodes
  BY <1>1 DEF Tame, Stands, Paths
<1>3. q \in Seq(Names) /\ IsTree(fs.tree, fs.kind) /\ IsPrefix(p, q) /\ p \in Seq(Names)
  BY <1>1, <1>2 DEF FileSystem, IsTree, IsStrictPrefix, Paths
<1>4. p \in Paths
  BY <1>2, <1>3, TreePrefix DEF Paths
<1>5. fs.tree[p] = x
  BY <1>1, <1>4 DEF Tame
<1> QED
  BY <1>1, <1>2, <1>4, <1>5 DEF Leads

\* Where a job finds what leads to a protected object.
LEMMA JobFinds ==
    ASSUME FileSystem(fs), NEW e \in Jobs, JobIsAt(e), NEW x, x = At(<<e.from, e.name>>), x # None,
           x \in SecretNodes \/ (IsDir(x) /\ Leads(x))
    PROVE  Stands(x, e.path)
<1>1. PICK d, name : d = e.from /\ name = e.name
  OBVIOUS
<1>2. PICK P : P = SlotPath(<<d, name>>)
  OBVIOUS
<1>3. P \in Paths /\ fs.tree[P] = x
  BY <1>1, <1>2 DEF At
<1>4. name \in Names /\ e.path \in Seq(Names)
  BY <1>1 DEF Jobs
<1>5. PICK D : D = PathOf(d)
  OBVIOUS
<1>6. Stands(d, D) /\ IsDir(d) /\ P = Append(D, name)
  BY <1>2, <1>3, <1>4, <1>5, SlotFound
<1>7. D \in Seq(Names) /\ P \in Seq(Names) /\ IsPrefix(D, P) /\ D # P
  BY <1>3, <1>4, <1>6, PathsTyped, AppendExtends DEF Stands, IsStrictPrefix
<1>8. Leads(d)
  <2>1. CASE x \in SecretNodes
    BY <1>3, <1>6, <1>7, <2>1 DEF Leads, Stands, IsStrictPrefix
  <2>2. CASE IsDir(x) /\ Leads(x)
    <3>1. PICK p, q \in Paths : fs.tree[p] = x /\ fs.tree[q] \in SecretNodes /\ IsStrictPrefix(p, q)
      BY <2>2 DEF Leads
    <3>2. p = P
      BY <1>3, <2>2, <3>1 DEF FileSystem, IsTree, IsDir, Paths
    <3>3. q \in Seq(Names) /\ IsPrefix(P, q)
      BY <3>1, <3>2, PathsTyped DEF IsStrictPrefix
    <3>4. IsStrictPrefix(D, q)
      BY <1>7, <3>3, StrictTrans
    <3> QED
      BY <1>6, <3>1, <3>4 DEF Leads, Stands
  <2> QED
    BY <2>1, <2>2
<1>9. PICK F : F = Front(e.path)
  OBVIOUS
<1>10. Stands(d, F) /\ e.path = Append(F, name)
  BY <1>1, <1>4, <1>8, <1>9, FrontIs DEF JobIsAt
<1>11. F = D
  BY <1>6, <1>10, DirPath DEF Stands, NamesOf
<1> QED
  BY <1>3, <1>6, <1>10, <1>11 DEF Stands

\* What a step of the copy does.
CopiesOne(e, kind, data, more) ==
    /\ op.pending # <<>> /\ e = Head(op.pending) /\ e \in Jobs /\ more \in Seq(Jobs)
    /\ op' = [op EXCEPT !.pending = more \o Tail(@), !.effects = @ \cup {"create"}]
    /\ Free # {} /\ At(<<e.to, e.name>>) = None /\ fs' = Make(SlotPath(<<e.to, e.name>>), kind, data)
    /\ At(<<e.from, e.name>>) # None
    /\ \/ /\ kind = "file" /\ data = fs.data[At(<<e.from, e.name>>)] /\ more = <<>>
          /\ LinksAllowed(e.path, Links(At(<<e.from, e.name>>)), FALSE)
       \/ /\ kind = "dir" /\ data = None /\ IsDir(At(<<e.from, e.name>>))
          /\ \A i \in DOMAIN more : more[i].from = At(<<e.from, e.name>>) /\ more[i].path = Append(e.path, more[i].name)

LEMMA CopyTreeIs ==
    ASSUME BrokerInv, CopyTree
    PROVE  \/ fs' = fs /\ (Continue("CopyTree", op) \/ \E result : Stop(result))
           \/ fs' = fs /\ op.pending # <<>> /\ op' = [op EXCEPT !.pending = Tail(@)]
           \/ \E e, kind, data, more : CopiesOne(e, kind, data, more)
<1>1. Doing("CopyTree") /\ FileSystem(fs)
  BY DEF CopyTree, BrokerInv
<1>2. CASE Continue("CopyTree", op) \/ \E result : Stop(result)
  BY <1>2 DEF Continue, Stop
<1>3. CASE op.pending # <<>> /\ ~(\E result : Stop(result))
  <2>1. PICK e, slot, src, x : e = Head(op.pending) /\ slot = <<e.to, e.name>> /\ src = <<e.from, e.name>> /\ x = At(src)
    OBVIOUS
  <2>2. e \in Jobs /\ (x # None => x \in Nodes)
    BY <1>1, <1>3, <2>1, NextJob
  <2> DEFINE Copied(kind, data, more) ==
                 /\ At(slot) = None /\ Free # {}
                 /\ fs' = Make(SlotPath(slot), kind, data)
                 /\ op' = [op EXCEPT !.pending = more \o Tail(@), !.effects = @ \cup {"create"}]
  <2>3. /\ x # None
        /\ \/ op' = [op EXCEPT !.pending = Tail(@)] /\ fs' = fs
           \/ IsDir(x) /\ Copied("dir", None, Entries(x, Fresh, e.path))
           \/ LinksAllowed(e.path, Links(x), FALSE) /\ Copied("file", fs.data[x], <<>>)
    BY <1>3, <2>1 DEF CopyTree
  <2>4. CASE op' = [op EXCEPT !.pending = Tail(@)] /\ fs' = fs
    BY <1>3, <2>4
  <2>5. CASE IsDir(x) /\ Copied("dir", None, Entries(x, Fresh, e.path))
    <3>1. PICK more, y, path, kind, data : more = Entries(x, y, path) /\ y = Fresh /\ path = e.path /\ kind = "dir" /\ data = None
      OBVIOUS
    <3>2. y \in Nodes /\ x \in Nodes /\ path \in Seq(Names)
      BY <1>1, <2>2, <2>3, <2>5, <3>1, FreshIs DEF Jobs
    <3>3. more \in Seq(Jobs) /\ \A i \in DOMAIN more : more[i].from = x /\ more[i].path = Append(path, more[i].name)
      BY <1>1, <3>1, <3>2, EntriesAre
    <3>4. Copied(kind, data, more) /\ IsDir(x)
      BY <2>5, <3>1
    <3>5. CopiesOne(e, kind, data, more)
      BY <1>3, <2>1, <2>2, <2>3, <3>1, <3>3, <3>4 DEF CopiesOne
    <3> QED
      BY <3>5
  <2>6. CASE LinksAllowed(e.path, Links(x), FALSE) /\ Copied("file", fs.data[x], <<>>)
    <3>1. PICK data, more, kind : data = fs.data[x] /\ more = <<>> /\ kind = "file"
      OBVIOUS
    <3>2. Copied(kind, data, more) /\ LinksAllowed(e.path, Links(x), FALSE)
      BY <2>6, <3>1
    <3>4. more \in Seq(Jobs)
      BY <3>1
    <3>3. CopiesOne(e, kind, data, more)
      BY <1>3, <2>1, <2>2, <2>3, <3>1, <3>2, <3>4 DEF CopiesOne
    <3> QED
      BY <3>3
  <2> HIDE DEF Copied
  <2> QED
    BY <2>3, <2>4, <2>5, <2>6
<1>4. Continue("CopyTree", op) \/ op.pending # <<>>
  BY DEF CopyTree
<1> QED
  BY <1>2, <1>3, <1>4

LEMMA JobStays ==
    ASSUME FileSystem(fs), FileSystem(fs)', Grows, Tame, "rename" \notin op.effects, op'.src = op.src, NEW e, JobIsAt(e)
    PROVE  JobIsAt(e)'
<1>1. ASSUME NEW x, x = e.from, Leads(x)'
      PROVE  Stands(x, Front(e.path))'
  <2>1. Leads(x)
    BY <1>1, LeadsBack
  <2>2. Stands(x, Front(e.path))
    BY <1>1, <2>1 DEF JobIsAt
  <2> QED
    BY <2>2 DEF Grows
<1> QED
  BY <1>1 DEF JobIsAt

\* The entries of a directory of the tree.
LEMMA NewJob ==
    ASSUME FileSystem(fs), FileSystem(fs)', Grows, Tame, "rename" \notin op.effects, op'.src = op.src,
           NEW x, NEW path \in Seq(Names), Leads(x) => Stands(x, path),
           op.src.path \in Seq(Names), IsPrefix(op.src.path, path),
           NEW job \in Jobs, job.from = x, job.path = Append(path, job.name)
    PROVE  JobIsAt(job)'
<1>1. PICK name, q : name = job.name /\ q = Append(path, name)
  OBVIOUS
<1>2. name \in Names /\ job.path = q
  BY <1>1 DEF Jobs
<1>3. q # <<>> /\ Front(q) = path /\ Last(q) = name
  BY <1>1, <1>2, AppendIs
<1>4. q \in Seq(Names) /\ IsStrictPrefix(path, q)
  BY <1>1, <1>2, AppendExtends
<1>5. IsStrictPrefix(op.src.path, q)
  BY <1>4, StrictTrans DEF IsStrictPrefix
<1>6. JobIsAt(job)
  BY <1>1, <1>2, <1>3, <1>5 DEF JobIsAt
<1> QED
  BY <1>6, JobStays

LEMMA CopyTreeJobs ==
    ASSUME BrokerInv, FileSystem(fs)', ProtectionInv, Running', Grows, Tame, CopyTree, op'.src = op.src
    PROVE  TreeJobs'
<1>1. /\ Shaped(op) /\ FileSystem(fs) /\ CallInv /\ TreeJobs /\ Plan /\ op.pending \in Seq(Jobs)
  BY DEF BrokerInv, ProtectionInv, CopyTree, Doing, Running, CallInv, FillingHeld
<1>2. "rename" \notin op.effects
  BY <1>1 DEF CallInv, EffectsRight, Plan, CopyTree, Doing
<1>3. op.src.path \in Seq(Names)
  BY <1>1, SourceTyped
<1>4. ASSUME NEW i \in DOMAIN op.pending, NEW e, e = op.pending[i] PROVE JobIsAt(e)'
  <2>1. JobIsAt(e)
    BY <1>1, <1>4 DEF TreeJobs
  <2> QED
    BY <1>1, <1>2, <2>1, JobStays
<1>5. CASE op'.pending = op.pending
  BY <1>4, <1>5 DEF TreeJobs, JobIsAt
<1>6. ASSUME op.pending # <<>>, NEW more \in Seq(Jobs), op'.pending = more \o Tail(op.pending),
             ASSUME NEW k \in DOMAIN more, NEW job, job = more[k] PROVE JobIsAt(job)'
      PROVE  TreeJobs'
  <2>1. PICK left, jobs : left = op'.pending /\ jobs = op.pending
    OBVIOUS
  <2>4. jobs \in Seq(Jobs) /\ jobs # <<>> /\ Joined(more, Tail(jobs), left)
    BY <1>1, <1>6, <2>1 DEF Joined
  <2>2. \A i \in DOMAIN left : (\E k \in DOMAIN more : left[i] = more[k]) \/ (\E k \in DOMAIN jobs : left[i] = jobs[k])
    BY <2>4, JobsLeft
  <2>3. ASSUME NEW i \in DOMAIN left, NEW job, job = left[i] PROVE JobIsAt(job)'
    <3>1. CASE \E k \in DOMAIN more : left[i] = more[k]
      BY <1>6, <2>3, <3>1
    <3>2. CASE \E k \in DOMAIN jobs : left[i] = jobs[k]
      BY <1>4, <2>1, <2>3, <3>2
    <3> QED
      BY <2>2, <3>1, <3>2
  <2> QED
    BY <2>1, <2>3 DEF TreeJobs, JobIsAt
<1>7. CASE Continue("CopyTree", op) \/ \E result : Stop(result)
  <2>1. Continue("CopyTree", op)
    BY <1>1, <1>7, StopEnds
  <2>2. PICK a : a = Advance("CopyTree", op) /\ a = op'
    BY <2>1 DEF Continue
  <2>3. a.todo # {}
    BY <2>2 DEF Running
  <2>4. a.pending = op.pending
    BY <1>1, <2>2, <2>3, AdvanceIs
  <2> QED
    BY <1>5, <2>2, <2>4
<1>8. CASE op.pending # <<>> /\ op' = [op EXCEPT !.pending = Tail(@)]
  <2>1. PICK none : none = <<>>
    OBVIOUS
  <2>2. none \in Seq(Jobs) /\ DOMAIN none = {}
    BY <2>1
  <2>3. op'.pending = Tail(op.pending)
    BY <1>1, <1>8 DEF Shaped
  <2>4. Tail(op.pending) \in Seq(Jobs)
    BY <1>1, <1>8, HeadTailProperties
  <2>5. none \o Tail(op.pending) = Tail(op.pending)
    BY <2>1, <2>4, ConcatEmptySeq
  <2> QED
    BY <1>6, <1>8, <2>2, <2>3, <2>5
<1>9. CASE \E e, kind, data, more : CopiesOne(e, kind, data, more)
  <2>1. PICK e, kind, data, more : CopiesOne(e, kind, data, more)
    BY <1>9
  <2>2. PICK x : x = At(<<e.from, e.name>>)
    OBVIOUS
  <2>3. /\ op.pending # <<>> /\ e = Head(op.pending) /\ e \in Jobs /\ more \in Seq(Jobs)
        /\ op'.pending = more \o Tail(op.pending) /\ x # None
        /\ more = <<>> \/ (IsDir(x) /\ \A i \in DOMAIN more : more[i].from = x /\ more[i].path = Append(e.path, more[i].name))
    BY <1>1, <2>1, <2>2 DEF CopiesOne, Shaped
  <2>4. JobIsAt(e)
    <3>1. 1 \in DOMAIN op.pending /\ e = op.pending[1]
      <4>1. PICK left, none : none = <<>> /\ Joined(none, Tail(op.pending), left)
        BY DEF Joined
      <4> QED
        BY <1>1, <2>3, <4>1, JobsLeft, EmptySeq
    <3> QED
      BY <1>1, <3>1 DEF TreeJobs
  <2>5. e.path \in Seq(Names) /\ IsPrefix(op.src.path, e.path)
    BY <2>3, <2>4 DEF Jobs, JobIsAt, IsStrictPrefix
  <2>6. ASSUME NEW k \in DOMAIN more, NEW job, job = more[k] PROVE JobIsAt(job)'
    <3>1. IsDir(x) /\ job.from = x /\ job.path = Append(e.path, job.name) /\ job \in Jobs
      BY <2>3, <2>6, ElementOfSeq, LenProperties
    <3>2. Leads(x) => Stands(x, e.path)
      BY <1>1, <2>2, <2>3, <2>4, <3>1, JobFinds
    <3> QED
      BY <1>1, <1>2, <1>3, <2>5, <3>1, <3>2, NewJob
  <2> QED
    BY <1>6, <2>3, <2>6
<1> QED
  BY <1>7, <1>8, <1>9, CopyTreeIs

LEMMA ReadTreeJobs ==
    ASSUME BrokerInv, FileSystem(fs)', ProtectionInv, Running', Grows, Tame, ReadTree, op'.src = op.src
    PROVE  TreeJobs'
<1>1. /\ Shaped(op) /\ FileSystem(fs) /\ CallInv /\ TreeSource /\ Plan /\ TreeCopy
  BY DEF BrokerInv, ProtectionInv, ReadTree, Doing, Running, CallInv, Plan
<1>2. "rename" \notin op.effects
  BY <1>1 DEF CallInv, EffectsRight
<1>3. op.src.path \in Seq(Names) /\ IsPrefix(op.src.path, op.src.path)
  <2>1. op.src.path \in Seq(Names)
    BY <1>1, SourceTyped
  <2>2. Len(op.src.path) \in 0 .. Len(op.src.path)
    BY <2>1, LenProperties
  <2> QED
    BY <2>1, <2>2, FirstIsPrefix, FirstAll
<1>4. "VerifySource" \notin op.todo /\ "OpenSource" \notin op.todo /\ "VerifyDestParent" \notin op.todo /\ "MakeDirs" \notin op.todo
  BY Before, Earlier DEF ReadTree
<1>5. PICK x, y, path, jobs : x = op.h1.node /\ y = op.p2.node /\ path = op.src.path /\ jobs = Entries(x, y, path)
  OBVIOUS
<1>6. Stands(x, path)
  BY <1>1, <1>4, <1>5 DEF TreeSource
<1>7. x \in Nodes /\ y \in Nodes
  <2>1. Stands(y, NewParent)
    BY <1>1, <1>4, <1>5 DEF CallInv, ParentHeld, TreeCopy, HasDest
  <2> QED
    BY <1>1, <1>6, <2>1, PathsTyped DEF Stands
<1>8. jobs \in Seq(Jobs) /\ \A i \in DOMAIN jobs : jobs[i].from = x /\ jobs[i].path = Append(path, jobs[i].name)
  BY <1>1, <1>3, <1>5, <1>7, EntriesAre
<1>9. op'.pending = jobs
  <2>1. PICK o : o = [op EXCEPT !.pending = jobs]
    OBVIOUS
  <2>2. Shaped(o) /\ o.pending = jobs
    BY <1>1, <2>1 DEF Shaped
  <2>3. PICK a : a = Advance("ReadTree", o) /\ a = op'
    BY <1>5, <2>1 DEF ReadTree, Continue
  <2> QED
    BY <2>2, <2>3, AdvanceIs DEF Running
<1>10. ASSUME NEW i \in DOMAIN jobs, NEW job, job = jobs[i] PROVE JobIsAt(job)'
  <2>1. job \in Jobs /\ job.from = x /\ job.path = Append(path, job.name)
    BY <1>8, <1>10, ElementOfSeq, LenProperties
  <2> QED
    BY <1>1, <1>2, <1>3, <1>5, <1>6, <2>1, NewJob
<1> QED
  BY <1>9, <1>10 DEF TreeJobs, JobIsAt

LEMMA TreeJobsKeeps ==
    ASSUME BrokerInv, FileSystem(fs)', BrokerInv', ProtectionInv, NEW step, Goes(step), StepIs(step), Running',
           TreeCopy => Grows /\ Tame
    PROVE  TreeJobs'
<1>1. /\ CallInv /\ CallInv' /\ TreeJobs /\ FileSystem(fs) /\ Plan'
  BY DEF BrokerInv, ProtectionInv, Goes, Doing, Running, CallInv
<1>2. (TreeCopy' <=> TreeCopy) /\ op'.src = op.src /\ (op'.pending = op.pending \/ step \in {"ReadTree", "CopyTree"})
  BY SameCall DEF Goes
<1>3. CASE ~TreeCopy
  <2>1. op'.pending = <<>>
    BY <1>1, <1>2, <1>3 DEF Plan
  <2> QED
    BY <2>1 DEF TreeJobs
<1>4. CASE TreeCopy /\ step = "CopyTree"
  BY <1>2, <1>4, CopyTreeJobs DEF StepIs
<1>5. CASE TreeCopy /\ step = "ReadTree"
  BY <1>2, <1>5, ReadTreeJobs DEF StepIs
<1>6. CASE TreeCopy /\ op'.pending = op.pending
  <2>1. "rename" \notin op.effects
    BY <1>1, <1>6 DEF CallInv, EffectsRight
  <2>2. ASSUME NEW i \in DOMAIN op.pending, NEW e, e = op.pending[i] PROVE JobIsAt(e)'
    <3>1. JobIsAt(e)
      BY <1>1, <2>2 DEF TreeJobs
    <3> QED
      BY <1>1, <1>2, <1>6, <2>1, <3>1, JobStays
  <2> QED
    BY <1>6, <2>2 DEF TreeJobs, JobIsAt
<1> QED
  BY <1>2, <1>3, <1>4, <1>5, <1>6

-----------------------------------------------------------------------------
\* The entry that is deleted or moved

\* What was at a path stays there.
Undisturbed(path) == path \in Paths => path \in DOMAIN fs'.tree /\ fs'.tree[path] = fs.tree[path]
KindsStay == \A x, p : Stands(x, p) => fs'.kind[x] = fs.kind[x]
Gentle == Tame /\ KindsStay /\ Undisturbed(op.src.path) /\ Undisturbed(Front(op.src.path))

LEMMA GrowsGently == ASSUME Grows, Tame PROVE Gentle
<1>1. ASSUME NEW path PROVE Undisturbed(path)
  BY DEF Grows, Undisturbed, Stands, Paths
<1> QED
  BY <1>1 DEF Gentle, Grows, KindsStay

LEMMA LeadsToBack ==
    ASSUME FileSystem(fs), FileSystem(fs)', SecretsHeld, Tame, NEW x, LeadsToSecret(x)'
    PROVE  LeadsToSecret(x)
<1>1. PICK s \in Secrets, p \in Paths' : fs'.tree[p] = x /\ IsStrictPrefix(p, s.path)
  BY DEF LeadsToSecret
<1>2. s.path \in Paths /\ s.path \in Seq(Names)
  BY SecretsAre DEF SecretsHeld, Stands
<1>3. IsTree(fs.tree, fs.kind) /\ IsPrefix(p, s.path) /\ p \in Seq(Names)
  BY <1>1 DEF FileSystem, IsTree, IsStrictPrefix, Paths
<1>4. p \in Paths
  BY <1>2, <1>3, TreePrefix DEF Paths
<1>5. fs.tree[p] = x
  BY <1>1, <1>4 DEF Tame
<1> QED
  BY <1>1, <1>4, <1>5 DEF LeadsToSecret

\* What leads to a protected object holds an entry that the scan reports.
LEMMA LeadsIsSeen ==
    ASSUME FileSystem(fs), SecretsHeld, NEW x, NEW path, Stands(x, path), path # <<>>, ~Denied(path), LeadsToSecret(x)
    PROVE  HoldsProtected(x) /\ Children(x) # {} /\ IsDir(x)
<1>1. PICK s \in Secrets, p \in Paths : fs.tree[p] = x /\ IsStrictPrefix(p, s.path)
  BY DEF LeadsToSecret
<1>2. s.path \in Paths /\ s.path \in Seq(Names) /\ p \in Seq(Names) /\ path \in Seq(Names) /\ IsTree(fs.tree, fs.kind)
  BY <1>1, PathsTyped, SecretsAre DEF SecretsHeld, Stands, FileSystem
<1>3. IsDir(x) /\ Len(p) < Len(s.path)
  BY <1>1, <1>2, TreePrefix DEF IsDir, Paths, IsStrictPrefix
<1>4. p = path
  BY <1>1, <1>2, <1>3 DEF IsTree, Stands, IsDir, Paths
<1>5. Len(p) \in Nat /\ Len(s.path) \in Nat /\ Len(p) <= Len(s.path) /\ \A i \in 1 .. Len(p) : p[i] = s.path[i]
  BY <1>1, <1>2, PrefixComponents, LenProperties DEF IsStrictPrefix
<1>6. s.path[1] = p[1] /\ s.path # <<>>
  <2>1. Len(p) # 0
    BY <1>2, <1>4, EmptySeq
  <2>2. 1 \in 1 .. Len(p)
    BY <1>5, <2>1
  <2> QED
    BY <1>2, <1>3, <1>5, <2>2, EmptySeq
<1>7. ProtectedPath(s.path)
  <2>1. ClassOf(s.path) = "ControlData" => ClassOf(path) = "ControlData"
    BY <1>4, <1>6 DEF ClassOf
  <2> QED
    BY <2>1, SecretsDenied DEF Denied
<1>8. s.path \in Under(x)
  BY <1>1, <1>2 DEF Under, NamesOf
<1>9. Children(x) # {}
  <2>1. PICK n : n = Len(p)
    OBVIOUS
  <2>2. n \in 0 .. Len(s.path) - 1 /\ n + 1 \in 0 .. Len(s.path) /\ n \in 0 .. Len(s.path) /\ n \in Nat
    BY <1>3, <1>5, <2>1
  <2>3. PICK c : c = First(s.path, n + 1)
    OBVIOUS
  <2>4. Append(First(s.path, n), s.path[n + 1]) = c /\ s.path[n + 1] \in Names
    BY <1>2, <2>2, <2>3, NextFirst
  <2>5. First(s.path, n) = p
    BY <1>1, <1>2, <2>1, PrefixIs DEF IsStrictPrefix
  <2>6. Front(c) = p /\ c # <<>>
    BY <1>2, <2>4, <2>5, AppendIs
  <2>7. c \in Paths
    <3>1. c \in Seq(Names) /\ IsPrefix(c, s.path)
      BY <1>2, <2>2, <2>3, FirstIs, FirstIsPrefix
    <3> QED
      BY <1>2, <3>1, TreePrefix DEF Paths
  <2> QED
    BY <1>1, <2>6, <2>7 DEF Children
<1> QED
  BY <1>3, <1>7, <1>8, <1>9 DEF HoldsProtected

\* The entry is not on the way to its own path.
LEMMA EntryNotAbove ==
    ASSUME FileSystem(fs), NEW x, NEW path, Stands(x, path)
    PROVE  NotAbove(x, path)
<1>1. path \in Seq(Names) /\ IsTree(fs.tree, fs.kind) /\ Len(path) \in Nat /\ path \in DOMAIN fs.tree
  BY PathsTyped, LenProperties DEF Stands, FileSystem, Paths
<1> SUFFICES ASSUME NEW n \in 0 .. Len(path) - 1, Stands(x, First(path, n))
             PROVE  FALSE
  BY DEF NotAbove
<1>2. n \in 0 .. Len(path) /\ n # Len(path)
  BY <1>1
<1>3. PICK q : q = First(path, n)
  OBVIOUS
<1>4. q \in Seq(Names) /\ Len(q) = n /\ IsPrefix(q, path)
  BY <1>1, <1>2, <1>3, FirstIs, FirstIsPrefix
<1>5. q # path
  BY <1>2, <1>4
<1>6. fs.kind[fs.tree[q]] = "dir"
  BY <1>1, <1>4, <1>5, TreePrefix
<1> QED
  BY <1>1, <1>3, <1>5, <1>6 DEF IsTree, Stands, Paths

LEMMA NotAboveStays ==
    ASSUME FileSystem(fs), Tame, NEW x, NEW path \in Seq(Names), path # <<>>, Front(path) \in Paths, NotAbove(x, path)
    PROVE  NotAbove(x, path)'
<1>1. /\ Len(path) \in Nat /\ Front(path) \in Seq(Names) /\ Len(path) - 1 \in 0 .. Len(path)
      /\ Front(path) = First(path, Len(path) - 1) /\ IsTree(fs.tree, fs.kind)
  BY FrontIs, LenProperties DEF FileSystem
<1> SUFFICES ASSUME NEW n \in 0 .. Len(path) - 1, Stands(x, First(path, n))'
             PROVE  FALSE
  BY DEF NotAbove
<1>2. PICK q : q = First(path, n)
  OBVIOUS
<1>3. q \in Paths
  <2>1. First(Front(path), n) = q
    BY <1>1, <1>2, FirstOfFirst
  <2>2. Len(Front(path)) = Len(path) - 1
    BY FrontIs
  <2>3. n \in 0 .. Len(Front(path))
    BY <1>1, <2>2
  <2>4. IsPrefix(q, Front(path)) /\ q \in Seq(Names)
    BY <1>1, <2>1, <2>3, FirstIsPrefix, FirstIs
  <2> QED
    BY <1>1, <2>4, TreePrefix DEF Paths
<1>4. Stands(x, q)
  BY <1>2, <1>3 DEF Tame, Stands, Paths
<1> QED
  BY <1>2, <1>4 DEF NotAbove

LEMMA OpenChildFinds ==
    ASSUME BrokerInv, OpenChild, Running', Stands(op.p1.node, Front(op.src.path)), op.src.path # <<>>
    PROVE  /\ fs' = fs /\ Stands(op'.h1.node, op.src.path) /\ op'.h1.at = <<op.p1.node, Last(op.src.path)>>
           /\ IsDir(op.p1.node)
<1>1. Doing("OpenChild") /\ FileSystem(fs) /\ Shaped(op) /\ CallInv
  BY DEF OpenChild, BrokerInv, Doing, Running
<1>2. PICK d, name : d = op.p1.node /\ name = Last(op.src.path)
  OBVIOUS
<1>3. PICK slot, x : slot = <<d, name>> /\ x = At(slot) /\ x # None /\ Continue("OpenChild", [op EXCEPT !.h1 = Handle(x, slot)])
  <2>1. ASSUME NEW result, Stop(result) PROVE FALSE
    BY <1>1, <2>1, StopEnds
  <2> QED
    BY <1>2, <2>1 DEF OpenChild
<1>4. op'.h1.node = x /\ op'.h1.at = slot /\ fs' = fs
  <2>1. PICK h : h = Handle(x, slot)
    OBVIOUS
  <2>2. PICK o : o = [op EXCEPT !.h1 = h]
    OBVIOUS
  <2>3. Shaped(o) /\ o.h1 = h /\ op' = Advance("OpenChild", o) /\ fs' = fs
    BY <1>1, <1>3, <2>1, <2>2 DEF Shaped, Continue
  <2>4. op'.h1 = h
    BY <2>3, AdvanceIs
  <2> QED
    BY <2>1, <2>3, <2>4 DEF Handle
<1>5. op.src.path \in Seq(Names)
  BY <1>1, SourceTyped DEF CallInv
<1>6. name \in Names /\ Append(Front(op.src.path), name) = op.src.path
  BY <1>2, <1>5, FrontIs
<1>7. SlotPath(slot) \in Paths /\ fs.tree[SlotPath(slot)] = x
  BY <1>3 DEF At
<1>8. IsDir(d)
  BY <1>1, <1>3, <1>6, <1>7, SlotFound
<1>9. SlotPath(slot) = op.src.path
  BY <1>1, <1>2, <1>3, <1>6, <1>8, SlotOfDir
<1> QED
  BY <1>2, <1>3, <1>4, <1>7, <1>8, <1>9 DEF Stands

LEMMA InspectSees ==
    ASSUME Shaped(op), Inspect, Running'
    PROVE  Children(op.h1.node) = {} \/ ~HoldsProtected(op.h1.node)
<1>1. ASSUME NEW result, Stop(result) PROVE FALSE
  BY <1>1, StopEnds
<1> QED
  BY <1>1 DEF Inspect

LEMMA CheckMovedSees ==
    ASSUME Shaped(op), CheckMoved, Running'
    PROVE  \/ IsDir(op.h1.node) /\ ~HoldsProtected(op.h1.node)
           \/ IsLink(op.h1.node)
           \/ ~IsDir(op.h1.node) /\ LinksAllowed(op.src.path, Links(op.h1.node), TRUE)
<1> DEFINE c == CASE IsDir(op.h1.node)  -> ~HoldsProtected(op.h1.node)
                  [] IsLink(op.h1.node) -> TRUE
                  [] OTHER              -> LinksAllowed(op.src.path, Links(op.h1.node), TRUE)
<1>1. Check("CheckMoved", c, "denied")
  BY DEF CheckMoved
<1> HIDE DEF c
<1>2. c
  BY <1>1, CheckPassed
<1>3. CASE IsDir(op.h1.node)
  BY <1>2, <1>3 DEF c, IsDir, IsLink
<1>4. CASE ~IsDir(op.h1.node) /\ ~IsLink(op.h1.node)
  BY <1>2, <1>4 DEF c
<1> QED
  BY <1>3, <1>4

\* The way to the entry and the entry.
LEMMA EntryKeeps ==
    ASSUME BrokerInv, FileSystem(fs)', ProtectionInv, NEW step, Goes(step), StepIs(step), Running',
           Moving /\ step # "Rename" => Gentle
    PROVE  SourceParent' /\ SourceChild' /\ SourceClean'
<1>1. /\ Shaped(op) /\ FileSystem(fs) /\ CallInv /\ Remaining /\ Judged /\ SecretsHeld /\ Plan
      /\ SourceParent /\ SourceChild /\ SourceClean
  BY DEF BrokerInv, ProtectionInv, Goes, Doing, Running, CallInv
<1>2. /\ (Moving' <=> Moving) /\ op'.src = op.src /\ op'.req = op.req /\ step \in op.todo /\ Doing(step)
      /\ step # "OpenSource" /\ step # "OpenChild" => op'.h1 = op.h1
      /\ step # "PinSourceParent" => op'.p1 = op.p1
      /\ step = "Rename" => op'.todo = op.todo \ {step}
  BY SameCall DEF Goes, Doing
<1>3. /\ \A s \in op.todo : s # step => s \in op'.todo
      /\ \A s \in op'.todo : s \in op.todo \/ s \in {"DeleteTree", "Unlink"}
  BY <1>1, Left
<1> SUFFICES ASSUME Moving
             PROVE  SourceParent' /\ SourceChild' /\ SourceClean'
  BY <1>2 DEF SourceParent, SourceChild, SourceClean, Pending, Moving
<1>4. op.src.path \in Seq(Names) /\ op.src.path # <<>> /\ ~Denied(op.src.path)
  BY <1>1, SourceTyped DEF Moving, Judged, Plan
<1>5. step # "OpenSource" /\ (step # "OpenChild" => op'.h1 = op.h1)
  BY <1>1, <1>2 DEF Remaining
<1>6. Pending' => Pending /\ step # "Rename"
  <2>1. step = "Rename" => op.req.kind = "move"
    BY <1>1, <1>2 DEF Plan
  <2> QED
    BY <1>2, <1>3, <2>1 DEF Pending
<1> SUFFICES ASSUME Pending', Pending, step # "Rename", Gentle
             PROVE  SourceParent' /\ SourceChild' /\ SourceClean'
  BY <1>6 DEF SourceParent, SourceChild, SourceClean
<1>7. PICK d, h, path, above : d = op'.p1.node /\ h = op'.h1.node /\ path = op.src.path /\ above = Front(path)
  OBVIOUS
<1>8. op'.src.path = path /\ path \in Seq(Names) /\ path # <<>> /\ ~Denied(path) /\ op'.req.kind = op.req.kind
  BY <1>2, <1>4, <1>7
<1>9. /\ Stands(d, above) => Stands(d, above)'
      /\ \A x : Stands(x, path) => Stands(x, path)'
      /\ Tame /\ KindsStay
  BY <1>7 DEF Gentle, Undisturbed, Stands, Paths
<1>10. ASSUME "VerifySourceParent" \notin op'.todo
       PROVE  Stands(d, above) /\ op.p1.node = d /\ "PinSourceParent" \notin op.todo
  <2>1. step # "PinSourceParent" /\ "PinSourceParent" \notin op.todo
    BY <1>1, <1>2, <1>3, <1>10, Before DEF Remaining
  <2>2. op.p1.node = d
    BY <1>2, <1>7, <2>1
  <2>3. CASE step = "VerifySourceParent"
    <3>1. VerifySourceParent
      BY <2>3 DEF StepIs
    <3> DEFINE c == FinalPath(op.p1) = Front(op.src.path)
    <3>2. Check("VerifySourceParent", c, "changed")
      BY <3>1 DEF VerifySourceParent
    <3> HIDE DEF c
    <3>3. c
      BY <1>1, <3>2, CheckPassed
    <3>4. above \in Seq(Names)
      BY <1>7, <1>8, FrontIs
    <3> QED
      BY <1>1, <1>7, <2>1, <2>2, <3>3, <3>4, FinalPathIs DEF c
  <2>4. CASE step # "VerifySourceParent"
    BY <1>1, <1>3, <1>7, <1>10, <2>1, <2>2, <2>4 DEF SourceParent
  <2> QED
    BY <2>1, <2>2, <2>3, <2>4
<1>11. SourceParent'
  BY <1>7, <1>8, <1>9, <1>10 DEF SourceParent
<1>12. ASSUME "OpenChild" \notin op'.todo
       PROVE  /\ IsDir(d) /\ op'.h1.at = <<d, Last(path)>> /\ NotAbove(h, path)
              /\ h \in SecretNodes \/ LeadsToSecret(h) => Stands(h, path)
              /\ Stands(d, above)
  <2>1. "VerifySourceParent" \notin op'.todo
    <3>1. step = "OpenChild" => "VerifySourceParent" \notin op.todo
      BY <1>2, Before
    <3> QED
      BY <1>1, <1>3, <1>12, <3>1 DEF Remaining
  <2>2. Stands(d, above) /\ op.p1.node = d
    BY <1>10, <2>1
  <2>3. CASE step = "OpenChild"
    <3>1. OpenChild
      BY <2>3 DEF StepIs
    <3>2. Stands(h, path) /\ op'.h1.at = <<d, Last(path)>> /\ IsDir(d)
      BY <1>7, <1>8, <2>2, <3>1, OpenChildFinds
    <3>3. NotAbove(h, path)
      BY <1>1, <3>2, EntryNotAbove
    <3> QED
      BY <2>2, <3>2, <3>3
  <2>4. CASE step # "OpenChild"
    BY <1>1, <1>3, <1>5, <1>7, <1>12, <2>2, <2>4 DEF SourceChild
  <2> QED
    BY <2>3, <2>4
<1>13. SourceChild'
  <2> SUFFICES ASSUME "OpenChild" \notin op'.todo
               PROVE  /\ fs'.kind[d] = "dir" /\ op'.h1.at = <<d, Last(path)>> /\ NotAbove(h, path)'
                      /\ h \in SecretNodes \/ LeadsToSecret(h)' => Stands(h, path)'
    BY <1>7, <1>8 DEF SourceChild, IsDir, NotAbove, Stands, LeadsToSecret
  <2>1. /\ IsDir(d) /\ op'.h1.at = <<d, Last(path)>> /\ NotAbove(h, path)
        /\ h \in SecretNodes \/ LeadsToSecret(h) => Stands(h, path)
        /\ Stands(d, above)
    BY <1>12
  <2>2. fs'.kind[d] = "dir"
    BY <1>9, <2>1 DEF KindsStay, IsDir
  <2>3. NotAbove(h, path)'
    BY <1>1, <1>7, <1>8, <1>9, <2>1, NotAboveStays DEF Stands
  <2>4. LeadsToSecret(h)' => LeadsToSecret(h)
    BY <1>1, <1>9, LeadsToBack
  <2> QED
    BY <1>9, <2>1, <2>2, <2>3, <2>4
<1>14. LeadsToSecret(h)' => LeadsToSecret(h)
  BY <1>1, <1>9, LeadsToBack
<1>15. ASSUME op.req.kind = "delete", "Inspect" \notin op'.todo
       PROVE  ~LeadsToSecret(h)
  <2>1. "OpenChild" \notin op.todo
    BY <1>1, <1>2, <1>3, <1>15, Before DEF Remaining
  <2>2. op.h1.node = h
    BY <1>2, <1>5, <1>7, <2>1
  <2>3. CASE step = "Inspect"
    <3>1. Inspect
      BY <2>3 DEF StepIs
    <3>2. Children(h) = {} \/ ~HoldsProtected(h)
      BY <1>1, <2>2, <3>1, InspectSees
    <3>3. LeadsToSecret(h) => Stands(h, path)
      BY <1>1, <1>7, <2>1, <2>2 DEF SourceChild
    <3> QED
      BY <1>1, <1>8, <3>2, <3>3, LeadsIsSeen
  <2>4. CASE step # "Inspect"
    BY <1>1, <1>3, <1>15, <2>2, <2>4 DEF SourceClean
  <2> QED
    BY <2>3, <2>4
<1>16. ASSUME op.req.kind = "move", "CheckMoved" \notin op'.todo
       PROVE  ~LeadsToSecret(h) /\ h \notin SecretNodes
  <2>1. "OpenChild" \notin op.todo
    BY <1>1, <1>2, <1>3, <1>16, Before DEF Remaining
  <2>2. op.h1.node = h
    BY <1>2, <1>5, <1>7, <2>1
  <2>3. CASE step = "CheckMoved"
    <3>1. CheckMoved
      BY <2>3 DEF StepIs
    <3>2. (IsDir(h) /\ ~HoldsProtected(h)) \/ IsLink(h) \/ (~IsDir(h) /\ LinksAllowed(path, Links(h), TRUE))
      <4>1. \/ IsDir(op.h1.node) /\ ~HoldsProtected(op.h1.node)
            \/ IsLink(op.h1.node)
            \/ ~IsDir(op.h1.node) /\ LinksAllowed(op.src.path, Links(op.h1.node), TRUE)
        BY <1>1, <3>1, CheckMovedSees
      <4> QED
        BY <1>7, <2>2, <4>1
    <3>3. h \in SecretNodes \/ LeadsToSecret(h) => Stands(h, path)
      BY <1>1, <1>7, <2>1, <2>2 DEF SourceChild
    <3>4. LeadsToSecret(h) => IsDir(h) /\ HoldsProtected(h)
      BY <1>1, <1>8, <3>3, LeadsIsSeen
    <3>5. h \in SecretNodes => fs.kind[h] = "file" /\ ~LinksAllowed(path, Links(h), TRUE)
      BY <1>1, <1>8, <3>3, SecretIs, LinksProtect, SecretsDenied
    <3>9. LeadsToSecret(h) => IsDir(h) /\ HoldsProtected(h) /\ ~IsLink(h)
      BY <3>4 DEF IsDir, IsLink
    <3>6. h \in SecretNodes => ~IsDir(h) /\ ~IsLink(h)
      BY <3>5 DEF IsDir, IsLink
    <3>7. h \notin SecretNodes
      BY <3>2, <3>5, <3>6
    <3>8. ~LeadsToSecret(h)
      BY <3>2, <3>4, <3>7, <3>9
    <3> QED
      BY <3>7, <3>8
  <2>4. CASE step # "CheckMoved"
    BY <1>1, <1>3, <1>16, <2>2, <2>4 DEF SourceClean
  <2> QED
    BY <2>3, <2>4
<1>17. SourceClean'
  BY <1>7, <1>8, <1>14, <1>15, <1>16 DEF SourceClean, LeadsToSecret
<1> QED
  BY <1>11, <1>13, <1>17

-----------------------------------------------------------------------------
\* What the steps do to protected objects

\* The protected objects are left alone and not returned, and nothing is renamed.
Clean == Safe /\ op'.out # "secret" /\ (("rename" \in op'.effects) <=> ("rename" \in op.effects))

Global == SecretsHeld /\ SecretsOnly /\ SecretWays /\ op.out # "secret"

LEMMA QuietClean ==
    ASSUME Global, fs' = fs, op'.out # "secret", op'.effects = op.effects
    PROVE  Grows /\ Clean
BY SameSafe DEF Global, Clean

LEMMA CleanOn ==
    ASSUME Global, NEW step, NEW o, Shaped(o), o.out # "secret", o.effects = op.effects, Continue(step, o)
    PROVE  Grows /\ Clean
<1>1. PICK a : a = Advance(step, o)
  OBVIOUS
<1>2. a.out = o.out /\ a.effects = o.effects
  BY <1>1, AdvanceIs
<1>3. fs' = fs /\ op' = a
  BY <1>1 DEF Continue
<1> QED
  BY <1>2, <1>3, QuietClean

LEMMA CleanEnd ==
    ASSUME Global, Shaped(op), NEW result, Stop(result)
    PROVE  Grows /\ Clean
<1>1. PICK a : a = Ended(op, result)
  OBVIOUS
<1>2. a.out = op.out /\ a.effects = op.effects
  BY <1>1, EndedIs
<1>3. fs' = fs /\ op' = a
  BY <1>1 DEF Stop
<1> QED
  BY <1>2, <1>3, QuietClean DEF Global

LEMMA ChecksClean ==
    ASSUME Global, Shaped(op), Checks
    PROVE  Grows /\ Clean
<1>1. ASSUME NEW step, NEW c, NEW result, Check(step, c, result)
      PROVE  Grows /\ Clean
  <2>1. Continue(step, op) \/ Stop(result)
    BY <1>1 DEF Check
  <2> QED
    BY <2>1, CleanOn, CleanEnd DEF Global
<1> QED
  BY <1>1 DEF Checks, VerifySource, VerifySourceParent, VerifyDest, VerifyDestParent, VerifyNewParent,
     CheckSource, CheckDest, CheckSourceLinks, CheckDestLinks, CheckMoved, List, VerifyMoved

\* What is read is not protected.
LEMMA ReadIsOpen ==
    ASSUME BrokerInv, ProtectionInv, Read \/ CopyData
    PROVE  op.h1.node \in Nodes /\ fs.data[op.h1.node] # "secret"
<1>1. PICK step \in {"Read", "CopyData"} : Doing(step)
  BY DEF Read, CopyData
<1>2. step \in op.todo /\ "CheckSourceLinks" \notin op.todo
  BY <1>1, Before DEF Doing
<1>3. CallInv /\ SourceRead /\ SecretsOnly
  BY <1>2 DEF BrokerInv, ProtectionInv, Running
<1>4. FileRead /\ Identified /\ "CheckSource" \notin op.todo
  <2>1. "CheckSource" \notin op.todo
    BY <1>1, Earlier
  <2>2. CASE step = "Read"
    BY <1>2, <1>3, <2>1, <2>2 DEF CallInv, Plan, FileRead, Identified
  <2>3. CASE step = "CopyData"
    <3>1. Writes /\ op.req.kind = "copy"
      BY <1>2, <1>3, <2>3 DEF CallInv, Plan
    <3> QED
      BY <2>1, <3>1 DEF FileRead, Identified, Writes
  <2> QED
    BY <2>2, <2>3
<1>5. op.h1.node \in Nodes
  BY <1>3, <1>4 DEF CallInv, HandlesRight, Plan, CanonicalPath
<1>6. op.h1.node \notin SecretNodes
  BY <1>2, <1>3, <1>4 DEF SourceRead
<1> QED
  BY <1>3, <1>5, <1>6 DEF SecretsOnly

LEMMA LooksClean ==
    ASSUME BrokerInv, ProtectionInv, Opens \/ Looks
    PROVE  Grows /\ Clean
<1>1. Shaped(op) /\ Global /\ op.out # "secret"
  BY DEF BrokerInv, ProtectionInv, Global
<1>2. ASSUME NEW step, NEW o, Shaped(o), o.out # "secret", o.effects = op.effects, Continue(step, o)
      PROVE  Grows /\ Clean
  BY <1>1, <1>2, CleanOn
<1>3. ASSUME NEW result, Stop(result)
      PROVE  Grows /\ Clean
  BY <1>1, <1>3, CleanEnd
<1>4. ASSUME NEW step, NEW h, NEW o, Continue(step, o),
             \/ o = [op EXCEPT !.h1 = h] \/ o = [op EXCEPT !.p1 = h] \/ o = [op EXCEPT !.p2 = h] \/ o = [op EXCEPT !.h2 = h]
             \/ o = [op EXCEPT !.todo = h] \/ o = [op EXCEPT !.pending = h] \/ o = op
      PROVE  Grows /\ Clean
  <2>1. Shaped(o) /\ o.out = op.out /\ o.effects = op.effects
    BY <1>1, <1>4 DEF Shaped
  <2> QED
    BY <1>1, <1>2, <1>4, <2>1
<1>7. CASE OpenSource
  BY <1>3, <1>4, <1>7 DEF OpenSource
<1>8. CASE PinSourceParent
  BY <1>3, <1>4, <1>8 DEF PinSourceParent
<1>9. CASE PinDestParent
  BY <1>3, <1>4, <1>9 DEF PinDestParent
<1>10. CASE OpenChild
  BY <1>3, <1>4, <1>10 DEF OpenChild
<1>11. CASE OpenDest
  BY <1>3, <1>4, <1>11 DEF OpenDest
<1>12. CASE Read
  <2>1. PICK data : data = fs.data[op.h1.node]
    OBVIOUS
  <2>2. data # "secret"
    BY <1>12, <2>1, ReadIsOpen
  <2>3. PICK o : o = [op EXCEPT !.out = data]
    OBVIOUS
  <2>4. Shaped(o) /\ o.out = data /\ o.effects = op.effects
    BY <1>1, <2>3 DEF Shaped
  <2>5. Continue("Read", o)
    BY <1>12, <2>1, <2>3 DEF Read
  <2> QED
    BY <1>2, <2>2, <2>4, <2>5
<1>13. CASE ScanSource
  <2>1. Continue("ScanSource", op) \/ \E result : Stop(result)
    BY <1>13 DEF ScanSource
  <2> QED
    BY <1>3, <1>4, <2>1
<1>14. CASE ReadDest
  BY <1>3, <1>4, <1>14 DEF ReadDest
<1>15. CASE Inspect
  <2>1. PICK more : Continue("Inspect", [op EXCEPT !.todo = @ \cup more]) \/ \E result : Stop(result)
    BY <1>15 DEF Inspect
  <2>2. PICK o, todo : todo = op.todo \cup more /\ o = [op EXCEPT !.todo = todo]
    OBVIOUS
  <2>3. Continue("Inspect", o) \/ \E result : Stop(result)
    BY <2>1, <2>2
  <2> QED
    BY <1>3, <1>4, <2>2, <2>3
<1>16. CASE ReadTree
  <2>1. PICK jobs : jobs = Entries(op.h1.node, op.p2.node, op.src.path)
    OBVIOUS
  <2>2. PICK o : o = [op EXCEPT !.pending = jobs]
    OBVIOUS
  <2>3. Continue("ReadTree", o)
    BY <1>16, <2>1, <2>2 DEF ReadTree
  <2> QED
    BY <1>4, <2>2, <2>3
<1> QED
  BY <1>7, <1>8, <1>9, <1>10, <1>11, <1>12, <1>13, <1>14, <1>15, <1>16 DEF Opens, Looks

LEMMA MadeClean ==
    ASSUME FileSystem(fs), Global, Free # {}, NEW slot, NEW q, NEW p, SlotOf(slot, q, p), At(slot) = None,
           NEW kind \in {"dir", "file"}, NEW data \in Contents \cup {None}, data # "secret", fs' = Make(SlotPath(slot), kind, data),
           op'.out = op.out, NEW effect, effect # "rename", op'.effects = op.effects \cup {effect}
    PROVE  Grows /\ Clean
BY MadeSafe DEF Global, Clean

LEMMA NoneIsOpen == None # "secret" /\ None \in Contents \cup {None}
BY NoneAssumption DEF Contents

LEMMA DirsClean ==
    ASSUME BrokerInv, ProtectionInv, MakeDirs
    PROVE  Grows /\ Clean
<1>1. Doing("MakeDirs") /\ Shaped(op) /\ FileSystem(fs) /\ Global
  BY DEF MakeDirs, BrokerInv, ProtectionInv, Global
<1> DEFINE slot == <<op.p2.node, op.dst.tail[op.made + 1]>>
           x == At(slot)
           Entered(y) == [op EXCEPT !.p2 = Handle(y, slot), !.made = @ + 1]
<1>2. \/ Continue("MakeDirs", op)
      \/ \E result : Stop(result)
      \/ /\ op.made < Missing /\ IsDir(op.p2.node) /\ x = None /\ Free # {} /\ fs' = Make(SlotPath(slot), "dir", None)
         /\ op' = [Entered(Fresh) EXCEPT !.effects = @ \cup {"mkdir"}]
      \/ op' = Entered(x) /\ fs' = fs
  BY DEF MakeDirs
<1>3. CASE Continue("MakeDirs", op)
  BY <1>1, <1>3, CleanOn DEF Global
<1>4. CASE \E result : Stop(result)
  BY <1>1, <1>4, CleanEnd
<1>5. CASE op' = Entered(x) /\ fs' = fs
  <2>1. op'.out = op.out /\ op'.effects = op.effects
    BY <1>1, <1>5 DEF Shaped
  <2> QED
    BY <1>1, <1>5, <2>1, QuietClean DEF Global
<1>6. ASSUME op.made < Missing, IsDir(op.p2.node), x = None, Free # {}, fs' = Make(SlotPath(slot), "dir", None),
             op' = [Entered(Fresh) EXCEPT !.effects = @ \cup {"mkdir"}]
      PROVE  Grows /\ Clean
  <2>1. PICK s, q, r, np, kind : /\ s = slot /\ q = First(op.dst.path, Len(op.dst.existing) + op.made + 1) /\ np = NewParent
                                 /\ r = op.dst.existing \o First(op.dst.tail, op.made + 1) /\ kind = "dir"
    OBVIOUS
  <2>2. SlotOf(s, q, np)
    BY <1>1, <1>6, <2>1, NextDir
  <2>3. op'.out = op.out /\ op'.effects = op.effects \cup {"mkdir"}
    BY <1>1, <1>6 DEF Shaped
  <2>4. PICK effect : effect = "mkdir"
    OBVIOUS
  <2>5. At(s) = None /\ fs' = Make(SlotPath(s), kind, None) /\ kind \in {"dir", "file"}
    BY <1>6, <2>1
  <2>6. op'.effects = op.effects \cup {effect} /\ effect # "rename"
    BY <2>3, <2>4
  <2> HIDE DEF slot, x, Entered
  <2> QED
    BY <1>1, <1>6, <2>2, <2>3, <2>5, <2>6, MadeClean, NoneIsOpen
<1> HIDE DEF slot, x, Entered
<1> QED
  BY <1>2, <1>3, <1>4, <1>5, <1>6

LEMMA FileClean ==
    ASSUME BrokerInv, ProtectionInv, CreateDest
    PROVE  Grows /\ Clean
<1>1. Doing("CreateDest") /\ Shaped(op) /\ FileSystem(fs) /\ CallInv /\ "CreateDest" \in op.todo /\ Global
  BY DEF CreateDest, BrokerInv, ProtectionInv, Global, Running, Doing
<1>2. /\ Writes /\ HasDest /\ ~op.dst.exists /\ ~TreeCopy /\ op.req.kind \notin {"move", "mkdir"}
      /\ "VerifyDestParent" \notin op.todo /\ "MakeDirs" \notin op.todo /\ CanonicalPath(op.dst)
  <2>1. Writes /\ ~op.dst.exists /\ CanonicalPath(op.dst)
    BY <1>1 DEF CallInv, Plan
  <2>2. "VerifyDestParent" \notin op.todo /\ "MakeDirs" \notin op.todo
    BY <1>1, Earlier
  <2> QED
    BY <2>1, <2>2 DEF Writes, TreeCopy, HasDest
<1>3. NewParent = Front(op.dst.path) /\ op.dst.path \in Seq(Names) /\ op.dst.path # <<>> /\ Last(op.dst.tail) = Last(op.dst.path)
  BY <1>1, <1>2, ParentOfDest, LastOfTail
<1>4. Stands(op.p2.node, Front(op.dst.path))
  BY <1>1, <1>2, <1>3 DEF CallInv, ParentHeld
<1> DEFINE slot == <<op.p2.node, Last(op.dst.tail)>>
<1>5. \/ \E result : Stop(result)
      \/ /\ IsDir(op.p2.node) /\ At(slot) = None /\ Free # {}
         /\ Change("CreateDest", Make(SlotPath(slot), "file", "empty"), [op EXCEPT !.h2 = Handle(Fresh, slot)], "create")
  BY DEF CreateDest
<1>6. ASSUME IsDir(op.p2.node), At(slot) = None, Free # {},
             Change("CreateDest", Make(SlotPath(slot), "file", "empty"), [op EXCEPT !.h2 = Handle(Fresh, slot)], "create")
      PROVE  Grows /\ Clean
  <2>1. PICK s, q, d, np, name : s = slot /\ q = op.dst.path /\ d = op.p2.node /\ np = Front(q) /\ name = Last(q)
    OBVIOUS
  <2>2. q \in Seq(Names) /\ q # <<>> /\ name \in Names /\ q = Append(np, name) /\ s = <<d, name>> /\ Stands(d, np) /\ IsDir(d)
    BY <1>3, <1>4, <1>6, <2>1, FrontIs
  <2>3. SlotOf(s, q, np)
    BY <1>1, <2>2, SlotIs
  <2>5. PICK kind, data, effect : kind = "file" /\ data = "empty" /\ effect = "create"
    OBVIOUS
  <2>6. /\ At(s) = None /\ fs' = Make(SlotPath(s), kind, data) /\ kind \in {"dir", "file"} /\ data \in Contents \cup {None}
        /\ data # "secret" /\ effect # "rename"
    BY <1>6, <2>1, <2>5 DEF Change, Contents
  <2>7. op'.out = op.out /\ op'.effects = op.effects \cup {effect}
    <3>1. PICK h : h = Handle(Fresh, slot)
      OBVIOUS
    <3>2. PICK o : o = [[op EXCEPT !.h2 = h] EXCEPT !.effects = @ \cup {effect}]
      OBVIOUS
    <3>3. Shaped(o) /\ o.out = op.out /\ o.effects = op.effects \cup {effect}
      BY <1>1, <3>2 DEF Shaped
    <3>4. op' = Advance("CreateDest", o)
      BY <1>6, <2>5, <3>1, <3>2 DEF Change
    <3> QED
      BY <3>3, <3>4, AdvanceIs
  <2> HIDE DEF slot
  <2> QED
    BY <1>1, <1>6, <2>3, <2>6, <2>7, MadeClean
<1> HIDE DEF slot
<1> QED
  BY <1>1, <1>5, <1>6, CleanEnd

\* A change of the file system that returns nothing.
LEMMA ChangeIs ==
    ASSUME Shaped(op), NEW step, NEW f, NEW effect, Change(step, f, op, effect)
    PROVE  fs' = f /\ op'.out = op.out /\ op'.effects = op.effects \cup {effect}
<1>1. PICK o : o = [op EXCEPT !.effects = @ \cup {effect}]
  OBVIOUS
<1>2. Shaped(o) /\ o.out = op.out /\ o.effects = op.effects \cup {effect}
  BY <1>1 DEF Shaped
<1>3. op' = Advance(step, o) /\ fs' = f
  BY <1>1 DEF Change
<1> QED
  BY <1>2, <1>3, AdvanceIs

LEMMA FillsClean ==
    ASSUME BrokerInv, ProtectionInv, Fills
    PROVE  Grows /\ Clean
<1>1. PICK step \in {"Truncate", "WriteData", "CopyData"} : Doing(step)
  BY DEF Fills, Truncate, WriteData, CopyData, WriteFails
<1>2. CallInv /\ step \in op.todo /\ FileSystem(fs) /\ Shaped(op) /\ Global /\ DestNotSecret
  BY <1>1 DEF BrokerInv, ProtectionInv, Global, Running, Doing
<1>3. op.h2.node \notin SecretNodes
  <2>1. Writes
    BY <1>2 DEF CallInv, Plan
  <2>2. op.todo \cap {"OpenDest", "CheckDest", "CheckDestLinks", "CreateDest"} = {}
    BY <1>1, Before
  <2> QED
    BY <1>2, <2>1, <2>2 DEF DestNotSecret
<1>4. PICK x : x = op.h2.node
  OBVIOUS
<1>5. ASSUME NEW data \in Contents \cup {None}, data # "secret", fs' = Filled(x, data), op'.out = op.out,
             op'.effects = op.effects \cup {"write"}
      PROVE  Grows /\ Clean
  BY <1>2, <1>3, <1>4, <1>5, DataSafe DEF Global, Clean
<1>6. ASSUME NEW s, NEW data \in Contents \cup {None}, data # "secret", Change(s, [fs EXCEPT !.data[op.h2.node] = data], op, "write")
      PROVE  Grows /\ Clean
  <2>1. PICK f, effect : f = Filled(x, data) /\ effect = "write"
    OBVIOUS
  <2>2. Change(s, f, op, effect)
    BY <1>4, <1>6, <2>1 DEF Filled
  <2>3. fs' = f /\ op'.out = op.out /\ op'.effects = op.effects \cup {effect}
    BY <1>2, <2>2, ChangeIs
  <2> QED
    BY <1>5, <1>6, <2>1, <2>3
<1>7. CASE Truncate \/ WriteData
  <2>1. PICK data : data \in {"empty", "new"} /\ Change(step, [fs EXCEPT !.data[op.h2.node] = data], op, "write")
    BY <1>1, <1>7, DoingOne DEF Truncate, WriteData
  <2> QED
    BY <1>6, <2>1 DEF Contents
<1>8. CASE CopyData
  <2>1. PICK data : data = fs.data[op.h1.node]
    OBVIOUS
  <2>2. data # "secret" /\ data \in Contents \cup {None}
    BY <1>2, <1>8, <2>1, ReadIsOpen DEF FileSystem
  <2>3. Change("CopyData", [fs EXCEPT !.data[op.h2.node] = data], op, "write")
    BY <1>8, <2>1 DEF CopyData
  <2> QED
    BY <1>6, <2>2, <2>3
<1>9. CASE WriteFails
  <2>1. PICK a, data : a = Ended(op, "io_error") /\ data = "partial"
    OBVIOUS
  <2>2. Shaped(a) /\ a.out = op.out /\ a.effects = op.effects
    BY <1>2, <2>1, EndedIs
  <2>3. fs' = Filled(x, data) /\ op' = [a EXCEPT !.effects = @ \cup {"write"}]
    BY <1>4, <1>9, <2>1 DEF WriteFails, Filled
  <2>4. op'.out = op.out /\ op'.effects = op.effects \cup {"write"}
    BY <2>2, <2>3 DEF Shaped
  <2>5. data \in Contents \cup {None} /\ data # "secret"
    BY <2>1 DEF Contents
  <2> QED
    BY <1>5, <2>3, <2>4, <2>5
<1> QED
  BY <1>7, <1>8, <1>9 DEF Fills

LEMMA CopyTreeClean ==
    ASSUME BrokerInv, ProtectionInv, CopyTree
    PROVE  Grows /\ Clean
<1>1. Doing("CopyTree") /\ CallInv /\ FileSystem(fs) /\ Shaped(op) /\ Global /\ TreeSource /\ TreeJobs /\ TreeCopy
  BY DEF CopyTree, Doing, BrokerInv, ProtectionInv, Global, Running, CallInv, Plan
<1>2. CASE Continue("CopyTree", op) \/ \E result : Stop(result)
  BY <1>1, <1>2, CleanOn, CleanEnd DEF Global
<1>3. CASE fs' = fs /\ op' = [op EXCEPT !.pending = Tail(@)]
  <2>1. op'.out = op.out /\ op'.effects = op.effects
    BY <1>1, <1>3 DEF Shaped
  <2> QED
    BY <1>1, <1>3, <2>1, QuietClean DEF Global
<1>4. CASE \E e, kind, data, more : CopiesOne(e, kind, data, more)
  <2>1. PICK e, kind, data, more : CopiesOne(e, kind, data, more)
    BY <1>4
  <2>2. PICK x, slot, effect : x = At(<<e.from, e.name>>) /\ slot = <<e.to, e.name>> /\ effect = "create"
    OBVIOUS
  <2>3. /\ op.pending # <<>> /\ e = Head(op.pending) /\ e \in Jobs /\ x # None
        /\ Free # {} /\ At(slot) = None /\ fs' = Make(SlotPath(slot), kind, data) /\ kind \in {"dir", "file"}
        /\ op'.out = op.out /\ op'.effects = op.effects \cup {effect}
        /\ \/ data = fs.data[x] /\ LinksAllowed(e.path, Links(x), FALSE)
           \/ data = None
    BY <1>1, <2>1, <2>2 DEF CopiesOne, Shaped
  <2>4. x \in Nodes /\ \E q, p : SlotOf(slot, q, p)
    BY <1>1, <2>2, <2>3, NextJob
  <2>5. JobIsAt(e)
    <3>1. 1 \in DOMAIN op.pending /\ e = op.pending[1]
      <4>1. PICK left, none : none = <<>> /\ Joined(none, Tail(op.pending), left)
        BY DEF Joined
      <4>2. op.pending \in Seq(Jobs)
        BY <1>1 DEF CallInv, FillingHeld
      <4> QED
        BY <2>3, <4>1, <4>2, JobsLeft, EmptySeq
    <3> QED
      BY <1>1, <3>1 DEF TreeJobs
  <2>6. ASSUME data = fs.data[x], LinksAllowed(e.path, Links(x), FALSE), data = "secret"
        PROVE  FALSE
    <3>1. x \in SecretNodes
      BY <1>1, <2>4, <2>6 DEF Global, SecretsOnly
    <3>2. Stands(x, e.path)
      BY <1>1, <2>2, <2>3, <2>5, <3>1, JobFinds
    <3>3. "ScanSource" \notin op.todo
      BY <1>1, Before
    <3>4. \A s \in Secrets : s.path # e.path
      BY <1>1, <2>5, <3>3 DEF TreeSource, JobIsAt
    <3> QED
      BY <1>1, <2>6, <3>1, <3>2, <3>4, LinksProtect DEF Global
  <2>7. data # "secret" /\ data \in Contents \cup {None}
    BY <1>1, <2>3, <2>4, <2>6, NoneIsOpen DEF FileSystem
  <2>8. effect # "rename"
    BY <2>2
  <2> QED
    BY <1>1, <2>3, <2>4, <2>7, <2>8, MadeClean
<1> QED
  BY <1>2, <1>3, <1>4, CopyTreeIs

\* Where the handle of the entry was opened.
LEMMA EntryIsAt ==
    ASSUME BrokerInv, ProtectionInv, Running, Pending, Moving, op.todo \cap {"VerifySourceParent", "OpenChild"} = {},
           NEW x, x = op.h1.node, NEW path, path = op.src.path, Stands(x, path)
    PROVE  FinalPath(op.h1) = path
<1>1. /\ FileSystem(fs) /\ CallInv /\ SourceParent /\ SourceChild /\ Plan
  BY DEF BrokerInv, ProtectionInv, CallInv
<1>2. path \in Seq(Names) /\ path # <<>>
  BY <1>1, SourceTyped DEF Plan, Moving
<1>3. PICK d, above, name : d = op.p1.node /\ above = Front(path) /\ name = Last(path)
  OBVIOUS
<1>4. Stands(d, above) /\ IsDir(d) /\ op.h1.at = <<d, name>>
  BY <1>1, <1>3 DEF SourceParent, SourceChild
<1>5. name \in Names /\ Append(above, name) = path
  BY <1>2, <1>3, FrontIs
<1>6. SlotPath(<<d, name>>) = path
  BY <1>1, <1>4, <1>5, SlotOfDir
<1> QED
  BY <1>4, <1>6 DEF FinalPath, NamesOf, Stands

LEMMA UnlinkClean ==
    ASSUME BrokerInv, ProtectionInv, Unlink
    PROVE  Clean
<1>1. Doing("Unlink")
  BY DEF Unlink
<1>2. CallInv /\ "Unlink" \in op.todo /\ FileSystem(fs) /\ Shaped(op) /\ Global /\ SourceChild /\ Judged /\ Running
  BY <1>1 DEF BrokerInv, ProtectionInv, Global, Running, Doing
<1>3. op.req.kind = "delete" /\ op.src.exists /\ op.src.path # <<>> /\ CanonicalPath(op.src) /\ "CheckSource" \notin op.todo
  BY <1>1, <1>2, Earlier DEF CallInv, Plan
<1>4. op.h1.node = op.src.id /\ op.src.id # Root
  BY <1>2, <1>3 DEF CallInv, HandlesRight, Identified, CanonicalPath
<1>5. CASE Stop("io_error")
  BY <1>2, <1>5, CleanEnd
<1>6. CASE /\ NamesOf(op.h1.node) # {} /\ Children(op.h1.node) = {}
           /\ Change("Unlink", Erase(FinalPath(op.h1)), op, "unlink")
  <2>1. PICK p, f, effect, x, path : p = FinalPath(op.h1) /\ f = Erase(p) /\ effect = "unlink" /\ x = op.h1.node /\ path = op.src.path
    OBVIOUS
  <2>2. Stands(x, p)
    BY <1>2, <1>6, <2>1, FinalPathIs
  <2>3. p \in Paths /\ fs.tree[p] = x /\ p # <<>> /\ p \in Seq(Names) /\ Children(fs.tree[p]) = {}
    BY <1>2, <1>4, <1>6, <2>1, <2>2, PathsTyped DEF Stands
  <2>4. fs' = f /\ op'.out = op.out /\ op'.effects = op.effects \cup {effect}
    BY <1>2, <1>6, <2>1, ChangeIs
  <2>5. ASSUME NEW s \in Secrets, p = s.path PROVE FALSE
    <3>1. x \in SecretNodes
      BY <1>2, <2>2, <2>5, SecretsAre DEF Global, SecretsHeld, Stands
    <3>2. op.todo \cap {"VerifySourceParent", "OpenChild"} = {}
      BY <1>1, Before
    <3>3. Pending /\ Moving
      BY <1>3 DEF Pending, Moving
    <3>4. Stands(x, path)
      BY <1>2, <2>1, <3>1, <3>2, <3>3 DEF SourceChild
    <3>5. p = path
      BY <1>2, <2>1, <3>2, <3>3, <3>4, EntryIsAt
    <3> QED
      BY <1>2, <1>3, <2>1, <2>5, <3>5, SecretsDenied DEF Judged
  <2>6. Safe
    BY <1>2, <2>1, <2>3, <2>4, <2>5, EraseSafe DEF Global
  <2>7. effect # "rename"
    BY <2>1
  <2> QED
    BY <1>2, <2>4, <2>6, <2>7 DEF Clean, Global
<1> QED
  BY <1>5, <1>6 DEF Unlink

\* What lies below the entry is not on the way to it.
LEMMA BelowIsElsewhere ==
    ASSUME FileSystem(fs), NEW x, NEW path \in Seq(Names), path # <<>>, NotAbove(x, path), NEW q, Stands(x, q),
           NEW p \in Paths, IsStrictPrefix(q, p)
    PROVE  p # path /\ p # Front(path)
<1>1. q \in Seq(Names) /\ p \in Seq(Names) /\ Len(path) \in Nat
  BY PathsTyped, LenProperties DEF Stands
<1>2. ASSUME IsStrictPrefix(q, path) PROVE FALSE
  <2>1. Len(q) \in 0 .. Len(path) /\ q = First(path, Len(q))
    BY <1>1, <1>2, PrefixIs DEF IsStrictPrefix
  <2>2. Len(q) # Len(path)
    BY <1>1, <1>2, PrefixLen DEF IsStrictPrefix
  <2>3. Len(q) \in 0 .. Len(path) - 1
    BY <1>1, <2>1, <2>2
  <2> QED
    BY <2>1, <2>3 DEF NotAbove
<1>3. ASSUME p = Front(path) PROVE IsStrictPrefix(q, path)
  <2>1. Front(path) \in Seq(Names) /\ Append(Front(path), Last(path)) = path /\ Last(path) \in Names
    BY FrontIs
  <2>2. IsPrefix(p, path)
    BY <1>3, <2>1, AppendExtends DEF IsStrictPrefix
  <2> QED
    BY <1>1, <2>2, StrictTrans DEF IsStrictPrefix
<1> QED
  BY <1>2, <1>3

LEMMA DeleteTreeClean ==
    ASSUME BrokerInv, ProtectionInv, DeleteTree
    PROVE  Gentle /\ Clean
<1>1. Doing("DeleteTree")
  BY DEF DeleteTree
<1>2. CallInv /\ "DeleteTree" \in op.todo /\ FileSystem(fs) /\ Shaped(op) /\ Global /\ SourceChild /\ SourceClean
  BY <1>1 DEF BrokerInv, ProtectionInv, Global, Running, Doing
<1>3. op.req.kind = "delete" /\ Pending /\ "OpenChild" \notin op.todo /\ "Inspect" \notin op.todo
      /\ op.src.path # <<>> /\ op.src.path \in Seq(Names)
  <2>1. op.req.kind = "delete" /\ op.src.path # <<>> /\ op.src.path \in Seq(Names)
    BY <1>2, SourceTyped DEF CallInv, Plan
  <2>2. "OpenChild" \notin op.todo /\ "Inspect" \notin op.todo
    BY <1>1, Before
  <2> QED
    BY <2>1, <2>2 DEF Pending
<1>4. CASE Continue("DeleteTree", op)
  <2>1. Grows /\ Clean
    BY <1>2, <1>4, CleanOn DEF Global
  <2> QED
    BY <2>1, GrowsGently DEF Clean, Safe
<1>5. ASSUME NEW p \in Under(op.h1.node), Children(fs.tree[p]) = {}, fs' = Erase(p),
             op' = [op EXCEPT !.effects = @ \cup {"unlink"}]
      PROVE  Gentle /\ Clean
  <2>1. PICK x, path, above : x = op.h1.node /\ path = op.src.path /\ above = Front(path)
    OBVIOUS
  <2>2. PICK q \in NamesOf(x) : IsStrictPrefix(q, p) /\ p \in Paths
    BY <1>5, <2>1 DEF Under
  <2>3. Stands(x, q) /\ q \in Seq(Names) /\ p \in Seq(Names) /\ IsPrefix(q, p) /\ q # p /\ q \in Paths /\ fs.tree[q] = x
    BY <1>2, <2>2, PathsTyped DEF IsStrictPrefix, NamesOf, Stands
  <2>4. p # <<>>
    <3>1. SUFFICES ASSUME p = <<>> PROVE FALSE
      OBVIOUS
    <3>2. Len(q) <= Len(p) /\ Len(q) \in Nat
      BY <2>3, PrefixComponents, LenProperties
    <3>3. Len(q) = 0
      BY <3>1, <3>2
    <3> QED
      BY <2>3, <3>1, <3>3, EmptySeq
  <2>5. op'.out = op.out /\ op'.effects = op.effects \cup {"unlink"}
    BY <1>2, <1>5 DEF Shaped
  <2>6. ASSUME NEW s \in Secrets, p = s.path PROVE FALSE
    <3>1. LeadsToSecret(x)
      BY <2>2, <2>3, <2>6 DEF LeadsToSecret
    <3> QED
      BY <1>2, <1>3, <2>1, <3>1 DEF SourceClean
  <2>7. Safe /\ (\A y, r : Stands(y, r) /\ r # p => Stands(y, r)') /\ fs'.kind = fs.kind
    BY <1>2, <1>5, <2>2, <2>4, <2>6, EraseSafe DEF Global
  <2>8. p # path /\ p # above
    BY <1>2, <1>3, <2>1, <2>2, <2>3, BelowIsElsewhere DEF SourceChild
  <2>9. Undisturbed(path) /\ Undisturbed(above)
    BY <2>7, <2>8 DEF Undisturbed, Stands, Paths
  <2>10. KindsStay
    BY <2>7 DEF KindsStay
  <2>11. Gentle
    BY <2>1, <2>7, <2>9, <2>10 DEF Gentle, Safe
  <2>12. ("rename" \in op'.effects) <=> ("rename" \in op.effects)
    BY <2>5
  <2> QED
    BY <1>2, <2>5, <2>7, <2>11, <2>12 DEF Clean, Global
<1> QED
  BY <1>4, <1>5 DEF DeleteTree

LEMMA RenameProtects ==
    ASSUME BrokerInv, BrokerInv', ProtectionInv, Rename
    PROVE  Global' \/ (Grows /\ Clean)
<1>1. Doing("Rename")
  BY DEF Rename
<1>2. CallInv /\ "Rename" \in op.todo /\ FileSystem(fs) /\ Shaped(op) /\ Global /\ SourceClean /\ Judged /\ FileSystem(fs)'
  BY <1>1 DEF BrokerInv, ProtectionInv, Global, Running, Doing
<1>3. CASE Stop("io_error")
  BY <1>2, <1>3, CleanEnd
<1> DEFINE slot == <<op.p2.node, Last(op.dst.path)>>
<1>4. ASSUME IsDir(op.p2.node), NamesOf(op.h1.node) # {}, ~Below(op.p2.node, op.h1.node),
             At(slot) = None \/ (~IsDir(At(slot)) /\ At(slot) # op.h1.node),
             Change("Rename", [fs EXCEPT !.tree = Moved(Without(@, SlotPath(slot)), FinalPath(op.h1), SlotPath(slot))], op, "rename")
      PROVE  Global'
  <2>1. PICK s, from, q, x, effect : s = slot /\ from = FinalPath(op.h1) /\ q = op.dst.path /\ x = op.h1.node /\ effect = "rename"
    OBVIOUS
  <2>2. /\ SlotPath(s) = q /\ q \in Seq(Names) /\ q # <<>> /\ from \in Paths /\ from # <<>> /\ from # q
        /\ q \in Paths => ~IsDir(fs.tree[q])
        /\ Front(q) \in Paths /\ IsDir(fs.tree[Front(q)]) /\ ~IsPrefix(from, q)
        /\ fs.tree[from] = x /\ op.req.kind = "move"
    BY <1>1, <1>4, <2>1, RenameIs
  <2>3. PICK t : t = Without(fs.tree, q)
    OBVIOUS
  <2>4. PICK f : f = [fs EXCEPT !.tree = Moved(t, from, q)]
    OBVIOUS
  <2>5. Change("Rename", f, op, effect)
    BY <1>4, <2>1, <2>2, <2>3, <2>4
  <2>6. fs' = f /\ op'.out = op.out /\ op'.effects = op.effects \cup {effect}
    BY <1>2, <2>5, ChangeIs
  <2>7. /\ f.tree = Moved(t, from, q) /\ f.data = fs.data /\ f.kind = fs.kind /\ IsTree(t, fs.kind)
        /\ (\A r : r \in DOMAIN t <=> r \in Paths /\ r # q) /\ \A r \in DOMAIN t : t[r] = fs.tree[r]
    BY <1>2, <2>2, <2>3, <2>4, ReplaceKeeps
  <2>8. PICK u : u = Moved(t, from, q)
    OBVIOUS
  <2>9. \A r \in DOMAIN t : ~IsPrefix(from, r) => r \in DOMAIN u /\ u[r] = t[r]
    <3>1. from \in Seq(Names) /\ q \notin DOMAIN t
      BY <1>2, <2>2, <2>7, PathsTyped
    <3> QED
      BY <2>2, <2>7, <2>8, <3>1, MovedIs
  <2>10. fs'.tree = u /\ fs'.data = fs.data /\ fs'.kind = fs.kind
    BY <2>6, <2>7, <2>8
  <2>11. \A r \in Paths : r # q /\ ~IsPrefix(from, r) => r \in Paths' /\ fs'.tree[r] = fs.tree[r]
    BY <2>7, <2>9, <2>10 DEF Paths
  <2>12. x \notin SecretNodes /\ ~LeadsToSecret(x)
    <3>1. "CheckMoved" \notin op.todo /\ Pending
      BY <1>1, <1>2, <2>2, Before DEF Pending
    <3> QED
      BY <1>2, <2>1, <2>2, <3>1 DEF SourceClean
  <2>13. ASSUME NEW secret \in Secrets
         PROVE  /\ secret.path \in Paths /\ fs.tree[secret.path] = secret.node /\ secret.path # q /\ ~IsPrefix(from, secret.path)
                /\ secret.node \in SecretNodes /\ secret.path \in Seq(Names) /\ from \in Seq(Names)
    <3>1. secret.path \in Paths /\ fs.tree[secret.path] = secret.node /\ secret.node \in SecretNodes /\ secret.path \in Seq(Names)
      BY <1>2, SecretsAre DEF Global, SecretsHeld, Stands
    <3>2. HasDest
      BY <2>2 DEF HasDest
    <3>3. secret.path # q
      BY <1>2, <2>1, <3>2, SecretsDenied DEF Judged
    <3>4. ~IsPrefix(from, secret.path)
      BY <2>2, <2>12, <3>1 DEF LeadsToSecret, IsStrictPrefix
    <3> QED
      BY <1>2, <2>2, <3>1, <3>3, <3>4, PathsTyped
  <2>14. SecretsHeld'
    <3>1. ASSUME NEW secret \in Secrets
          PROVE  Stands(secret.node, secret.path)'
      BY <2>11, <2>13 DEF Stands
    <3> QED
      BY <1>2, <2>10, <3>1 DEF SecretsHeld, Global
  <2>15. SecretsOnly'
    BY <1>2, <2>10 DEF SecretsOnly, Global
  <2>16. SecretWays'
    <3> SUFFICES ASSUME NEW p \in Paths', NEW secret \in Secrets, IsStrictPrefix(p, secret.path),
                        NEW y, y = fs'.tree[p]
                 PROVE  y \in Fixed
      BY <2>1, <2>6 DEF SecretWays
    <3>1. IsTree(fs.tree, fs.kind) /\ IsPrefix(p, secret.path) /\ p \in Seq(Names) /\ p # secret.path
      BY <1>2 DEF FileSystem, IsTree, IsStrictPrefix, Paths
    <3>2. p \in Paths /\ IsDir(fs.tree[p])
      BY <2>13, <3>1, TreePrefix DEF Paths, IsDir
    <3>3. p # q
      BY <2>2, <3>2
    <3>4. ~IsPrefix(from, p)
      BY <2>13, <3>1, PrefixTrans
    <3>5. fs.tree[p] \in Fixed
      BY <1>2, <2>13, <3>2 DEF Global, SecretWays
    <3> QED
      BY <2>11, <3>2, <3>3, <3>4, <3>5
  <2> QED
    BY <1>2, <2>6, <2>14, <2>15, <2>16 DEF Global
<1>5. Stop("io_error") \/
      (/\ IsDir(op.p2.node) /\ NamesOf(op.h1.node) # {} /\ ~Below(op.p2.node, op.h1.node)
       /\ At(slot) = None \/ (~IsDir(At(slot)) /\ At(slot) # op.h1.node)
       /\ Change("Rename", [fs EXCEPT !.tree = Moved(Without(@, SlotPath(slot)), FinalPath(op.h1), SlotPath(slot))], op, "rename"))
  BY DEF Rename
<1> HIDE DEF slot
<1> QED
  BY <1>3, <1>4, <1>5

\* What a step leaves in place.
LEMMA StepLeaves ==
    ASSUME BrokerInv, BrokerInv', ProtectionInv, Step
    PROVE  /\ Global'
           /\ Unlink \/ DeleteTree \/ Rename \/ (Grows /\ Tame)
           /\ DeleteTree => Gentle
<1>1. Opens \/ Checks \/ Looks \/ Fills \/ MakeDirs \/ CreateDest \/ Unlink \/ DeleteTree \/ Rename \/ CopyTree
  BY DEF Step, Opens, Checks, Looks, Fills
<1>2. Shaped(op) /\ Global /\ FileSystem(fs) /\ FileSystem(fs)'
  BY DEF BrokerInv, ProtectionInv, Global
<1>3. ASSUME Clean PROVE Global'
  <2>1. SecretWays'
    BY <1>2, <1>3, WaysStay DEF Clean, Safe, Global
  <2> QED
    BY <1>3, <2>1 DEF Clean, Safe, Global
<1>4. CASE Opens \/ Checks \/ Looks \/ Fills \/ MakeDirs \/ CreateDest \/ CopyTree
  <2>1. Grows /\ Clean
    BY <1>2, <1>4, ChecksClean, LooksClean, FillsClean, DirsClean, FileClean, CopyTreeClean
  <2>2. DeleteTree => Gentle
    BY DeleteTreeClean
  <2> QED
    BY <1>3, <2>1, <2>2 DEF Clean, Safe
<1>5. CASE Unlink
  <2>1. DeleteTree => Gentle
    BY DeleteTreeClean
  <2> QED
    BY <1>3, <1>5, <2>1, UnlinkClean
<1>6. CASE DeleteTree
  BY <1>3, <1>6, DeleteTreeClean
<1>7. CASE Rename
  <2>1. DeleteTree => Gentle
    BY DeleteTreeClean
  <2> QED
    BY <1>3, <1>7, <2>1, RenameProtects
<1> QED
  BY <1>1, <1>4, <1>5, <1>6, <1>7

LEMMA StepProtects ==
    ASSUME BrokerInv, ProtectionInv, Step
    PROVE  ProtectionInv'
<1>1. BrokerInv'
  BY StepKeeps
<1>2. Global' /\ (Unlink \/ DeleteTree \/ Rename \/ (Grows /\ Tame)) /\ (DeleteTree => Gentle)
  BY <1>1, StepLeaves
<1>3. ASSUME Running'
      PROVE  /\ Remaining' /\ LastStep' /\ Judged' /\ DestOpened' /\ DestIsFile' /\ DestNotSecret' /\ SourceRead'
             /\ SourceParent' /\ SourceChild' /\ SourceClean' /\ TreeSource' /\ TreeJobs'
  <2>1. PICK step : Goes(step) /\ StepIs(step)
    BY <1>3, StepGoes
  <2>2. /\ CallInv /\ Plan /\ Remaining /\ LastStep /\ Judged /\ Shaped(op) /\ FileSystem(fs)' /\ Doing(step) /\ step \in op.todo
        /\ op'.req = op.req /\ op'.src = op.src /\ op'.dst = op.dst
    BY <1>1, <2>1 DEF BrokerInv, ProtectionInv, CallInv, Running, Goes, Doing
  <2>3. /\ Unlink => step = "Unlink"
        /\ DeleteTree => step = "DeleteTree"
        /\ Rename => step = "Rename"
    <3>1. (Unlink => Doing("Unlink")) /\ (DeleteTree => Doing("DeleteTree")) /\ (Rename => Doing("Rename"))
      BY DEF Unlink, DeleteTree, Rename
    <3> QED
      BY <2>2, <3>1, DoingOne
  <2>4. /\ step \in {"Unlink", "DeleteTree"} => op.req.kind = "delete"
        /\ step = "Rename" => op.req.kind = "move"
    BY <2>2 DEF Plan
  <2>5. step # "Unlink"
    BY <1>3, <2>1, <2>2, <2>4, Left DEF Ending
  <2>6. ~Moving => Grows /\ Tame
    BY <1>2, <2>3, <2>4 DEF Moving
  <2>7. (Writes => ~Moving) /\ (FileRead => ~Moving) /\ (TreeCopy => ~Moving)
    BY DEF Writes, FileRead, TreeCopy, Moving
  <2>8. Moving /\ step # "Rename" => Gentle
    BY <1>2, <2>3, <2>5, GrowsGently
  <2>9. step = "Inspect" => "Unlink" \in op'.todo
    BY <1>3, <2>1, <2>2, InspectLeaves DEF StepIs
  <2>10. Remaining' /\ LastStep' /\ Judged'
    BY <1>3, <2>1, <2>2, <2>9, RemainingKeeps, LastStepKeeps, JudgedKeeps
  <2>11. DestOpened' /\ DestIsFile' /\ DestNotSecret'
    BY <1>1, <1>3, <2>1, <2>2, <2>6, <2>7, DestKeeps
  <2>12. SourceRead'
    BY <1>3, <2>1, <2>6, <2>7, SourceReadKeeps
  <2>13. SourceParent' /\ SourceChild' /\ SourceClean'
    BY <1>3, <2>1, <2>2, <2>8, EntryKeeps
  <2>14. TreeSource'
    BY <1>3, <2>1, <2>6, <2>7, TreeSourceKeeps
  <2>15. TreeJobs'
    BY <1>1, <1>3, <2>1, <2>2, <2>6, <2>7, TreeJobsKeeps
  <2> QED
    BY <2>10, <2>11, <2>12, <2>13, <2>14, <2>15
<1> QED
  BY <1>2, <1>3 DEF ProtectionInv, Global, Running

-----------------------------------------------------------------------------
\* What other programs do to protected objects

\* They take away what is movable, put back nothing else where it was, and give
\* no protected object a name unless they move what is above one.
Aside ==
    /\ op' = op
    /\ \A x, q : Stands(x, q) => Stands(x, q)' \/ \E p \in Paths : Movable(fs.tree[p]) /\ IsPrefix(p, q)
    /\ \A p \in Paths : p \in Paths' => fs'.tree[p] = fs.tree[p]
    /\ \A x \in SecretNodes : \A r : Stands(x, r)' =>
           Stands(x, r) \/ \E p, q \in Paths : Movable(fs.tree[p]) /\ IsPrefix(p, q) /\ Stands(x, q)
    /\ KindsStay
    /\ \A x \in Nodes : fs'.data[x] = fs.data[x] \/ (fs'.data[x] # "secret" /\ \A q : ~Stands(x, q))

LEMMA MoveAside ==
    ASSUME BrokerInv, NEW t \in Vacant, NEW p \in Paths \ {<<>>}, MoveEntry(p, t)
    PROVE  Aside
<1>1. FileSystem(fs) /\ p \in Seq(Names) /\ IsTree(fs.tree, fs.kind)
  BY PathsTyped DEF BrokerInv, FileSystem
<1>2. t \in Seq(Names) /\ t # <<>> /\ t \notin Paths /\ Front(t) \in Paths /\ IsDir(fs.tree[Front(t)])
  BY <1>1, VacantIs
<1>3. Movable(fs.tree[p]) /\ ~IsPrefix(p, t) /\ op' = op /\ fs' = [fs EXCEPT !.tree = Moved(@, p, t)]
  BY DEF MoveEntry, Intervene
<1>4. fs'.tree = Moved(fs.tree, p, t) /\ fs'.kind = fs.kind /\ fs'.data = fs.data
  BY <1>1, <1>2, <1>3, MoveKeeps
<1>5. PICK tr, k, u : tr = fs.tree /\ k = fs.kind /\ u = Moved(tr, p, t)
  OBVIOUS
<1>6. t \notin DOMAIN tr /\ IsTree(tr, k)
  BY <1>1, <1>2, <1>5 DEF Paths
<1>7. /\ \A r \in DOMAIN tr : ~IsPrefix(p, r) => r \in DOMAIN u /\ u[r] = tr[r]
      /\ \A r \in DOMAIN u :
             \/ r \in DOMAIN tr /\ ~IsPrefix(p, r) /\ u[r] = tr[r]
             \/ r \notin DOMAIN tr /\ \E q \in DOMAIN tr : IsPrefix(p, q) /\ u[r] = tr[q]
  BY <1>1, <1>2, <1>5, <1>6, MovedIs
<1>8. fs'.tree = u
  BY <1>4, <1>5
<1>9. \A x, q : Stands(x, q) => Stands(x, q)' \/ IsPrefix(p, q)
  BY <1>5, <1>7, <1>8 DEF Stands, Paths
<1>10. \A r \in Paths : r \in Paths' => fs'.tree[r] = fs.tree[r]
  BY <1>5, <1>7, <1>8 DEF Paths
<1>11. \A x, r : Stands(x, r)' => Stands(x, r) \/ \E q \in Paths : IsPrefix(p, q) /\ Stands(x, q)
  BY <1>5, <1>7, <1>8 DEF Stands, Paths
<1>12. KindsStay
  BY <1>4 DEF KindsStay
<1> QED
  BY <1>3, <1>4, <1>9, <1>10, <1>11, <1>12 DEF Aside

LEMMA RemoveAside ==
    ASSUME BrokerInv, NEW p \in Paths \ {<<>>}, RemoveEntry(p)
    PROVE  Aside
<1>1. FileSystem(fs) /\ p \in Seq(Names)
  BY PathsTyped DEF BrokerInv
<1>2. Movable(fs.tree[p]) /\ Children(fs.tree[p]) = {} /\ op' = op /\ fs' = Erase(p)
  BY DEF RemoveEntry, Intervene
<1>3. /\ (\A q : q \in DOMAIN fs'.tree <=> q \in Paths /\ q # p)
      /\ \A q \in Paths \ {p} : fs'.tree[q] = fs.tree[q]
      /\ fs'.kind = fs.kind /\ fs'.data = fs.data
  BY <1>1, <1>2, EraseKeeps
<1>4. IsPrefix(p, p)
  BY <1>1, PrefixComponents, LenProperties
<1>5. \A x, q : Stands(x, q) => Stands(x, q)' \/ q = p
  BY <1>3 DEF Stands, Paths
<1>6. (\A r \in Paths : r \in Paths' => fs'.tree[r] = fs.tree[r]) /\ \A x, r : Stands(x, r)' => Stands(x, r)
  BY <1>3 DEF Stands, Paths
<1>7. KindsStay
  BY <1>3 DEF KindsStay
<1> QED
  BY <1>2, <1>3, <1>4, <1>5, <1>6, <1>7 DEF Aside

\* A new entry: of a new object, or of a file that is not protected.
LEMMA PutAside ==
    ASSUME FileSystem(fs), op' = op, NEW t, NEW y, y \notin SecretNodes, t \notin Paths,
           \A q : q \in DOMAIN fs'.tree <=> q \in Paths \/ q = t,
           fs'.tree[t] = y, \A q \in Paths : fs'.tree[q] = fs.tree[q],
           \A x, q : Stands(x, q) => fs'.kind[x] = fs.kind[x],
           \A x \in Nodes : fs'.data[x] = fs.data[x] \/ (fs'.data[x] # "secret" /\ \A q : ~Stands(x, q))
    PROVE  Aside
<1>1. \A x, q : Stands(x, q) => Stands(x, q)'
  BY DEF Stands, Paths
<1>2. \A r \in Paths : r \in Paths' => fs'.tree[r] = fs.tree[r]
  BY DEF Paths
<1>3. \A x, r : Stands(x, r)' => Stands(x, r) \/ x = y
  BY DEF Stands, Paths
<1>4. KindsStay
  BY DEF KindsStay
<1> QED
  BY <1>1, <1>2, <1>3, <1>4 DEF Aside

LEMMA NewAside ==
    ASSUME FileSystem(fs), SecretsHeld, op' = op, NEW t \in Vacant, Free # {}, NEW kind \in Kinds, kind # "free",
           NEW data \in Contents \cup {None}, data # "secret", NEW f, f = Make(t, kind, data),
           fs'.tree = f.tree, fs'.kind = f.kind, fs'.data = f.data
    PROVE  Aside
<1>1. t \in Seq(Names) /\ t # <<>> /\ t \notin Paths /\ Front(t) \in Paths /\ IsDir(fs.tree[Front(t)])
  BY VacantIs
<1>2. PICK y : y = Fresh
  OBVIOUS
<1>3. y \in Nodes /\ fs.kind[y] = "free" /\ \A q \in Paths : fs.tree[q] # y
  BY <1>2, FreshIs
<1>4. y \notin SecretNodes
  BY <1>3, SecretIs
<1>5. /\ (\A q : q \in DOMAIN f.tree <=> q \in Paths \/ q = t) /\ f.tree[t] = y
      /\ \A q \in Paths : f.tree[q] = fs.tree[q]
      /\ \A x \in Nodes : f.kind[x] = IF x = y THEN kind ELSE fs.kind[x]
      /\ \A x \in Nodes : f.data[x] = IF x = y THEN data ELSE fs.data[x]
  BY <1>1, <1>2, MakeKeeps
<1>6. \A x, r : Stands(x, r) => fs'.kind[x] = fs.kind[x]
  BY <1>3, <1>5, PathsTyped DEF Stands
<1>7. \A q : ~Stands(y, q)
  BY <1>3 DEF Stands
<1>8. \A x \in Nodes : fs'.data[x] = fs.data[x] \/ (fs'.data[x] # "secret" /\ \A q : ~Stands(x, q))
  BY <1>5, <1>7
<1> QED
  BY <1>1, <1>4, <1>5, <1>6, <1>8, PutAside

LEMMA OthersAside ==
    ASSUME BrokerInv, SecretsHeld, Others
    PROVE  Aside
<1>1. FileSystem(fs)
  BY DEF BrokerInv
<1>2. ASSUME NEW t \in Vacant, NEW p \in Paths \ {<<>>}, HardLink(p, t) PROVE Aside
  <2>1. p \in Paths /\ op' = op /\ t \notin Paths /\ fs.tree[p] \notin SecretNodes
    BY <1>1, <1>2, VacantIs DEF HardLink, Intervene
  <2>2. /\ (\A q : q \in DOMAIN fs'.tree <=> q \in Paths \/ q = t) /\ fs'.tree[t] = fs.tree[p]
        /\ \A q \in Paths : fs'.tree[q] = fs.tree[q]
        /\ fs'.kind = fs.kind /\ fs'.data = fs.data
    BY <1>1, <1>2, <2>1, HardLinkKeeps
  <2>3. PICK y : y = fs.tree[p]
    OBVIOUS
  <2> QED
    BY <1>1, <2>1, <2>2, <2>3, PutAside
<1>3. ASSUME NEW t \in Vacant, NEW path \in LinkTargets, PlantLink(t, path) PROVE Aside
  <2>1. PICK kind, data, x, f : kind = "link" /\ data = None /\ x = Fresh /\ f = Make(t, kind, data)
    OBVIOUS
  <2>2. Free # {} /\ op' = op /\ fs' = [f EXCEPT !.target[x] = path]
    BY <1>3, <2>1 DEF PlantLink, Intervene
  <2>3. kind \in Kinds /\ kind # "free" /\ data \in Contents \cup {None} /\ data # "secret"
    BY <2>1, NoneIsOpen DEF Kinds
  <2>4. f = [tree |-> f.tree, kind |-> f.kind, target |-> f.target, data |-> f.data]
    <3>1. t \in Seq(Names) /\ t # <<>> /\ t \notin Paths /\ Front(t) \in Paths /\ IsDir(fs.tree[Front(t)])
      BY <1>1, VacantIs
    <3>2. FileSystem(f)
      BY <1>1, <2>1, <2>2, <2>3, <3>1, MakeKeeps
    <3> QED
      BY <3>2 DEF FileSystem
  <2>5. fs'.tree = f.tree /\ fs'.kind = f.kind /\ fs'.data = f.data
    BY <2>2, <2>4
  <2> QED
    BY <1>1, <2>1, <2>2, <2>3, <2>5, NewAside
<1>4. ASSUME NEW t \in Vacant, PlantFile(t) PROVE Aside
  <2>1. PICK kind, data, f : kind = "file" /\ data = "other" /\ f = Make(t, kind, data)
    OBVIOUS
  <2>2. Free # {} /\ op' = op /\ fs' = f
    BY <1>4, <2>1 DEF PlantFile, Intervene
  <2>3. kind \in Kinds /\ kind # "free" /\ data \in Contents \cup {None} /\ data # "secret"
    BY <2>1 DEF Kinds, Contents
  <2> QED
    BY <1>1, <2>1, <2>2, <2>3, NewAside
<1> QED
  BY <1>2, <1>3, <1>4, MoveAside, RemoveAside DEF Others

\* Nothing above a protected object is movable.
LEMMA SecretsPinned ==
    ASSUME SecretWays, NEW p \in Paths, Movable(fs.tree[p]), NEW q, IsPrefix(p, q), NEW x \in SecretNodes, Stands(x, q)
    PROVE  "rename" \in op.effects /\ \A s \in Secrets : q # s.path
<1>1. fs.tree[p] \notin Fixed \cup SecretNodes
  BY DEF Movable
<1>2. q \in Paths /\ fs.tree[q] = x /\ p # q
  BY <1>1 DEF Stands
<1>3. IsStrictPrefix(p, q)
  BY <1>2 DEF IsStrictPrefix
<1> QED
  BY <1>1, <1>2, <1>3 DEF SecretWays

\* An open object that is pinned, fixed or protected stays where it is.
LEMMA OpenStays ==
    ASSUME Aside, Running, NEW x \in OpenNodes, x \in Pinned \cup Fixed \cup SecretNodes, NEW q, Stands(x, q)
    PROVE  Stands(x, q)'
<1> SUFFICES ASSUME NEW p \in Paths, Movable(fs.tree[p]), IsPrefix(p, q)
             PROVE  FALSE
  BY DEF Aside
<1>1. fs.tree[p] # x /\ ~Below(x, fs.tree[p])
  BY DEF Movable
<1>2. p # q
  BY <1>1 DEF Stands
<1> QED
  BY <1>1, <1>2 DEF IsStrictPrefix, Stands, Below, Under, NamesOf

LEMMA AsideSafe ==
    ASSUME BrokerInv, ProtectionInv, Aside, FileSystem(fs)'
    PROVE  Safe /\ Global'
<1>1. FileSystem(fs) /\ SecretsHeld /\ SecretsOnly /\ SecretWays /\ op.out # "secret" /\ op' = op
  BY DEF BrokerInv, ProtectionInv, Aside
<1>2. ASSUME NEW s \in Secrets
      PROVE  Stands(s.node, s.path)' /\ fs'.kind[s.node] = "file" /\ fs'.data[s.node] = "secret"
  <2>1. Stands(s.node, s.path) /\ fs.kind[s.node] = "file" /\ fs.data[s.node] = "secret" /\ s.node \in SecretNodes /\ s.node \in Nodes
    BY <1>1, SecretsAre DEF SecretsHeld
  <2>2. Stands(s.node, s.path)'
    BY <1>1, <2>1, SecretsPinned DEF Aside
  <2> QED
    BY <2>1, <2>2 DEF Aside, KindsStay
<1>3. SecretsHeld'
  BY <1>2 DEF SecretsHeld
<1>4. SecretsOnly'
  BY <1>1 DEF SecretsOnly, Aside
<1>5. Tame
  BY <1>1, SecretsPinned DEF Aside, Tame
<1>6. SecretWays'
  BY <1>1, <1>5, WaysStay
<1> QED
  BY <1>1, <1>3, <1>4, <1>5, <1>6 DEF Safe, Global

LEMMA SameAside ==
    ASSUME op' = op
    PROVE  /\ (Remaining <=> Remaining') /\ (LastStep <=> LastStep') /\ (Judged <=> Judged') /\ (Running <=> Running')
           /\ (TreeCopy <=> TreeCopy') /\ (Writes <=> Writes') /\ (FileRead <=> FileRead') /\ (Pending <=> Pending')
<1>1. (TreeCopy <=> TreeCopy') /\ (Writes <=> Writes') /\ (FileRead <=> FileRead') /\ (Pending <=> Pending') /\ (Moving <=> Moving')
      /\ (HasDest <=> HasDest') /\ (Running <=> Running')
  BY DEF TreeCopy, Writes, FileRead, Pending, Moving, HasDest, Running
<1>2. Remaining <=> Remaining'
  BY <1>1 DEF Remaining
<1>3. LastStep <=> LastStep'
  BY <1>1 DEF LastStep
<1>4. ASSUME NEW p, NEW q, p = q PROVE Denied(p)' <=> Denied(q)
  BY <1>4 DEF Denied, ClassOf, ProtectedPath
<1>5. Judged <=> Judged'
  BY <1>1, <1>4 DEF Judged
<1> QED
  BY <1>1, <1>2, <1>3, <1>5

LEMMA DestAside ==
    ASSUME BrokerInv, ProtectionInv, Running, Aside
    PROVE  DestOpened' /\ DestIsFile' /\ DestNotSecret'
<1>1. op' = op /\ FileSystem(fs) /\ DestOpened /\ DestIsFile /\ DestNotSecret /\ KindsStay
  BY DEF BrokerInv, ProtectionInv, Aside
<1>2. Writes <=> Writes'
  BY <1>1, SameAside
<1>3. PICK h, path : h = op.h2.node /\ path = op.dst.path
  OBVIOUS
<1>4. ASSUME Writes, op.todo \cap {"OpenDest", "CreateDest"} = {}
      PROVE  Stands(h, path)' /\ fs'.kind[h] = fs.kind[h] /\ fs.kind[h] # "dir"
  <2>1. Stands(h, path) /\ ~IsDir(h)
    BY <1>1, <1>3, <1>4 DEF DestOpened
  <2>2. h # None
    BY <1>1, <2>1, PathsTyped, NoneAssumption DEF Stands
  <2>3. h \in OpenNodes /\ h \in Pinned
    BY <1>3, <2>2 DEF OpenNodes, Pinned
  <2> QED
    BY <1>1, <2>1, <2>3, OpenStays DEF KindsStay, IsDir
<1>5. DestOpened'
  BY <1>1, <1>2, <1>3, <1>4 DEF DestOpened, IsDir
<1>6. DestIsFile'
  BY <1>1, <1>2, <1>3, <1>4 DEF DestIsFile
<1>7. DestNotSecret'
  BY <1>1, <1>2 DEF DestNotSecret
<1> QED
  BY <1>5, <1>6, <1>7

LEMMA SourceAside ==
    ASSUME BrokerInv, ProtectionInv, Running, Aside
    PROVE  SourceRead' /\ TreeSource'
<1>1. op' = op /\ FileSystem(fs) /\ SourceRead /\ TreeSource
  BY DEF BrokerInv, ProtectionInv, Aside
<1>2. (FileRead <=> FileRead') /\ (TreeCopy <=> TreeCopy')
  BY <1>1, SameAside
<1>3. PICK h, path : h = op.h1.node /\ path = op.src.path
  OBVIOUS
<1>4. ASSUME Stands(h, path), h \in SecretNodes \/ TreeCopy PROVE Stands(h, path)'
  <2>1. h # None
    BY <1>1, <1>4, PathsTyped, NoneAssumption DEF Stands
  <2>2. h \in OpenNodes /\ h \in Pinned \cup SecretNodes
    BY <1>3, <1>4, <2>1 DEF OpenNodes, Pinned, TreeCopy
  <2> QED
    BY <1>4, <2>2, OpenStays
<1>5. SourceRead'
  BY <1>1, <1>2, <1>3, <1>4 DEF SourceRead
<1>6. TreeSource'
  BY <1>1, <1>2, <1>3, <1>4 DEF TreeSource
<1> QED
  BY <1>5, <1>6

LEMMA EntryAside ==
    ASSUME BrokerInv, ProtectionInv, Running, Aside, FileSystem(fs)'
    PROVE  SourceParent' /\ SourceChild' /\ SourceClean'
<1>1. op' = op /\ FileSystem(fs) /\ SourceParent /\ SourceChild /\ SourceClean /\ KindsStay /\ CallInv /\ Remaining /\ SecretWays /\ SecretsHeld
  BY DEF BrokerInv, ProtectionInv, Aside
<1>2. Pending <=> Pending'
  BY <1>1, SameAside
<1>3. Tame
  BY AsideSafe DEF Safe
<1>4. PICK d, h, path, above : d = op.p1.node /\ h = op.h1.node /\ path = op.src.path /\ above = Front(path)
  OBVIOUS
<1> SUFFICES ASSUME Pending
             PROVE  SourceParent' /\ SourceChild' /\ SourceClean'
  BY <1>2 DEF SourceParent, SourceChild, SourceClean
<1>5. path \in Seq(Names) /\ path # <<>>
  BY <1>1, <1>4, SourceTyped DEF CallInv, Plan, Pending
<1>6. ASSUME Stands(d, above) PROVE Stands(d, above)'
  <2>1. d # None
    BY <1>1, <1>6, PathsTyped, NoneAssumption DEF Stands
  <2>2. d \in OpenNodes /\ d \in Pinned
    BY <1>4, <2>1 DEF OpenNodes, Pinned
  <2> QED
    BY <1>6, <2>2, OpenStays
<1>7. SourceParent'
  BY <1>1, <1>4, <1>6 DEF SourceParent
<1>8. LeadsToSecret(h)' => LeadsToSecret(h)
  BY <1>1, <1>3, LeadsToBack
<1>9. ASSUME Stands(h, path), h \in SecretNodes \/ LeadsToSecret(h) PROVE Stands(h, path)'
  <2>1. h # None
    BY <1>1, <1>9, PathsTyped, NoneAssumption DEF Stands
  <2>2. LeadsToSecret(h) => h \in Fixed
    BY <1>1, SecretsAre DEF LeadsToSecret, SecretWays, SecretsHeld, Stands
  <2>3. h \in OpenNodes /\ h \in Fixed \cup SecretNodes
    BY <1>4, <1>9, <2>1, <2>2 DEF OpenNodes
  <2> QED
    BY <1>9, <2>3, OpenStays
<1>10. SourceChild'
  <2> SUFFICES ASSUME "OpenChild" \notin op.todo
               PROVE  /\ fs'.kind[d] = "dir" /\ op.h1.at = <<d, Last(path)>> /\ NotAbove(h, path)'
                      /\ h \in SecretNodes \/ LeadsToSecret(h)' => Stands(h, path)'
    BY <1>1, <1>4 DEF SourceChild, IsDir, NotAbove, Stands, LeadsToSecret
  <2>1. /\ IsDir(d) /\ op.h1.at = <<d, Last(path)>> /\ NotAbove(h, path)
        /\ h \in SecretNodes \/ LeadsToSecret(h) => Stands(h, path)
    BY <1>1, <1>4 DEF SourceChild
  <2>2. Stands(d, above)
    <3>1. "VerifySourceParent" \notin op.todo
      BY <1>1 DEF Remaining
    <3> QED
      BY <1>1, <1>4, <3>1 DEF SourceParent
  <2>3. fs'.kind[d] = "dir"
    BY <1>1, <2>1, <2>2 DEF KindsStay, IsDir
  <2>4. NotAbove(h, path)'
    BY <1>1, <1>3, <1>4, <1>5, <2>1, <2>2, NotAboveStays DEF Stands
  <2> QED
    BY <1>8, <1>9, <2>1, <2>3, <2>4
<1>11. SourceClean'
  BY <1>1, <1>4, <1>8 DEF SourceClean, LeadsToSecret
<1> QED
  BY <1>7, <1>10, <1>11

LEMMA JobsAside ==
    ASSUME BrokerInv, ProtectionInv, Running, Aside, FileSystem(fs)'
    PROVE  TreeJobs'
<1>1. op' = op /\ FileSystem(fs) /\ TreeJobs /\ CallInv /\ SecretWays
  BY DEF BrokerInv, ProtectionInv, Aside
<1>2. Tame
  BY AsideSafe DEF Safe
<1> SUFFICES ASSUME NEW i \in DOMAIN op.pending, NEW e, e = op.pending[i]
             PROVE  JobIsAt(e)'
  BY <1>1 DEF TreeJobs, JobIsAt
<1>3. TreeCopy
  <2>1. ASSUME ~TreeCopy PROVE FALSE
    <3>1. op.pending = <<>>
      BY <1>1, <2>1 DEF CallInv, Plan
    <3> QED
      BY <3>1
  <2> QED
    BY <2>1
<1>4. "rename" \notin op.effects
  BY <1>1, <1>3 DEF CallInv, EffectsRight
<1>5. JobIsAt(e)
  BY <1>1 DEF TreeJobs
<1>6. ASSUME NEW x, x = e.from, Leads(x)'
      PROVE  Stands(x, Front(e.path))'
  <2>1. Leads(x)
    BY <1>1, <1>2, <1>4, <1>6, LeadsBack
  <2>2. PICK F : F = Front(e.path) /\ Stands(x, F)
    BY <1>5, <1>6, <2>1 DEF JobIsAt
  <2>3. PICK p, q \in Paths : fs.tree[p] = x /\ fs.tree[q] \in SecretNodes /\ IsStrictPrefix(p, q)
    BY <2>1 DEF Leads
  <2>4. p = F
    <3>1. q \in Seq(Names) /\ p \in Seq(Names) /\ IsTree(fs.tree, fs.kind) /\ IsPrefix(p, q) /\ p # q
      BY <1>1, <2>3, PathsTyped DEF FileSystem, IsStrictPrefix
    <3>2. IsDir(x)
      BY <2>3, <3>1, TreePrefix DEF IsDir, Paths
    <3> QED
      BY <2>2, <2>3, <3>1, <3>2 DEF IsTree, Stands, IsDir, Paths
  <2>5. ASSUME NEW r \in Paths, Movable(fs.tree[r]), IsPrefix(r, F) PROVE FALSE
    <3>1. q \in Seq(Names) /\ p \in Seq(Names) /\ r \in Seq(Names)
      BY <1>1, <2>3, PathsTyped
    <3>2. IsPrefix(r, q)
      BY <2>3, <2>4, <2>5, <3>1, PrefixTrans DEF IsStrictPrefix
    <3> QED
      BY <1>1, <1>4, <2>3, <2>5, <3>2, SecretsPinned DEF Stands
  <2>6. Stands(x, F)'
    BY <2>2, <2>5 DEF Aside
  <2> QED
    BY <2>2, <2>6
<1> QED
  BY <1>1, <1>5, <1>6 DEF JobIsAt

LEMMA OthersProtect ==
    ASSUME BrokerInv, ProtectionInv, Others
    PROVE  ProtectionInv'
<1>1. Aside
  BY OthersAside DEF ProtectionInv
<1>2. op' = op /\ FileSystem(fs)'
  BY <1>1, OthersKeep DEF Aside, BrokerInv
<1>3. Global'
  BY <1>1, <1>2, AsideSafe
<1>4. ASSUME Running'
      PROVE  /\ Remaining' /\ LastStep' /\ Judged' /\ DestOpened' /\ DestIsFile' /\ DestNotSecret' /\ SourceRead'
             /\ SourceParent' /\ SourceChild' /\ SourceClean' /\ TreeSource' /\ TreeJobs'
  <2>1. Running /\ Remaining' /\ LastStep' /\ Judged'
    BY <1>2, <1>4, SameAside DEF ProtectionInv
  <2> QED
    BY <1>1, <1>2, <2>1, DestAside, SourceAside, EntryAside, JobsAside
<1> QED
  BY <1>3, <1>4 DEF ProtectionInv, Global, Running

-----------------------------------------------------------------------------
\* The start of a call, and the start

\* What a path leads to is a directory or a file.
LEMMA CanonicalKind ==
    ASSUME FileSystem(fs), NEW input, Normalize(input) = Gone \/ Normalize(input) \in Seq(Names), NEW follow, follow = TRUE,
           NEW c, c = Canonical(input, follow), c.ok
    PROVE  c.exists => c.kind \in {"dir", "file"}
<1>1. PICK path, w : path = Normalize(input) /\ w = Lookup(path, follow)
  OBVIOUS
<1>2. w.ok /\ c = [ok |-> TRUE, existing |-> FinalPath(w.h), tail |-> w.rest, path |-> FinalPath(w.h) \o w.rest,
                   id |-> w.h.node, exists |-> w.rest = <<>>, kind |-> fs.kind[w.h.node]]
  BY <1>1 DEF Canonical, Error
<1>3. PICK q \in Paths, rest \in Seq(Names) :
          w = Found(HandleAt(q), rest) /\ (rest = <<>> => ~IsLink(fs.tree[q]))
  BY <1>1, <1>2, LookupFound
<1>4. HandleAt(q).node = fs.tree[q] /\ fs.tree[q] \in Nodes /\ fs.kind[fs.tree[q]] \in Kinds /\ fs.kind[fs.tree[q]] # "free"
  <2>1. q \in Seq(Names) /\ HandleAt(q).node = fs.tree[q] /\ fs.tree[q] \in Nodes
    BY HandleAtIs, PathsTyped
  <2> QED
    BY <2>1 DEF FileSystem, IsTree, Paths
<1>5. w.h = HandleAt(q) /\ w.rest = rest
  BY <1>3 DEF Found
<1>6. c.kind = fs.kind[fs.tree[q]]
  BY <1>2, <1>4, <1>5
<1>7. c.exists => rest = <<>>
  <2>1. c.exists = (w.rest = <<>>)
    BY <1>2
  <2> QED
    BY <1>5, <2>1
<1>8. c.exists => ~IsLink(fs.tree[q])
  BY <1>3, <1>7
<1> QED
  BY <1>4, <1>6, <1>8 DEF IsLink, Kinds

\* Nothing is opened before it is looked at.
Unopened ==
    /\ Writes => op.todo \cap {"OpenDest", "CreateDest"} # {}
    /\ FileRead => {"VerifySource", "CheckSourceLinks"} \subseteq op.todo
    /\ TreeCopy => {"VerifySource", "ScanSource"} \subseteq op.todo
    /\ Pending => {"VerifySourceParent", "OpenChild"} \subseteq op.todo
    /\ op.req.kind = "delete" => "Inspect" \in op.todo
    /\ op.req.kind = "move" => "CheckMoved" \in op.todo
    /\ op.pending = <<>>

Begun == Remaining /\ LastStep /\ Unopened

LEMMA ReadersBegin ==
    ASSUME NEW r \in Requests, NEW src, NEW dst, Starts(r, src, dst), r.kind \in {"stat", "list", "read"}
    PROVE  Begun' /\ Judged'
<1>1. /\ r.kind = "stat" => op'.todo \subseteq {"OpenSource", "VerifySource"} /\ op'.todo # {}
      /\ r.kind = "list" => op'.todo = {"OpenSource", "VerifySource", "List"}
      /\ r.kind = "read" => op'.todo = {"OpenSource", "VerifySource", "CheckSource", "CheckSourceLinks", "Read"}
  BY DEF Starts, Tool, StatTool, ListTool, ReadTool, StatOp, ListOp, ReadOp, SourceFile
<1>2. r.kind = "stat" => op'.todo = {"OpenSource", "VerifySource"}
  BY DEF Starts, Tool, StatTool, StatOp
<1>3. op'.req = r /\ op'.pending = <<>> /\ op'.src = src
  BY DEF Starts
<1>4. ~HasDest' /\ ~Writes' /\ ~TreeCopy' /\ ~Moving' /\ ~Pending' /\ (FileRead' <=> r.kind = "read")
  BY <1>3 DEF HasDest, Writes, TreeCopy, Moving, Pending, FileRead
<1>5. r.kind = "read" => ~Denied(src.path)
  BY DeniedIs DEF Starts, Tool, ReadTool
<1>6. Remaining' /\ LastStep' /\ Unopened'
  BY <1>1, <1>2, <1>3, <1>4 DEF Remaining, LastStep, Unopened
<1>7. Judged'
  BY <1>3, <1>4, <1>5 DEF Judged
<1> QED
  BY <1>6, <1>7 DEF Begun

LEMMA WritersBegin ==
    ASSUME NEW r \in Requests, NEW src, NEW dst, Starts(r, src, dst), r.kind \in {"write", "patch", "mkdir"}
    PROVE  Begun' /\ Judged'
<1>1. /\ r.kind = "write" =>
             /\ "WriteData" \in op'.todo
             /\ dst.exists => /\ op'.todo \subseteq {"PinDestParent", "VerifyDestParent", "OpenDest", "CheckDest", "CheckDestLinks",
                                                    "VerifyDest", "Truncate", "WriteData"}
                              /\ {"OpenDest", "CheckDestLinks"} \subseteq op'.todo
             /\ ~dst.exists => /\ op'.todo \subseteq {"PinDestParent", "VerifyDestParent", "MakeDirs", "VerifyNewParent", "CreateDest",
                                                     "VerifyDest", "Truncate", "WriteData"}
                               /\ "CreateDest" \in op'.todo
      /\ r.kind = "patch" =>
             op'.todo = {"PinDestParent", "VerifyDestParent", "OpenDest", "CheckDest", "CheckDestLinks", "VerifyDest",
                         "ReadDest", "Truncate", "WriteData"}
      /\ r.kind = "mkdir" => op'.todo = {"PinDestParent", "VerifyDestParent", "MakeDirs", "VerifyNewParent"}
  <2>1. ASSUME r.kind = "write", dst.exists
        PROVE  /\ op'.todo \subseteq {"PinDestParent", "VerifyDestParent", "OpenDest", "CheckDest", "CheckDestLinks",
                                      "VerifyDest", "Truncate", "WriteData"}
               /\ {"OpenDest", "CheckDestLinks", "WriteData"} \subseteq op'.todo
    BY <2>1 DEF Starts, Tool, WriteTool, WriteOp, OpenForWrite, ExistingDest
  <2>2. ASSUME r.kind = "write", ~dst.exists
        PROVE  /\ op'.todo \subseteq {"PinDestParent", "VerifyDestParent", "MakeDirs", "VerifyNewParent", "CreateDest",
                                      "VerifyDest", "Truncate", "WriteData"}
               /\ {"CreateDest", "WriteData"} \subseteq op'.todo
    BY <2>2 DEF Starts, Tool, WriteTool, WriteOp, OpenForWrite, EnsureDirs
  <2>3. r.kind = "patch" =>
            op'.todo = {"PinDestParent", "VerifyDestParent", "OpenDest", "CheckDest", "CheckDestLinks", "VerifyDest",
                        "ReadDest", "Truncate", "WriteData"}
    BY DEF Starts, Tool, PatchTool, PatchOp, ExistingDest
  <2>4. r.kind = "mkdir" => op'.todo = {"PinDestParent", "VerifyDestParent", "MakeDirs", "VerifyNewParent"}
    BY DEF Starts, Tool, MkdirTool, MkdirOp, EnsureDirs
  <2> QED
    BY <2>1, <2>2, <2>3, <2>4
<1>2. op'.req = r /\ op'.pending = <<>> /\ op'.dst = dst
  BY DEF Starts
<1>3. ~TreeCopy' /\ ~Moving' /\ ~Pending' /\ ~FileRead' /\ (Writes' <=> r.kind # "mkdir")
  BY <1>2 DEF Writes, TreeCopy, Moving, Pending, FileRead
<1>4. ~Denied(dst.path)
  BY DeniedIs DEF Starts, Tool, WriteTool, PatchTool, MkdirTool
<1>5. Remaining'
  BY <1>1, <1>2, <1>3 DEF Remaining, ExistingDest, EnsureDirs
<1>6. LastStep' /\ Unopened'
  BY <1>1, <1>2, <1>3 DEF LastStep, Unopened
<1>7. Judged'
  BY <1>2, <1>4 DEF Judged
<1> QED
  BY <1>5, <1>6, <1>7 DEF Begun

LEMMA CopyBegins ==
    ASSUME NEW r \in Requests, NEW src, NEW dst, Starts(r, src, dst), r.kind = "copy", src.exists => src.kind \in {"dir", "file"}
    PROVE  Begun' /\ Judged'
<1>1. /\ src.exists
      /\ src.kind # "dir" /\ dst.exists =>
             op'.todo = {"OpenSource", "VerifySource", "CheckSource", "CheckSourceLinks", "PinDestParent", "VerifyDestParent",
                         "OpenDest", "CheckDest", "CheckDestLinks", "VerifyDest", "Truncate", "CopyData"}
      /\ src.kind # "dir" /\ ~dst.exists =>
             op'.todo = {"OpenSource", "VerifySource", "CheckSource", "CheckSourceLinks", "PinDestParent", "VerifyDestParent",
                         "MakeDirs", "VerifyNewParent", "CreateDest", "VerifyDest", "Truncate", "CopyData"}
      /\ src.kind = "dir" =>
             op'.todo = {"OpenSource", "VerifySource", "ScanSource", "PinDestParent", "VerifyDestParent", "MakeDirs",
                         "VerifyNewParent", "ReadTree", "CopyTree"}
  <2>1. src.exists
    BY DEF Starts, Tool, CopyTool, CopyOp
  <2>2. ASSUME src.kind # "dir", dst.exists
        PROVE  op'.todo = {"OpenSource", "VerifySource", "CheckSource", "CheckSourceLinks", "PinDestParent", "VerifyDestParent",
                           "OpenDest", "CheckDest", "CheckDestLinks", "VerifyDest", "Truncate", "CopyData"}
    BY <2>1, <2>2 DEF Starts, Tool, CopyTool, CopyOp, CopyFileOp, OpenForWrite, ExistingDest, SourceFile
  <2>3. ASSUME src.kind # "dir", ~dst.exists
        PROVE  op'.todo = {"OpenSource", "VerifySource", "CheckSource", "CheckSourceLinks", "PinDestParent", "VerifyDestParent",
                           "MakeDirs", "VerifyNewParent", "CreateDest", "VerifyDest", "Truncate", "CopyData"}
    BY <2>1, <2>3 DEF Starts, Tool, CopyTool, CopyOp, CopyFileOp, OpenForWrite, EnsureDirs, SourceFile
  <2>4. ASSUME src.kind = "dir"
        PROVE  op'.todo = {"OpenSource", "VerifySource", "ScanSource", "PinDestParent", "VerifyDestParent", "MakeDirs",
                           "VerifyNewParent", "ReadTree", "CopyTree"}
    BY <2>1, <2>4 DEF Starts, Tool, CopyTool, CopyOp, CopyTreeOp, EnsureDirs
  <2> QED
    BY <2>1, <2>2, <2>3, <2>4
<1>2. op'.req = r /\ op'.pending = <<>> /\ op'.dst = dst /\ op'.src = src
  BY DEF Starts
<1>3. ~Moving' /\ ~Pending' /\ (TreeCopy' <=> src.kind = "dir") /\ (FileRead' <=> src.kind # "dir") /\ (Writes' <=> src.kind # "dir")
  BY <1>2 DEF Writes, TreeCopy, Moving, Pending, FileRead
<1>4. ~Denied(dst.path) /\ ~Denied(src.path)
  <2>1. PICK a, b : a = Evaluate(src.path, FALSE) /\ b = Evaluate(dst.path, TRUE)
    OBVIOUS
  <2>2. Tool(r, src, dst).decisions = {a, b}
    BY <2>1 DEF Tool, CopyTool
  <2>3. a # "Deny" /\ b # "Deny"
    BY <2>2 DEF Starts
  <2> QED
    BY <2>1, <2>3, DeniedIs
<1>5. Remaining'
  BY <1>1, <1>2, <1>3 DEF Remaining, SourceFile, ExistingDest, EnsureDirs
<1>6. LastStep' /\ Unopened'
  BY <1>1, <1>2, <1>3 DEF LastStep, Unopened
<1>7. Judged'
  BY <1>1, <1>2, <1>4 DEF Judged
<1> QED
  BY <1>5, <1>6, <1>7 DEF Begun

LEMMA MoversBegin ==
    ASSUME NEW r \in Requests, NEW src, NEW dst, Starts(r, src, dst), r.kind \in {"move", "delete"}
    PROVE  Begun' /\ Judged'
<1>1. /\ r.kind = "move" =>
             /\ {"PinSourceParent", "VerifySourceParent", "OpenChild", "CheckSource", "CheckMoved", "Rename", "VerifyMoved"}
                    \subseteq op'.todo
             /\ op'.todo \subseteq SourceEntry \cup EnsureDirs \cup {"CheckMoved", "Rename", "VerifyMoved"}
      /\ r.kind = "delete" => op'.todo = {"PinSourceParent", "VerifySourceParent", "OpenChild", "CheckSource", "Inspect"}
  BY DEF Starts, Tool, MoveTool, MoveOp, EnsureDirs, SourceEntry, DeleteTool, DeleteOp
<1>2. op'.req = r /\ op'.pending = <<>> /\ op'.dst = dst /\ op'.src = src
  BY DEF Starts
<1>3. ~TreeCopy' /\ ~FileRead' /\ ~Writes' /\ Moving' /\ (HasDest' <=> r.kind = "move")
  BY <1>2 DEF Writes, TreeCopy, Moving, FileRead, HasDest
<1>4. ~Denied(src.path) /\ (r.kind = "move" => ~Denied(dst.path))
  BY DeniedIs DEF Starts, Tool, MoveTool, DeleteTool
<1>5. Remaining'
  BY <1>1, <1>2, <1>3 DEF Remaining, SourceEntry, EnsureDirs
<1>6. LastStep' /\ Unopened'
  BY <1>1, <1>2, <1>3 DEF LastStep, Unopened
<1>7. Judged'
  BY <1>2, <1>3, <1>4 DEF Judged
<1> QED
  BY <1>5, <1>6, <1>7 DEF Begun

LEMMA CallProtects ==
    ASSUME BrokerInv, ProtectionInv, NEW r \in Requests, Call(r)
    PROVE  ProtectionInv'
<1>1. PICK follow : follow = (r.kind \notin {"delete", "move"})
  OBVIOUS
<1>2. PICK src, dst : src = Canonical(r.source, follow) /\ dst = Canonical(r.dest, follow)
  OBVIOUS
<1>3. PICK o, answer : o = [Idle EXCEPT !.req = r, !.src = src, !.dst = dst] /\ answer = Answered(r, src, dst)
  OBVIOUS
<1>4. /\ op = Idle /\ fs' = fs
      /\ op' = IF answer = "none" THEN [o EXCEPT !.todo = Tool(r, src, dst).op.steps] ELSE Ended(o, answer)
  BY <1>1, <1>2, <1>3 DEF Call
<1>5. /\ Shaped(o) /\ o.effects = {} /\ o.pending = <<>> /\ o.result = "none" /\ o.req = r /\ o.src = src /\ o.dst = dst
      /\ o.out = None
  BY <1>3 DEF Shaped, Idle
<1>6. op'.effects = {} /\ op'.out = None
  <2>1. CASE answer # "none"
    <3>1. op' = [o EXCEPT !.todo = {}, !.result = answer, !.pending = <<>>]
      BY <1>4, <2>1 DEF Ended
    <3> QED
      BY <1>5, <3>1 DEF Shaped
  <2>2. CASE answer = "none"
    <3>1. op' = [o EXCEPT !.todo = Tool(r, src, dst).op.steps]
      BY <1>4, <2>2
    <3> QED
      BY <1>5, <3>1 DEF Shaped
  <2> QED
    BY <2>1, <2>2
<1>7. SecretsHeld' /\ SecretsOnly' /\ SecretWays'
  <2>1. SecretsHeld /\ SecretsOnly /\ Safe
    BY <1>4, SameSafe DEF ProtectionInv
  <2>2. op.effects = {}
    BY <1>4 DEF Idle
  <2>3. SecretWays'
    BY <1>4, <1>6, <2>2 DEF ProtectionInv, SecretWays, Paths
  <2> QED
    BY <2>1, <2>3 DEF Safe
<1>8. op'.out # "secret"
  BY <1>6, NoneAssumption DEF Contents
<1>9. ASSUME Running'
      PROVE  Begun' /\ Judged'
  <2>1. answer = "none"
    <3>1. ASSUME answer # "none" PROVE FALSE
      <4>1. op'.todo = {}
        BY <1>4, <1>5, <3>1, EndedIs
      <4> QED
        BY <1>9, <4>1 DEF Running
    <3> QED
      BY <3>1
  <2>2. /\ op'.result = "none" /\ op'.pending = <<>> /\ op'.req = r /\ op'.src = src /\ op'.dst = dst
        /\ op'.todo = Tool(r, src, dst).op.steps
    BY <1>4, <1>5, <2>1 DEF Shaped
  <2>3. /\ src.ok /\ dst.ok /\ "Deny" \notin Tool(r, src, dst).decisions /\ ~Tool(r, src, dst).op.refused
        /\ Tool(r, src, dst).op.steps # {}
    BY <1>3, <2>1 DEF Answered
  <2>4. /\ Normalize(r.source) = Gone \/ Normalize(r.source) \in Seq(Names)
        /\ Normalize(r.dest) = Gone \/ Normalize(r.dest) \in Seq(Names)
    BY RequestsAssumption
  <2>5. CanonicalPath(src) /\ CanonicalPath(dst) /\ (dst.path = <<>> => dst.exists /\ dst.kind = "dir")
    BY <1>2, <2>3, <2>4, CanonicalIs DEF BrokerInv
  <2>6. r.kind = "copy" /\ src.exists => src.kind \in {"dir", "file"}
    BY <1>1, <1>2, <2>3, <2>4, CanonicalKind DEF BrokerInv
  <2>7. Starts(r, src, dst)
    BY <2>2, <2>3, <2>5 DEF Starts
  <2>8. r.kind \in ToolKinds
    BY RequestsAssumption
  <2> QED
    BY <2>6, <2>7, <2>8, ReadersBegin, WritersBegin, CopyBegins, MoversBegin DEF ToolKinds
<1>10. ASSUME Unopened'
       PROVE  /\ DestOpened' /\ DestIsFile' /\ DestNotSecret' /\ SourceRead' /\ SourceParent' /\ SourceChild' /\ SourceClean'
              /\ TreeSource' /\ TreeJobs'
  <2>1. DestOpened' /\ DestIsFile' /\ DestNotSecret'
    BY <1>10 DEF Unopened, DestOpened, DestIsFile, DestNotSecret
  <2>2. SourceRead' /\ SourceParent' /\ SourceChild'
    BY <1>10 DEF Unopened, SourceRead, SourceParent, SourceChild
  <2>3. SourceClean' /\ TreeSource'
    BY <1>10 DEF Unopened, SourceClean, TreeSource
  <2>4. TreeJobs'
    BY <1>10 DEF Unopened, TreeJobs
  <2> QED
    BY <2>1, <2>2, <2>3, <2>4
<1> QED
  BY <1>7, <1>8, <1>9, <1>10 DEF ProtectionInv, Begun

LEMMA ProtectionStarts == Init => ProtectionInv
<1>1. SUFFICES ASSUME Init PROVE ProtectionInv
  OBVIOUS
<1>2. fs = InitialFs /\ op.todo = {} /\ op.out = None
  BY <1>1 DEF Init, Idle
<1>3. SecretsHeld /\ SecretsOnly
  BY <1>2, SecretsAssumption DEF SecretsHeld, SecretsOnly, Stands, Paths, SecretNodes
<1>4. SecretWays
  BY <1>2, SecretsAssumption DEF SecretWays, SecretNodes, Paths
<1>5. op.out # "secret"
  BY <1>2, NoneAssumption DEF Contents
<1> QED
  BY <1>2, <1>3, <1>4, <1>5 DEF ProtectionInv, Running

LEMMA ProtectionInduction == BrokerInv /\ ProtectionInv /\ [Next]_vars => ProtectionInv'
<1>1. SUFFICES ASSUME BrokerInv, ProtectionInv, [Next]_vars PROVE ProtectionInv'
  OBVIOUS
<1>2. CASE vars' = vars
  <2>1. fs' = fs /\ op' = op
    BY <1>2 DEF vars
  <2>2. SecretsHeld' /\ SecretsOnly' /\ SecretWays' /\ op'.out # "secret"
    BY <1>1, <2>1 DEF ProtectionInv, SecretsHeld, SecretsOnly, SecretWays, Stands, Paths
  <2>3. Running => Remaining' /\ LastStep' /\ Judged'
    BY <1>1, <2>1 DEF ProtectionInv, Remaining, LastStep, Judged, FileRead, TreeCopy, Moving, HasDest
  <2>4. Running => DestOpened' /\ DestIsFile' /\ DestNotSecret' /\ SourceRead'
    BY <1>1, <2>1 DEF ProtectionInv, DestOpened, DestIsFile, DestNotSecret, SourceRead, Writes, TreeCopy, FileRead, Stands, Paths, IsDir
  <2>5. Running => SourceParent' /\ SourceChild' /\ SourceClean'
    BY <1>1, <2>1 DEF ProtectionInv, SourceParent, SourceChild, SourceClean, Pending, Stands, Paths, IsDir, NotAbove, LeadsToSecret
  <2>6. Running => TreeSource' /\ TreeJobs'
    BY <1>1, <2>1 DEF ProtectionInv, TreeSource, TreeJobs, JobIsAt, TreeCopy, Stands, Paths, Leads
  <2> QED
    BY <2>1, <2>2, <2>3, <2>4, <2>5, <2>6 DEF ProtectionInv, Running
<1>3. CASE \E r \in Requests : Call(r)
  BY <1>1, <1>3, CallProtects
<1>4. CASE Step
  BY <1>1, <1>4, StepProtects
<1>5. CASE Others
  BY <1>1, <1>5, OthersProtect
<1> QED
  BY <1>1, <1>2, <1>3, <1>4, <1>5 DEF Next

LEMMA ProtectionInvariant == Spec => [](BrokerInv /\ ProtectionInv)
BY BrokerStarts, BrokerInduction, ProtectionStarts, ProtectionInduction, PTL DEF Spec

\* Whatever is asked of the broker and whatever other programs do meanwhile,
\* what protected and control locations hold is where it was and what it was,
\* no other object has got its data, and no call has returned it: verify_final,
\* check_links, deny_protected_in_tree and the scan of a source tree leave no
\* name, link or directory by which a tool call reaches it.
THEOREM ProtectedObjectsStay == Spec => []ProtectedStays
<1>1. ASSUME BrokerInv, ProtectionInv
      PROVE  ProtectedStays
  <2>1. FileSystem(fs) /\ SecretsHeld /\ SecretsOnly /\ op.out # "secret"
    BY <1>1 DEF BrokerInv, ProtectionInv
  <2>2. ASSUME NEW s \in Secrets
        PROVE  LET w == OpenPath(s.path, FALSE) IN w.ok /\ w.h.node = s.node /\ fs.data[s.node] = "secret"
    <3>1. s.path \in Paths /\ fs.tree[s.path] = s.node /\ fs.data[s.node] = "secret"
      BY <2>1 DEF SecretsHeld, Stands
    <3>2. PICK p, h, w : p = s.path /\ h = HandleAt(p) /\ w = OpenPath(p, FALSE)
      OBVIOUS
    <3>3. OpenPath(p, FALSE) = Found(HandleAt(p), <<>>)
      BY <2>1, <3>1, <3>2, LookupThere
    <3>4. h.node = s.node
      BY <2>1, <3>1, <3>2, HandleAtIs
    <3>5. w = [ok |-> TRUE, h |-> h, rest |-> <<>>]
      BY <3>2, <3>3 DEF Found
    <3>6. w.ok /\ w.h = h
      BY <3>5
    <3> QED
      BY <3>1, <3>2, <3>4, <3>6
  <2>3. \A x \in Nodes \ SecretNodes : fs.data[x] # "secret"
    BY <2>1 DEF SecretsOnly
  <2> QED
    BY <2>1, <2>2, <2>3 DEF ProtectedStays
<1> QED
  BY ProtectionInvariant, <1>1, PTL

-----------------------------------------------------------------------------
\* How a call reports success

\* The call's last step.
Finishes(step) ==
    Doing(step) /\ op.todo = {step} /\ op'.req = op.req /\ op'.src = op.src /\ op'.dst = op.dst

LEMMA FinishWith ==
    ASSUME NEW step, Doing(step), NEW o, Shaped(o), op' = Advance(step, o), op'.result = "ok", o.result = "none",
           o.req = op.req, o.src = op.src, o.dst = op.dst, o.todo = op.todo
    PROVE  Finishes(step)
<1>1. PICK a : a = Advance(step, o)
  OBVIOUS
<1>2. /\ a.req = o.req /\ a.src = o.src /\ a.dst = o.dst
      /\ o.todo # {step} => a.result = o.result
  BY <1>1, AdvanceIs
<1> QED
  BY <1>1, <1>2 DEF Finishes

LEMMA FinishOnward ==
    ASSUME NEW step, Doing(step), NEW o, Shaped(o), Continue(step, o), op'.result = "ok", o.result = "none",
           o.req = op.req, o.src = op.src, o.dst = op.dst, o.todo = op.todo
    PROVE  Finishes(step)
BY FinishWith DEF Continue

LEMMA FinishSame ==
    ASSUME Shaped(op), op.result = "none", NEW step, Doing(step), Continue(step, op), op'.result = "ok"
    PROVE  Finishes(step)
BY FinishOnward

LEMMA StopFails == ASSUME Shaped(op), NEW result, Stop(result), op'.result = "ok" PROVE result = "ok"
<1>1. PICK a : a = Ended(op, result)
  OBVIOUS
<1>2. a.result = result /\ op' = a
  BY <1>1, EndedIs DEF Stop
<1> QED
  BY <1>2

LEMMA FinishChecked ==
    ASSUME Shaped(op), op.result = "none", NEW step, NEW c, NEW result, Check(step, c, result), result # "ok", op'.result = "ok"
    PROVE  Finishes(step) /\ c
<1>1. Doing(step) /\ (c => Continue(step, op)) /\ (~c => Stop(result))
  BY DEF Check
<1>2. c
  BY <1>1, StopFails
<1> QED
  BY <1>1, <1>2, FinishSame

LEMMA FinishChanged ==
    ASSUME Shaped(op), op.result = "none", NEW step, Doing(step), NEW f, NEW effect, Change(step, f, op, effect), op'.result = "ok"
    PROVE  Finishes(step)
<1>1. PICK o : o = [op EXCEPT !.effects = @ \cup {effect}]
  OBVIOUS
<1>2. /\ Shaped(o) /\ o.req = op.req /\ o.src = op.src /\ o.dst = op.dst /\ o.todo = op.todo /\ o.result = op.result
  BY <1>1 DEF Shaped
<1>3. op' = Advance(step, o)
  BY <1>1 DEF Change
<1> QED
  BY <1>2, <1>3, FinishWith

LEMMA ChecksFinish ==
    ASSUME Shaped(op), op.result = "none", Checks, op'.result = "ok"
    PROVE  \E step : Finishes(step)
<1>1. ASSUME NEW step, NEW c, NEW result, result # "ok", Check(step, c, result)
      PROVE  \E s : Finishes(s)
  BY <1>1, FinishChecked
<1> QED
  BY <1>1 DEF Checks, VerifySource, VerifySourceParent, VerifyDest, VerifyDestParent, VerifyNewParent, CheckSource, CheckDest,
     CheckSourceLinks, CheckDestLinks, CheckMoved, List, VerifyMoved

LEMMA OpensFinish ==
    ASSUME Shaped(op), op.result = "none", Opens, op'.result = "ok"
    PROVE  \E step : Finishes(step)
<1>1. ASSUME NEW step, Doing(step), NEW o, Continue(step, o), NEW h,
             \/ o = [op EXCEPT !.h1 = h]
             \/ o = [op EXCEPT !.p1 = h]
             \/ o = [op EXCEPT !.p2 = h]
             \/ o = [op EXCEPT !.h2 = h]
             \/ o = [op EXCEPT !.out = h]
      PROVE  \E s : Finishes(s)
  <2>1. /\ Shaped(o) /\ o.req = op.req /\ o.src = op.src /\ o.dst = op.dst /\ o.todo = op.todo /\ o.result = op.result
    BY <1>1 DEF Shaped
  <2> QED
    BY <1>1, <2>1, FinishOnward
<1>2. ~Stop("io_error")
  BY StopFails
<1>3. CASE OpenSource
  BY <1>1, <1>2, <1>3 DEF OpenSource
<1>4. CASE PinSourceParent
  BY <1>1, <1>2, <1>4 DEF PinSourceParent
<1>5. CASE PinDestParent
  BY <1>1, <1>2, <1>5 DEF PinDestParent
<1>6. CASE OpenChild
  BY <1>1, <1>2, <1>6 DEF OpenChild
<1>7. CASE OpenDest
  BY <1>1, <1>2, <1>7 DEF OpenDest
<1>8. CASE Read
  BY <1>1, <1>8 DEF Read
<1> QED
  BY <1>3, <1>4, <1>5, <1>6, <1>7, <1>8 DEF Opens

LEMMA LooksFinish ==
    ASSUME Shaped(op), op.result = "none", Looks, op'.result = "ok"
    PROVE  \E step : Finishes(step)
<1>2. ~Stop("io_error") /\ ~Stop("denied") /\ ~Stop("refused")
  BY StopFails
<1>3. CASE ScanSource
  BY <1>2, <1>3, FinishSame DEF ScanSource
<1>4. CASE Inspect
  <2>1. PICK more : /\ more \subseteq {"DeleteTree", "Unlink"} /\ "Unlink" \in more
                    /\ Doing("Inspect") /\ Continue("Inspect", [op EXCEPT !.todo = @ \cup more])
    BY <1>2, <1>4 DEF Inspect
  <2>2. PICK o, step : o = [op EXCEPT !.todo = @ \cup more] /\ step = "Inspect"
    OBVIOUS
  <2>3. Shaped(o) /\ o.result = op.result /\ "Unlink" \in o.todo
    BY <2>1, <2>2 DEF Shaped
  <2>4. op' = Advance(step, o)
    BY <2>1, <2>2 DEF Continue
  <2>5. o.todo # {step}
    BY <2>2, <2>3
  <2>6. op'.result = o.result
    BY <2>3, <2>4, <2>5, AdvanceIs
  <2> QED
    BY <2>3, <2>6
<1>5. CASE ReadDest
  BY <1>2, <1>5, FinishSame DEF ReadDest
<1>6. CASE ReadTree
  <2>1. PICK jobs : Doing("ReadTree") /\ Continue("ReadTree", [op EXCEPT !.pending = jobs])
    BY <1>6 DEF ReadTree
  <2>2. PICK o : o = [op EXCEPT !.pending = jobs]
    OBVIOUS
  <2>3. /\ Shaped(o) /\ o.req = op.req /\ o.src = op.src /\ o.dst = op.dst /\ o.todo = op.todo /\ o.result = op.result
    BY <2>2 DEF Shaped
  <2> QED
    BY <2>1, <2>2, <2>3, FinishOnward
<1> QED
  BY <1>3, <1>4, <1>5, <1>6 DEF Looks

LEMMA ChangesFinish ==
    ASSUME Shaped(op), op.result = "none", op'.result = "ok",
           MakeDirs \/ CreateDest \/ Fills \/ Unlink \/ DeleteTree \/ Rename \/ CopyTree
    PROVE  \E step : Finishes(step)
<1>1. ~Stop("io_error") /\ ~Stop("denied") /\ ~Stop("changed")
  BY StopFails
<1>2. ASSUME NEW step, Doing(step), Continue(step, op) PROVE \E s : Finishes(s)
  BY <1>2, FinishSame
<1>3. ASSUME NEW step, Doing(step), NEW f, NEW effect, Change(step, f, op, effect) PROVE \E s : Finishes(s)
  BY <1>3, FinishChanged
<1>4. CASE MakeDirs
  <2> DEFINE slot == <<op.p2.node, op.dst.tail[op.made + 1]>>
             x == At(slot)
             Entered(y) == [op EXCEPT !.p2 = Handle(y, slot), !.made = @ + 1]
  <2>1. ASSUME NEW y, NEW o, o = [Entered(y) EXCEPT !.effects = @ \cup {"mkdir"}] \/ o = Entered(y), op' = o
        PROVE  FALSE
    <3>1. PICK h : h = Handle(y, slot)
      OBVIOUS
    <3>2. o.result = op.result
      BY <2>1, <3>1 DEF Shaped
    <3> QED
      BY <2>1, <3>2
  <2>2. Doing("MakeDirs")
    BY <1>4 DEF MakeDirs
  <2>3. \/ Continue("MakeDirs", op)
        \/ \E y : op' = [Entered(y) EXCEPT !.effects = @ \cup {"mkdir"}] \/ op' = Entered(y)
    BY <1>1, <1>4 DEF MakeDirs
  <2> HIDE DEF Entered
  <2> QED
    BY <1>2, <2>1, <2>2, <2>3
<1>5. CASE CreateDest
  <2>1. PICK h, f : /\ Doing("CreateDest")
                    /\ Change("CreateDest", f, [op EXCEPT !.h2 = h], "create")
    BY <1>1, <1>5 DEF CreateDest
  <2>2. PICK o : o = [[op EXCEPT !.h2 = h] EXCEPT !.effects = @ \cup {"create"}]
    OBVIOUS
  <2>3. /\ Shaped(o) /\ o.req = op.req /\ o.src = op.src /\ o.dst = op.dst /\ o.todo = op.todo /\ o.result = op.result
    BY <2>2 DEF Shaped
  <2>5. op' = Advance("CreateDest", o)
    BY <2>1, <2>2 DEF Change
  <2> QED
    BY <2>1, <2>3, <2>5, FinishWith
<1>6. CASE Fills
  <2>1. CASE WriteFails
    <3>1. PICK a : a = Ended(op, "io_error")
      OBVIOUS
    <3>2. PICK e : op' = [a EXCEPT !.effects = e]
      BY <2>1, <3>1 DEF WriteFails
    <3>3. Shaped(a) /\ a.result = "io_error"
      BY <3>1, EndedIs
    <3>4. op'.result = "io_error"
      BY <3>2, <3>3 DEF Shaped
    <3> QED
      BY <3>4
  <2> QED
    BY <1>3, <1>6, <2>1 DEF Fills, Truncate, WriteData, CopyData
<1>7. CASE Unlink
  BY <1>1, <1>3, <1>7 DEF Unlink
<1>8. CASE DeleteTree
  <2>1. Doing("DeleteTree")
    BY <1>8 DEF DeleteTree
  <2>2. Continue("DeleteTree", op) \/ \E e : op' = [op EXCEPT !.effects = e]
    BY <1>8 DEF DeleteTree
  <2>3. ASSUME NEW e, op' = [op EXCEPT !.effects = e] PROVE FALSE
    BY <2>3 DEF Shaped
  <2> QED
    BY <1>2, <2>1, <2>2, <2>3
<1>9. CASE Rename
  BY <1>1, <1>3, <1>9 DEF Rename
<1>10. CASE CopyTree
  <2>1. Doing("CopyTree")
    BY <1>10 DEF CopyTree
  <2>2. ASSUME NEW jobs, NEW e, op' = [op EXCEPT !.pending = jobs, !.effects = e] PROVE FALSE
    BY <2>2 DEF Shaped
  <2>3. ASSUME NEW jobs, op' = [op EXCEPT !.pending = jobs] PROVE FALSE
    BY <2>3 DEF Shaped
  <2>4. \/ Continue("CopyTree", op)
        \/ (\E jobs, e : op' = [op EXCEPT !.pending = jobs, !.effects = e])
        \/ (\E jobs : op' = [op EXCEPT !.pending = jobs])
    BY <1>1, <1>10 DEF CopyTree
  <2> QED
    BY <1>2, <2>1, <2>2, <2>3, <2>4
<1> QED
  BY <1>4, <1>5, <1>6, <1>7, <1>8, <1>9, <1>10

LEMMA StepFinishes ==
    ASSUME BrokerInv, Step, op'.result = "ok"
    PROVE  Running /\ \E step : Finishes(step) /\ StepIs(step)
<1>1. Shaped(op)
  BY DEF BrokerInv
<1>2. Checks \/ Opens \/ Looks \/ MakeDirs \/ CreateDest \/ Fills \/ Unlink \/ DeleteTree \/ Rename \/ CopyTree
  BY DEF Step, Checks, Opens, Looks, Fills
<1>3. Running
  <2>1. \E s : Doing(s)
    BY DEF Step, Check, OpenSource, PinSourceParent, OpenChild, Read, Inspect, ScanSource, PinDestParent, OpenDest, MakeDirs,
       CreateDest, ReadDest, Truncate, WriteData, CopyData, DeleteTree, Unlink, Rename, ReadTree, CopyTree, WriteFails,
       VerifySource, VerifySourceParent, VerifyDest, VerifyDestParent, VerifyNewParent, CheckSource, CheckDest,
       CheckSourceLinks, CheckDestLinks, CheckMoved, List, VerifyMoved
  <2> QED
    BY <2>1 DEF Doing, Running
<1>4. op.result = "none"
  BY <1>3 DEF BrokerInv, CallInv, Plan
<1>5. PICK step : Finishes(step)
  BY <1>1, <1>2, <1>4, ChecksFinish, OpensFinish, LooksFinish, ChangesFinish
<1>6. StepIs(step)
  BY <1>5, StepTaken DEF Finishes
<1> QED
  BY <1>3, <1>5, <1>6

\* What is true when success is reported, in terms of names and objects.
Fulfilled ==
    /\ op.req.kind \in {"write", "patch"} =>
           Stands(op.h2.node, op.dst.path) /\ fs.kind[op.h2.node] = "file" /\ fs.data[op.h2.node] = "new"
    /\ op.req.kind = "mkdir" => op.dst.path \in Paths /\ fs.kind[fs.tree[op.dst.path]] = "dir"
    /\ op.req.kind = "move" => Stands(op.src.id, op.dst.path)
    /\ op.req.kind = "delete" =>
           /\ op.src.path \in Seq(Names) /\ op.src.path # <<>> /\ ~Stands(op.src.id, op.src.path)
           /\ op.src.path \in Paths \/ (Front(op.src.path) \in Paths /\ fs.kind[fs.tree[Front(op.src.path)]] = "dir")
    /\ op.req.kind = "copy" => op.dst.path \in Paths /\ fs.kind[fs.tree[op.dst.path]] = op.src.kind

\* A directory that exists is not made.
SuccessInv ==
    /\ Running /\ op.req.kind = "mkdir" => ~op.dst.exists
    /\ op.result = "ok" => Fulfilled

\* What stands at a path is found there.
LEMMA FoundThere ==
    ASSUME FileSystem(fs), NEW x, NEW p, Stands(x, p), NEW w, w = Lookup(p, FALSE)
    PROVE  w.ok /\ w.rest = <<>> /\ w.h.node = x
<1>1. p \in Paths /\ fs.tree[p] = x
  BY DEF Stands
<1> QED
  BY <1>1, LookupThere

LEMMA FulfilledIsDone ==
    ASSUME FileSystem(fs), Fulfilled
    PROVE  Done
<1>1. PICK at, old, p : at = Lookup(p, FALSE) /\ p = op.dst.path /\ old = Lookup(op.src.path, FALSE)
  OBVIOUS
<1>2. CASE op.req.kind \in {"write", "patch"}
  <2>1. PICK x : Stands(x, p) /\ fs.data[x] = "new" /\ x = op.h2.node
    BY <1>1, <1>2 DEF Fulfilled
  <2>2. at.ok /\ at.rest = <<>> /\ at.h.node = x
    BY <1>1, <2>1, FoundThere
  <2> QED
    BY <1>1, <1>2, <2>1, <2>2 DEF Done
<1>3. CASE op.req.kind = "mkdir"
  <2>1. PICK x : Stands(x, p) /\ IsDir(x)
    BY <1>1, <1>3 DEF Fulfilled, Stands, IsDir
  <2>2. at.ok /\ at.rest = <<>> /\ at.h.node = x
    BY <1>1, <2>1, FoundThere
  <2> QED
    BY <1>1, <1>3, <2>1, <2>2 DEF Done
<1>4. CASE op.req.kind = "move"
  <2>1. PICK x : Stands(x, p) /\ x = op.src.id
    BY <1>1, <1>4 DEF Fulfilled
  <2>2. at.ok /\ at.rest = <<>> /\ at.h.node = x
    BY <1>1, <2>1, FoundThere
  <2> QED
    BY <1>1, <1>4, <2>1, <2>2 DEF Done
<1>5. CASE op.req.kind = "delete"
  <2>1. /\ op.src.path \in Seq(Names) /\ op.src.path # <<>> /\ ~Stands(op.src.id, op.src.path)
        /\ op.src.path \in Paths \/ (Front(op.src.path) \in Paths /\ IsDir(fs.tree[Front(op.src.path)]))
    BY <1>5 DEF Fulfilled, IsDir
  <2>2. ASSUME old.ok, old.rest = <<>>, old.h.node = op.src.id PROVE FALSE
    <3>1. CASE op.src.path \in Paths
      <4>1. PICK x : Stands(x, op.src.path) /\ x # op.src.id
        BY <2>1, <3>1 DEF Stands
      <4>2. old.h.node = x
        BY <1>1, <4>1, FoundThere
      <4> QED
        BY <2>2, <4>1, <4>2
    <3>2. CASE op.src.path \notin Paths
      <4>1. PICK path : path = op.src.path
        OBVIOUS
      <4>2. Lookup(path, FALSE).ok
        BY <1>1, <2>2, <4>1
      <4>3. Lookup(path, FALSE).rest # <<>>
        BY <2>1, <3>2, <4>1, <4>2, LookupMissing
      <4> QED
        BY <1>1, <2>2, <4>1, <4>3
    <3> QED
      BY <3>1, <3>2
  <2> QED
    BY <1>1, <1>5, <2>2 DEF Done
<1>6. CASE op.req.kind = "copy"
  <2>1. PICK x : Stands(x, p) /\ fs.kind[x] = op.src.kind
    BY <1>1, <1>6 DEF Fulfilled, Stands
  <2>2. at.ok /\ at.rest = <<>> /\ at.h.node = x
    BY <1>1, <2>1, FoundThere
  <2> QED
    BY <1>1, <1>6, <2>1, <2>2 DEF Done
<1>7. CASE op.req.kind \notin {"write", "patch", "mkdir", "move", "delete", "copy"}
  BY <1>7 DEF Done
<1> QED
  BY <1>2, <1>3, <1>4, <1>5, <1>6, <1>7

\* The directories that were to be made are made when none is left to make.
LEMMA AllMade ==
    ASSUME CallInv, HasDest, ~op.dst.exists, Missing = Len(op.dst.tail), "MakeDirs" \notin op.todo, "VerifyDestParent" \notin op.todo
    PROVE  NewParent = op.dst.path /\ op.made > 0
<1>1. op.made = Missing /\ Len(op.dst.tail) \in Nat /\ Len(op.dst.tail) > 0
  BY MissingIs DEF CallInv, DirsMade
<1>2. /\ op.dst.path \in Seq(Names) /\ Len(op.dst.path) = Len(op.dst.existing) + Len(op.dst.tail)
      /\ NewParent = First(op.dst.path, Len(op.dst.existing) + op.made)
  BY NewParentIs
<1>3. Len(op.dst.existing) + op.made = Len(op.dst.path)
  BY <1>1, <1>2
<1>4. First(op.dst.path, Len(op.dst.path)) = op.dst.path
  BY <1>2, FirstAll
<1> QED
  BY <1>1, <1>2, <1>3, <1>4

LEMMA WriteFulfils ==
    ASSUME BrokerInv, ProtectionInv, Running, Finishes("WriteData"), WriteData, op'.result = "ok", op.req.kind \in {"write", "patch"}
    PROVE  Fulfilled'
<1>1. FileSystem(fs) /\ Shaped(op) /\ DestOpened /\ DestIsFile /\ op.todo = {"WriteData"} /\ op'.req = op.req /\ op'.dst = op.dst
  BY DEF BrokerInv, ProtectionInv, Finishes
<1>2. PICK x, p : x = op.h2.node /\ p = op.dst.path
  OBVIOUS
<1>3. Stands(x, p) /\ fs.kind[x] = "file" /\ x \in Nodes
  <2>1. Writes /\ op.todo \cap {"OpenDest", "CreateDest"} = {} /\ op.todo \cap {"OpenDest", "CheckDest", "CreateDest"} = {}
    BY <1>1 DEF Writes
  <2>2. Stands(x, p) /\ fs.kind[x] = "file"
    BY <1>1, <1>2, <2>1 DEF DestOpened, DestIsFile
  <2> QED
    BY <1>1, <2>2, PathsTyped DEF Stands
<1>4. PICK f, o, effect : /\ f = [fs EXCEPT !.data[x] = "new"] /\ effect = "write"
                          /\ o = [op EXCEPT !.effects = @ \cup {effect}]
  OBVIOUS
<1>5. fs' = f /\ op' = Advance("WriteData", o)
  BY <1>2, <1>4 DEF WriteData, Change
<1>6. Shaped(o) /\ o.h2 = op.h2
  BY <1>1, <1>4 DEF Shaped
<1>7. op'.h2 = op.h2
  BY <1>5, <1>6, AdvanceIs
<1>8. f.tree = fs.tree /\ f.kind = fs.kind /\ f.data[x] = "new"
  <2>1. f = Filled(x, "new") /\ "new" \in Contents
    BY <1>4 DEF Filled, Contents
  <2> QED
    BY <1>1, <1>3, <2>1, DataKeeps
<1>9. op'.h2.node = x /\ op'.dst.path = p /\ p \in DOMAIN fs'.tree /\ fs'.tree[p] = x /\ fs'.kind[x] = "file" /\ fs'.data[x] = "new"
  BY <1>1, <1>2, <1>3, <1>5, <1>7, <1>8 DEF Stands, Paths
<1> QED
  BY <1>1, <1>9 DEF Fulfilled, Stands, Paths

LEMMA MkdirFulfils ==
    ASSUME BrokerInv, ProtectionInv, Running, Finishes("VerifyNewParent"), VerifyNewParent, op'.result = "ok", op.req.kind = "mkdir",
           ~op.dst.exists
    PROVE  Fulfilled'
<1>1. /\ FileSystem(fs) /\ Shaped(op) /\ CallInv /\ op.todo = {"VerifyNewParent"} /\ op'.req = op.req /\ op'.dst = op.dst
      /\ op.result = "none"
  BY DEF BrokerInv, Finishes, CallInv, Plan
<1>2. fs' = fs /\ FinalPath(op.p2) = NewParent
  <2> DEFINE c == FinalPath(op.p2) = NewParent
  <2>1. Check("VerifyNewParent", c, "changed")
    BY DEF VerifyNewParent
  <2> HIDE DEF c
  <2>2. c
    BY <1>1, <2>1, FinishChecked
  <2>3. Continue("VerifyNewParent", op)
    BY <2>1, <2>2 DEF Check
  <2> QED
    BY <2>2, <2>3 DEF c, Continue
<1>3. HasDest /\ Missing = Len(op.dst.tail)
  BY DEF HasDest, Missing
<1>4. Stands(op.p2.node, NewParent) /\ (op.made > 0 => IsDir(op.p2.node))
  BY <1>1, <1>3 DEF CallInv, ParentHeld
<1>6. NewParent = op.dst.path /\ op.made > 0
  BY <1>1, <1>3, AllMade
<1>7. op.dst.path \in DOMAIN fs.tree /\ fs.kind[fs.tree[op.dst.path]] = "dir"
  BY <1>4, <1>6 DEF Stands, Paths, IsDir
<1> QED
  BY <1>1, <1>2, <1>7 DEF Fulfilled, Paths

LEMMA MoveFulfils ==
    ASSUME BrokerInv, ProtectionInv, Running, Finishes("VerifyMoved"), VerifyMoved, op'.result = "ok", op.req.kind = "move"
    PROVE  Fulfilled'
<1>1. /\ FileSystem(fs) /\ Shaped(op) /\ CallInv /\ op.todo = {"VerifyMoved"} /\ op'.req = op.req /\ op'.dst = op.dst
      /\ op'.src = op.src /\ op.result = "none"
  BY DEF BrokerInv, Finishes, CallInv, Plan
<1>2. fs' = fs /\ FinalPath(op.h1) = op.dst.path
  <2> DEFINE c == FinalPath(op.h1) = op.dst.path
  <2>1. Check("VerifyMoved", c, "unknown")
    BY DEF VerifyMoved
  <2> HIDE DEF c
  <2>2. c
    BY <1>1, <2>1, FinishChecked
  <2>3. Continue("VerifyMoved", op)
    BY <2>1, <2>2 DEF Check
  <2> QED
    BY <2>2, <2>3 DEF c, Continue
<1>3. op.dst.path \in Seq(Names)
  BY <1>1, NewParentIs DEF HasDest
<1>4. op.h1.node = op.src.id
  BY <1>1 DEF CallInv, HandlesRight, Identified
<1>5. Stands(op.src.id, op.dst.path)
  BY <1>1, <1>2, <1>3, <1>4, FinalPathIs
<1> QED
  BY <1>1, <1>2, <1>5 DEF Fulfilled, Stands, Paths

LEMMA DeleteFulfils ==
    ASSUME BrokerInv, ProtectionInv, Running, Finishes("Unlink"), Unlink, op'.result = "ok", op.req.kind = "delete"
    PROVE  Fulfilled'
<1>1. /\ FileSystem(fs) /\ Shaped(op) /\ CallInv /\ op.todo = {"Unlink"} /\ op'.req = op.req /\ op'.src = op.src
      /\ SourceParent /\ SourceChild /\ Pending /\ Plan
  BY DEF BrokerInv, ProtectionInv, Finishes, CallInv, Pending
<1>2. PICK x, path, above, d : x = op.src.id /\ path = op.src.path /\ above = Front(path) /\ d = op.p1.node
  OBVIOUS
<1>3. op.h1.node = x /\ path \in Seq(Names) /\ path # <<>> /\ x # Root
  <2>1. CanonicalPath(op.src) /\ op.src.exists /\ path # <<>>
    BY <1>1, <1>2 DEF Plan
  <2>2. path \in Seq(Names)
    BY <1>1, <1>2, SourceTyped
  <2> QED
    BY <1>1, <1>2, <2>1, <2>2 DEF CallInv, HandlesRight, Identified, CanonicalPath
<1>4. Stands(d, above) /\ IsDir(d) /\ NotAbove(x, path)
  BY <1>1, <1>2, <1>3 DEF SourceParent, SourceChild
<1>5. NamesOf(x) # {} /\ Children(x) = {} /\ Change("Unlink", Erase(FinalPath(op.h1)), op, "unlink")
  BY <1>1, <1>3, StopFails DEF Unlink
<1>6. PICK p, f, effect : p = FinalPath(op.h1) /\ f = Erase(p) /\ effect = "unlink"
  OBVIOUS
<1>7. Stands(x, p) /\ fs' = f
  BY <1>1, <1>3, <1>5, <1>6, FinalPathIs, ChangeIs
<1>8. p \in Paths /\ fs.tree[p] = x /\ p # <<>>
  BY <1>1, <1>3, <1>7, PathsTyped DEF Stands
<1>9. /\ (\A q : q \in DOMAIN f.tree <=> q \in Paths /\ q # p)
      /\ \A q \in Paths \ {p} : f.tree[q] = fs.tree[q]
      /\ f.kind = fs.kind
  BY <1>1, <1>5, <1>6, <1>8, EraseKeeps
<1>10. Stands(x, path) => p = path
  <2>1. Moving /\ op.todo \cap {"VerifySourceParent", "OpenChild"} = {}
    BY <1>1 DEF Moving
  <2> QED
    BY <1>1, <1>2, <1>3, <1>6, <2>1, EntryIsAt
<1>11. ~(path \in DOMAIN f.tree /\ f.tree[path] = x)
  BY <1>9, <1>10 DEF Stands
<1>12. p # above
  <2>1. Len(path) \in Nat /\ above = First(path, Len(path) - 1) /\ Len(path) - 1 \in 0 .. Len(path) - 1
    <3>1. /\ Len(path) \in Nat /\ Len(path) - 1 \in 0 .. Len(path) /\ above = First(path, Len(path) - 1)
      BY <1>2, <1>3, FrontIs, LenProperties
    <3> QED
      BY <3>1
  <2> QED
    BY <1>4, <1>7, <2>1 DEF NotAbove
<1>13. above \in DOMAIN f.tree /\ f.kind[f.tree[above]] = "dir"
  BY <1>4, <1>9, <1>12 DEF Stands, IsDir
<1>14. op'.src.path = path /\ op'.src.id = x /\ op'.req.kind = "delete" /\ fs' = f
  BY <1>1, <1>2, <1>7
<1> QED
  BY <1>2, <1>3, <1>11, <1>13, <1>14 DEF Fulfilled, Stands, Paths

LEMMA CopyFileFulfils ==
    ASSUME BrokerInv, ProtectionInv, Running, Finishes("CopyData"), CopyData, op'.result = "ok", op.req.kind = "copy", ~TreeCopy
    PROVE  Fulfilled'
<1>1. /\ FileSystem(fs) /\ Shaped(op) /\ DestOpened /\ DestIsFile /\ op.todo = {"CopyData"} /\ op'.req = op.req /\ op'.dst = op.dst
      /\ op'.src = op.src /\ Judged
  BY DEF BrokerInv, ProtectionInv, Finishes
<1>2. PICK x, p : x = op.h2.node /\ p = op.dst.path
  OBVIOUS
<1>3. Stands(x, p) /\ fs.kind[x] = "file" /\ op.src.kind = "file"
  <2>1. Writes /\ op.todo \cap {"OpenDest", "CreateDest"} = {} /\ op.todo \cap {"OpenDest", "CheckDest", "CreateDest"} = {}
    BY <1>1 DEF Writes
  <2>2. Stands(x, p) /\ fs.kind[x] = "file"
    BY <1>1, <1>2, <2>1 DEF DestOpened, DestIsFile
  <2>3. op.src.kind = "file"
    BY <1>1 DEF Judged, TreeCopy
  <2> QED
    BY <2>2, <2>3
<1>4. PICK f, effect, data : f = [fs EXCEPT !.data[x] = data] /\ effect = "write" /\ data = fs.data[op.h1.node]
  OBVIOUS
<1>5. fs' = f
  BY <1>1, <1>2, <1>4, ChangeIs DEF CopyData
<1>6. f.tree = fs.tree /\ f.kind = fs.kind
  BY <1>1, <1>4 DEF FileSystem
<1>7. op'.dst.path = p /\ op'.src.kind = "file" /\ p \in DOMAIN fs'.tree /\ fs'.kind[fs'.tree[p]] = "file" /\ op'.req.kind = "copy"
  BY <1>1, <1>2, <1>3, <1>5, <1>6 DEF Stands, Paths
<1> QED
  BY <1>7 DEF Fulfilled, Paths

LEMMA CopyTreeFulfils ==
    ASSUME BrokerInv, ProtectionInv, Running, Finishes("CopyTree"), CopyTree, op'.result = "ok", TreeCopy
    PROVE  Fulfilled'
<1>1. /\ FileSystem(fs) /\ Shaped(op) /\ CallInv /\ op.todo = {"CopyTree"} /\ op'.req = op.req /\ op'.dst = op.dst
      /\ op'.src = op.src /\ op.req.kind = "copy" /\ op.src.kind = "dir" /\ op.result = "none"
  BY DEF BrokerInv, Finishes, TreeCopy, CallInv, Plan
<1>2. fs' = fs
  <2>1. ~Stop("io_error") /\ ~Stop("denied")
    BY <1>1, StopFails
  <2>2. ASSUME NEW jobs, NEW e, op' = [op EXCEPT !.pending = jobs, !.effects = e] PROVE FALSE
    BY <1>1, <2>2 DEF Shaped
  <2>3. ASSUME NEW jobs, op' = [op EXCEPT !.pending = jobs] PROVE FALSE
    BY <1>1, <2>3 DEF Shaped
  <2>4. \/ Continue("CopyTree", op)
        \/ (\E jobs, e : op' = [op EXCEPT !.pending = jobs, !.effects = e])
        \/ (\E jobs : op' = [op EXCEPT !.pending = jobs])
    BY <2>1 DEF CopyTree
  <2> QED
    BY <2>2, <2>3, <2>4 DEF Continue
<1>3. HasDest /\ Missing = Len(op.dst.tail) /\ ~op.dst.exists
  BY <1>1 DEF HasDest, Missing, CallInv, Plan
<1>4. Stands(op.p2.node, NewParent) /\ (op.made > 0 => IsDir(op.p2.node))
  BY <1>1, <1>3 DEF CallInv, ParentHeld
<1>5. NewParent = op.dst.path /\ op.made > 0
  BY <1>1, <1>3, AllMade
<1>6. op.dst.path \in DOMAIN fs.tree /\ fs.kind[fs.tree[op.dst.path]] = "dir"
  BY <1>4, <1>5 DEF Stands, Paths, IsDir
<1> QED
  BY <1>1, <1>2, <1>6 DEF Fulfilled, Paths

LEMMA InspectGoesOn ==
    ASSUME Shaped(op), op.result = "none", Inspect
    PROVE  op'.result # "ok"
<1> SUFFICES ASSUME op'.result = "ok" PROVE FALSE
  OBVIOUS
<1>1. ~Stop("refused") /\ ~Stop("denied")
  BY StopFails
<1>2. PICK more : /\ more \subseteq {"DeleteTree", "Unlink"} /\ "Unlink" \in more
                  /\ Continue("Inspect", [op EXCEPT !.todo = @ \cup more])
  BY <1>1 DEF Inspect
<1>3. PICK o, step : o = [op EXCEPT !.todo = @ \cup more] /\ step = "Inspect"
  OBVIOUS
<1>4. Shaped(o) /\ o.result = op.result /\ "Unlink" \in o.todo
  BY <1>2, <1>3 DEF Shaped
<1>5. op' = Advance(step, o) /\ o.todo # {step}
  BY <1>2, <1>3, <1>4 DEF Continue
<1>6. op'.result = o.result
  BY <1>4, <1>5, AdvanceIs
<1> QED
  BY <1>4, <1>6

LEMMA WriteFailsFails ==
    ASSUME Shaped(op), WriteFails
    PROVE  op'.result # "ok"
<1>1. PICK a : a = Ended(op, "io_error")
  OBVIOUS
<1>2. PICK e : op' = [a EXCEPT !.effects = e]
  BY <1>1 DEF WriteFails
<1>3. Shaped(a) /\ a.result = "io_error"
  BY <1>1, EndedIs
<1>4. op'.result = "io_error"
  BY <1>2, <1>3 DEF Shaped
<1> QED
  BY <1>4

LEMMA StepSucceeds ==
    ASSUME BrokerInv, ProtectionInv, SuccessInv, Step
    PROVE  SuccessInv'
<1>1. Shaped(op)
  BY DEF BrokerInv
<1>2. ASSUME Running' PROVE op'.req.kind = "mkdir" => ~op'.dst.exists
  <2>1. PICK step : Goes(step)
    BY <1>2, StepGoes
  <2>2. Running /\ op'.req = op.req /\ op'.dst = op.dst
    BY <2>1 DEF Goes, Doing, Running
  <2> QED
    BY <2>2 DEF SuccessInv
<1>3. ASSUME op'.result = "ok" PROVE Fulfilled'
  <2>1. Running
    BY <1>3, StepFinishes
  <2>2. PICK step : Finishes(step) /\ StepIs(step)
    BY <1>3, StepFinishes
  <2>3. LastStep /\ op.todo = {step} /\ op'.req = op.req /\ op.result = "none"
    BY <2>1, <2>2 DEF ProtectionInv, Finishes, BrokerInv, CallInv, Plan
  <2>4. CASE op.req.kind \in {"write", "patch"}
    <3>1. step = "WriteData"
      BY <2>3, <2>4 DEF LastStep
    <3>2. WriteData
      BY <1>1, <1>3, <2>2, <3>1, WriteFailsFails DEF StepIs
    <3> QED
      BY <1>3, <2>1, <2>2, <2>4, <3>1, <3>2, WriteFulfils
  <2>5. CASE op.req.kind = "mkdir"
    <3>1. step = "VerifyNewParent"
      BY <2>3, <2>5 DEF LastStep
    <3>2. VerifyNewParent /\ ~op.dst.exists
      BY <2>1, <2>2, <2>5, <3>1 DEF StepIs, SuccessInv
    <3> QED
      BY <1>3, <2>1, <2>2, <2>5, <3>1, <3>2, MkdirFulfils
  <2>6. CASE op.req.kind = "delete"
    <3>1. step = "Inspect" \/ step = "Unlink"
      BY <2>3, <2>6 DEF LastStep
    <3>2. step = "Unlink" /\ Unlink
      BY <1>1, <1>3, <2>2, <2>3, <3>1, InspectGoesOn DEF StepIs
    <3> QED
      BY <1>3, <2>1, <2>2, <2>6, <3>2, DeleteFulfils
  <2>7. CASE op.req.kind = "move"
    <3>1. step = "VerifyMoved"
      BY <2>3, <2>7 DEF LastStep
    <3>2. VerifyMoved
      BY <2>2, <3>1 DEF StepIs
    <3> QED
      BY <1>3, <2>1, <2>2, <2>7, <3>1, <3>2, MoveFulfils
  <2>8. CASE op.req.kind = "copy" /\ ~TreeCopy
    <3>1. step = "CopyData"
      BY <2>3, <2>8 DEF LastStep
    <3>2. CopyData
      BY <1>1, <1>3, <2>2, <3>1, WriteFailsFails DEF StepIs
    <3> QED
      BY <1>3, <2>1, <2>2, <2>8, <3>1, <3>2, CopyFileFulfils
  <2>9. CASE TreeCopy
    <3>1. step = "CopyTree"
      BY <2>3, <2>9 DEF LastStep
    <3>2. CopyTree
      BY <2>2, <3>1 DEF StepIs
    <3> QED
      BY <1>3, <2>1, <2>2, <2>9, <3>1, <3>2, CopyTreeFulfils
  <2>10. CASE op.req.kind \notin {"write", "patch", "mkdir", "delete", "move", "copy"}
    BY <2>3, <2>10 DEF Fulfilled
  <2> QED
    BY <2>4, <2>5, <2>6, <2>7, <2>8, <2>9, <2>10
<1> QED
  BY <1>2, <1>3 DEF SuccessInv

\* What exists is at its canonical path.
LEMMA CanonicalThere ==
    ASSUME FileSystem(fs), NEW input, Normalize(input) = Gone \/ Normalize(input) \in Seq(Names), NEW follow,
           NEW c, c = Canonical(input, follow), c.ok
    PROVE  c.exists => c.path \in Paths /\ c.kind = fs.kind[fs.tree[c.path]]
<1>1. PICK path, w : path = Normalize(input) /\ w = Lookup(path, follow)
  OBVIOUS
<1>2. w.ok /\ c = [ok |-> TRUE, existing |-> FinalPath(w.h), tail |-> w.rest, path |-> FinalPath(w.h) \o w.rest,
                   id |-> w.h.node, exists |-> w.rest = <<>>, kind |-> fs.kind[w.h.node]]
  BY <1>1 DEF Canonical, Error
<1>3. PICK q \in Paths, rest \in Seq(Names) : w = Found(HandleAt(q), rest)
  BY <1>1, <1>2, LookupFound
<1>4. q \in Seq(Names) /\ HandleAt(q).node = fs.tree[q] /\ FinalPath(HandleAt(q)) = q
  BY HandleAtIs, PathsTyped
<1>5. w.h = HandleAt(q) /\ w.rest = rest
  BY <1>3 DEF Found
<1>6. c.path = q \o rest /\ c.kind = fs.kind[fs.tree[q]]
  BY <1>2, <1>4, <1>5
<1>7. c.exists => rest = <<>>
  <2>1. c.exists = (w.rest = <<>>)
    BY <1>2
  <2> QED
    BY <1>5, <2>1
<1>8. rest = <<>> => c.path = q
  BY <1>4, <1>6, ConcatEmptySeq
<1> QED
  BY <1>6, <1>7, <1>8

LEMMA CallSucceeds ==
    ASSUME BrokerInv, NEW r \in Requests, Call(r)
    PROVE  SuccessInv'
<1>1. PICK follow : follow = (r.kind \notin {"delete", "move"})
  OBVIOUS
<1>2. PICK src, dst : src = Canonical(r.source, follow) /\ dst = Canonical(r.dest, follow)
  OBVIOUS
<1>3. PICK o, answer : o = [Idle EXCEPT !.req = r, !.src = src, !.dst = dst] /\ answer = Answered(r, src, dst)
  OBVIOUS
<1>4. /\ fs' = fs
      /\ op' = IF answer = "none" THEN [o EXCEPT !.todo = Tool(r, src, dst).op.steps] ELSE Ended(o, answer)
  BY <1>1, <1>2, <1>3 DEF Call
<1>5. Shaped(o) /\ o.result = "none" /\ o.req = r /\ o.src = src /\ o.dst = dst
  BY <1>3 DEF Shaped, Idle
<1>6. CASE answer = "none"
  <2>1. op'.result = "none" /\ op'.req = r /\ op'.dst = dst /\ op'.todo = Tool(r, src, dst).op.steps
    BY <1>4, <1>5, <1>6 DEF Shaped
  <2>2. ASSUME r.kind = "mkdir", dst.exists PROVE op'.todo = {}
    BY <2>1, <2>2 DEF Tool, MkdirTool, MkdirOp
  <2> QED
    BY <2>1, <2>2 DEF SuccessInv, Running
<1>7. CASE answer # "none"
  <2>1. op' = [o EXCEPT !.todo = {}, !.result = answer, !.pending = <<>>]
    BY <1>4, <1>7 DEF Ended
  <2>2. op'.todo = {} /\ op'.result = answer /\ op'.req = r /\ op'.src = src /\ op'.dst = dst
    BY <1>5, <2>1 DEF Shaped
  <2>3. ASSUME answer = "ok" PROVE Fulfilled'
    <3>1. dst.ok /\ ~Tool(r, src, dst).op.refused /\ Tool(r, src, dst).op.steps = {}
      BY <1>3, <2>3 DEF Answered
    <3>2. r.kind \in ToolKinds
      BY RequestsAssumption
    <3>3. r.kind \in {"stat", "mkdir"}
      <4>1. r.kind # "list" /\ r.kind # "read"
        BY <3>1 DEF Tool, ListTool, ListOp, ReadTool, ReadOp
      <4>2. r.kind # "write" /\ r.kind # "patch"
        BY <3>1 DEF Tool, WriteTool, WriteOp, PatchTool, PatchOp
      <4>3. r.kind # "copy"
        BY <3>1 DEF Tool, CopyTool, CopyOp, CopyFileOp, CopyTreeOp
      <4>4. r.kind # "move" /\ r.kind # "delete"
        BY <3>1 DEF Tool, MoveTool, MoveOp, DeleteTool, DeleteOp
      <4> QED
        BY <3>2, <4>1, <4>2, <4>3, <4>4 DEF ToolKinds
    <3>4. r.kind = "mkdir" => dst.exists /\ dst.kind = "dir"
      BY <3>1 DEF Tool, MkdirTool, MkdirOp, EnsureDirs
    <3>5. Normalize(r.dest) = Gone \/ Normalize(r.dest) \in Seq(Names)
      BY RequestsAssumption
    <3>6. dst.exists => dst.path \in Paths /\ dst.kind = fs.kind[fs.tree[dst.path]]
      BY <1>2, <3>1, <3>5, CanonicalThere DEF BrokerInv
    <3>7. CASE r.kind = "mkdir"
      <4>1. op'.dst.path \in DOMAIN fs'.tree /\ fs'.kind[fs'.tree[op'.dst.path]] = "dir" /\ op'.req.kind = "mkdir"
        BY <1>4, <2>2, <3>4, <3>6, <3>7 DEF Paths
      <4> QED
        BY <4>1 DEF Fulfilled, Paths
    <3>8. CASE r.kind = "stat"
      BY <2>2, <3>8 DEF Fulfilled
    <3> QED
      BY <3>3, <3>7, <3>8
  <2> QED
    BY <2>2, <2>3 DEF SuccessInv, Running
<1> QED
  BY <1>6, <1>7

LEMMA SuccessInduction == BrokerInv /\ ProtectionInv /\ SuccessInv /\ [Next]_vars => SuccessInv'
<1>1. SUFFICES ASSUME BrokerInv, ProtectionInv, SuccessInv, [Next]_vars PROVE SuccessInv'
  OBVIOUS
<1>2. CASE vars' = vars
  <2>1. fs' = fs /\ op' = op
    BY <1>2 DEF vars
  <2> QED
    BY <1>1, <2>1 DEF SuccessInv, Running, Fulfilled, Stands, Paths
<1>3. CASE \E r \in Requests : Call(r)
  BY <1>1, <1>3, CallSucceeds
<1>4. CASE Step
  BY <1>1, <1>4, StepSucceeds
<1>5. CASE Others
  <2>1. op' = op
    BY <1>1, <1>5, OthersAside DEF Aside, ProtectionInv, BrokerInv
  <2>2. op.result = "none"
    BY <1>5 DEF Others
  <2> QED
    BY <1>1, <2>1, <2>2 DEF SuccessInv, Running
<1> QED
  BY <1>1, <1>2, <1>3, <1>4, <1>5 DEF Next

\* A call that reports success has done what it says, whatever other programs
\* did while it ran: what was written, made, copied or moved is at the path
\* that was evaluated, not at another one that a renamed directory led to, and
\* the entry that was deleted is not there any more.
THEOREM SuccessesAreTrue == Spec => []SuccessIsTrue
<1>1. Init => SuccessInv
  BY DEF Init, Idle, SuccessInv, Running
<1>2. BrokerInv /\ SuccessInv => SuccessIsTrue
  BY FulfilledIsDone DEF SuccessInv, SuccessIsTrue, BrokerInv
<1> QED
  BY ProtectionInvariant, SuccessInduction, <1>1, <1>2, PTL DEF Spec
=============================================================================
