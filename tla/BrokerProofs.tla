---------------------------- MODULE BrokerProofs ----------------------------
(***************************************************************************)
(* Proofs about module Broker, for any file system, any requests and any   *)
(* interference by other programs: a refused call leaves the file system   *)
(* as it was (RefusalIsClean), and a call acts on what was evaluated       *)
(* (ActsOnEvaluated).                                                      *)
(*                                                                         *)
(* The invariant BrokerInv says which steps a call has left, which objects *)
(* its handles lead to, and which of them keep their path: the parent of   *)
(* the destination once it was verified and what the call made since are   *)
(* held in their place by open handles.  Paths are sequences of names of   *)
(* any length, so what they and the tree do comes first.                   *)
(***************************************************************************)
EXTENDS Broker, SequenceTheorems, FiniteSetTheorems, WellFoundedInduction, TLAPS

-----------------------------------------------------------------------------
\* Paths

\* The first n components of a path.
LEMMA FirstIs ==
    ASSUME NEW p \in Seq(Names), NEW n \in 0 .. Len(p)
    PROVE  /\ First(p, n) \in Seq(Names) /\ Len(First(p, n)) = n
           /\ \A i \in 1 .. n : First(p, n)[i] = p[i]
<1>1. \A i \in 1 .. n : p[i] \in Names
  BY ElementOfSeq, LenProperties
<1>2. n \in Int /\ 1 \in Int /\ Len(p) \in Nat
  BY LenProperties
<1> QED
  BY <1>1, <1>2, SubSeqProperties DEF First

\* What follows them.
LEMMA SkipIs ==
    ASSUME NEW p \in Seq(Names), NEW n \in 0 .. Len(p)
    PROVE  /\ Skip(p, n) \in Seq(Names) /\ Len(Skip(p, n)) = Len(p) - n
           /\ \A i \in 1 .. Len(p) - n : Skip(p, n)[i] = p[n + i]
<1>2. n \in Nat /\ n + 1 \in Int /\ Len(p) \in Nat
  BY LenProperties
<1>1. \A i \in n + 1 .. Len(p) : p[i] \in Names
  BY <1>2, ElementOfSeq
<1> QED
  BY <1>1, <1>2, SubSeqProperties DEF Skip

\* Two paths are the same if their components are.
LEMMA SamePath ==
    ASSUME NEW p \in Seq(Names), NEW q \in Seq(Names),
           Len(p) = Len(q), \A i \in 1 .. Len(p) : p[i] = q[i]
    PROVE  p = q
BY SeqEqual

LEMMA FirstAll == ASSUME NEW p \in Seq(Names) PROVE First(p, Len(p)) = p /\ First(p, 0) = <<>>
<1>1. Len(p) \in Nat
  BY LenProperties
<1>2. First(p, 0) = <<>>
  BY SubSeqEmpty DEF First
<1> QED
  BY <1>2, SubSeqFull DEF First

LEMMA FirstOfFirst ==
    ASSUME NEW p \in Seq(Names), NEW m \in 0 .. Len(p), NEW n \in 0 .. m
    PROVE  First(First(p, m), n) = First(p, n)
<1> Len(p) \in Nat
  BY LenProperties
<1>1. n \in 0 .. Len(p) /\ n \in 0 .. Len(First(p, m))
  BY FirstIs
<1> QED
  BY <1>1, FirstIs, SamePath

\* A prefix is the first part.
LEMMA PrefixIs ==
    ASSUME NEW p \in Seq(Names), NEW q \in Seq(Names)
    PROVE  IsPrefix(q, p) <=> Len(q) \in 0 .. Len(p) /\ q = First(p, Len(q))
<1> Len(p) \in Nat /\ Len(q) \in Nat
  BY LenProperties
<1> QED
  BY SubSeqFull DEF IsPrefix, First

LEMMA PrefixComponents ==
    ASSUME NEW p \in Seq(Names), NEW q \in Seq(Names)
    PROVE  IsPrefix(q, p) <=> Len(q) <= Len(p) /\ \A i \in 1 .. Len(q) : q[i] = p[i]
<1> Len(p) \in Nat /\ Len(q) \in Nat
  BY LenProperties
<1>1. ASSUME Len(q) <= Len(p), \A i \in 1 .. Len(q) : q[i] = p[i]
      PROVE  q = First(p, Len(q))
  <2>1. Len(q) \in 0 .. Len(p)
    BY <1>1
  <2> QED
    BY <1>1, <2>1, FirstIs, SamePath
<1>2. ASSUME Len(q) \in 0 .. Len(p), q = First(p, Len(q)), NEW i \in 1 .. Len(q)
      PROVE  q[i] = p[i]
  BY <1>2, FirstIs
<1> QED
  BY <1>1, <1>2, PrefixIs

LEMMA FirstIsPrefix ==
    ASSUME NEW p \in Seq(Names), NEW n \in 0 .. Len(p)
    PROVE  IsPrefix(First(p, n), p)
BY FirstIs, PrefixIs

LEMMA PrefixTrans ==
    ASSUME NEW p \in Seq(Names), NEW q \in Seq(Names), NEW r \in Seq(Names), IsPrefix(p, q), IsPrefix(q, r)
    PROVE  IsPrefix(p, r)
<1> Len(p) \in Nat /\ Len(q) \in Nat /\ Len(r) \in Nat
  BY LenProperties
<1> QED
  BY PrefixComponents

\* The parent of a path and its last component.
LEMMA FrontIs ==
    ASSUME NEW p \in Seq(Names), p # <<>>
    PROVE  /\ Front(p) \in Seq(Names) /\ Len(Front(p)) = Len(p) - 1 /\ Len(p) - 1 \in 0 .. Len(p)
           /\ Front(p) = First(p, Len(p) - 1) /\ Last(p) \in Names
           /\ Append(Front(p), Last(p)) = p
<1>1. Len(p) \in Nat \ {0}
  BY EmptySeq
<1>2. Front(p) = First(p, Len(p) - 1) /\ Len(p) - 1 \in 0 .. Len(p)
  BY <1>1 DEF Front, First
<1>3. Last(p) \in Names
  BY <1>1, ElementOfSeq DEF Last
<1>4. Front(p) \in Seq(Names) /\ Len(Front(p)) = Len(p) - 1 /\ \A i \in 1 .. Len(p) - 1 : Front(p)[i] = p[i]
  BY <1>2, FirstIs
<1>5. Append(Front(p), Last(p)) = p
  BY <1>1, <1>3, <1>4, AppendProperties, SamePath DEF Last
<1> QED
  BY <1>1, <1>2, <1>3, <1>4, <1>5

LEMMA AppendIs ==
    ASSUME NEW p \in Seq(Names), NEW x \in Names
    PROVE  /\ Append(p, x) \in Seq(Names) /\ Append(p, x) # <<>> /\ Len(Append(p, x)) = Len(p) + 1
           /\ Front(Append(p, x)) = p /\ Last(Append(p, x)) = x
           /\ \A n \in 0 .. Len(p) : First(Append(p, x), n) = First(p, n)
<1>1. Len(p) \in Nat
  BY LenProperties
<1>2. /\ Append(p, x) \in Seq(Names) /\ Append(p, x) # <<>> /\ Len(Append(p, x)) = Len(p) + 1
      /\ \A i \in 1 .. Len(p) : Append(p, x)[i] = p[i]
      /\ Append(p, x)[Len(p) + 1] = x
  BY AppendProperties
<1>3. ASSUME NEW n \in 0 .. Len(p) PROVE First(Append(p, x), n) = First(p, n)
  <2>1. n \in 0 .. Len(Append(p, x))
    BY <1>1, <1>2
  <2>2. First(p, n) \in Seq(Names) /\ Len(First(p, n)) = n /\ \A i \in 1 .. n : First(p, n)[i] = p[i]
    BY FirstIs
  <2>3. /\ First(Append(p, x), n) \in Seq(Names) /\ Len(First(Append(p, x), n)) = n
        /\ \A i \in 1 .. n : First(Append(p, x), n)[i] = Append(p, x)[i]
    BY <1>2, <2>1, FirstIs
  <2>4. \A i \in 1 .. n : First(Append(p, x), n)[i] = First(p, n)[i]
    BY <1>1, <1>2, <2>2, <2>3
  <2> QED
    BY <2>2, <2>3, <2>4, SamePath
<1>4. Front(Append(p, x)) = p
  <2>1. Front(Append(p, x)) = First(Append(p, x), Len(Append(p, x)) - 1)
    BY <1>2, FrontIs
  <2>2. Len(Append(p, x)) - 1 = Len(p)
    BY <1>1, <1>2
  <2>3. First(Append(p, x), Len(p)) = First(p, Len(p))
    BY <1>1, <1>3
  <2> QED
    BY <2>1, <2>2, <2>3, FirstAll
<1> QED
  BY <1>2, <1>3, <1>4 DEF Last

\* r is p followed by q.
Joined(p, q, r) == r = p \o q

\* The components of a concatenation.
LEMMA ConcatComponents ==
    ASSUME NEW p \in Seq(Names), NEW q \in Seq(Names), NEW r, r = p \o q
    PROVE  /\ Len(p) \in Nat /\ Len(q) \in Nat /\ r \in Seq(Names) /\ Len(r) = Len(p) + Len(q)
           /\ \A i \in 1 .. Len(p) : r[i] = p[i]
           /\ \A i \in 1 .. Len(q) : r[Len(p) + i] = q[i]
<1>1. Len(p) \in Nat /\ Len(q) \in Nat
  BY LenProperties
<1>2. /\ r \in Seq(Names) /\ Len(r) = Len(p) + Len(q)
      /\ \A i \in 1 .. Len(p) + Len(q) : r[i] = IF i <= Len(p) THEN p[i] ELSE q[i - Len(p)]
  BY ConcatProperties
<1> QED
  BY <1>1, <1>2

LEMMA IsConcat ==
    ASSUME NEW p \in Seq(Names), NEW q \in Seq(Names), NEW r \in Seq(Names), Len(r) = Len(p) + Len(q),
           \A i \in 1 .. Len(p) : r[i] = p[i], \A i \in 1 .. Len(q) : r[Len(p) + i] = q[i]
    PROVE  r = p \o q
<1>1. PICK t : t = p \o q
  OBVIOUS
<1>2. /\ Len(p) \in Nat /\ Len(q) \in Nat /\ t \in Seq(Names) /\ Len(t) = Len(p) + Len(q)
      /\ \A i \in 1 .. Len(p) : t[i] = p[i]
      /\ \A i \in 1 .. Len(q) : t[Len(p) + i] = q[i]
  BY <1>1, ConcatComponents
<1>3. ASSUME NEW i \in 1 .. Len(r) PROVE r[i] = t[i]
  <2>1. CASE i <= Len(p)
    BY <1>2, <2>1
  <2>2. CASE i > Len(p)
    <3>1. i - Len(p) \in 1 .. Len(q) /\ i = Len(p) + (i - Len(p))
      BY <1>2, <2>2
    <3> QED
      BY <1>2, <3>1
  <2> QED
    BY <1>2, <2>1, <2>2
<1> QED
  BY <1>1, <1>2, <1>3, SamePath

LEMMA ConcatIs ==
    ASSUME NEW p \in Seq(Names), NEW q \in Seq(Names), NEW r, Joined(p, q, r)
    PROVE  /\ r \in Seq(Names) /\ Len(r) = Len(p) + Len(q) /\ IsPrefix(p, r)
           /\ \A n \in 0 .. Len(p) : First(r, n) = First(p, n)
           /\ \A n \in 0 .. Len(q) : First(r, Len(p) + n) = p \o First(q, n)
           /\ Skip(r, Len(p)) = q
<1>1. /\ Len(p) \in Nat /\ Len(q) \in Nat /\ r \in Seq(Names) /\ Len(r) = Len(p) + Len(q)
      /\ \A i \in 1 .. Len(p) : r[i] = p[i]
      /\ \A i \in 1 .. Len(q) : r[Len(p) + i] = q[i]
  BY ConcatComponents DEF Joined
<1>2. Len(p) <= Len(r)
  BY <1>1
<1>3. IsPrefix(p, r)
  BY <1>1, <1>2, PrefixComponents
<1>4. ASSUME NEW n \in 0 .. Len(p) PROVE First(r, n) = First(p, n)
  <2>1. n \in 0 .. Len(r)
    BY <1>1
  <2>2. First(p, n) \in Seq(Names) /\ Len(First(p, n)) = n /\ \A i \in 1 .. n : First(p, n)[i] = p[i]
    BY FirstIs
  <2>3. First(r, n) \in Seq(Names) /\ Len(First(r, n)) = n /\ \A i \in 1 .. n : First(r, n)[i] = r[i]
    BY <1>1, <2>1, FirstIs
  <2>4. \A i \in 1 .. n : First(r, n)[i] = First(p, n)[i]
    BY <1>1, <2>2, <2>3, SMTT(30)
  <2> QED
    BY <2>2, <2>3, <2>4, SamePath
<1>5. ASSUME NEW n \in 0 .. Len(q) PROVE First(r, Len(p) + n) = p \o First(q, n)
  <2>1. Len(p) + n \in 0 .. Len(r)
    BY <1>1
  <2>2. First(q, n) \in Seq(Names) /\ Len(First(q, n)) = n /\ \A i \in 1 .. n : First(q, n)[i] = q[i]
    BY FirstIs
  <2>3. /\ First(r, Len(p) + n) \in Seq(Names) /\ Len(First(r, Len(p) + n)) = Len(p) + n
        /\ \A i \in 1 .. Len(p) + n : First(r, Len(p) + n)[i] = r[i]
    BY <1>1, <2>1, FirstIs
  <2>4. ASSUME NEW i \in 1 .. Len(p) PROVE First(r, Len(p) + n)[i] = p[i]
    <3>1. i \in 1 .. Len(p) + n
      BY <1>1
    <3> QED
      BY <1>1, <2>3, <3>1
  <2>5. ASSUME NEW i \in 1 .. n PROVE First(r, Len(p) + n)[Len(p) + i] = First(q, n)[i]
    <3>1. Len(p) + i \in 1 .. Len(p) + n /\ i \in 1 .. Len(q)
      BY <1>1
    <3> QED
      BY <1>1, <2>2, <2>3, <3>1
  <2> QED
    BY <2>2, <2>3, <2>4, <2>5, IsConcat
<1>6. Skip(r, Len(p)) = q
  <2>1. Len(p) \in 0 .. Len(r)
    BY <1>1
  <2>2. /\ Skip(r, Len(p)) \in Seq(Names) /\ Len(Skip(r, Len(p))) = Len(r) - Len(p)
        /\ \A i \in 1 .. Len(r) - Len(p) : Skip(r, Len(p))[i] = r[Len(p) + i]
    BY <1>1, <2>1, SkipIs
  <2>3. Len(r) - Len(p) = Len(q)
    BY <1>1
  <2>4. \A i \in 1 .. Len(q) : Skip(r, Len(p))[i] = q[i]
    BY <1>1, <2>2, <2>3
  <2> QED
    BY <2>2, <2>3, <2>4, SamePath
<1> QED
  BY <1>1, <1>3, <1>4, <1>5, <1>6

LEMMA SplitPath ==
    ASSUME NEW p \in Seq(Names), NEW n \in 0 .. Len(p)
    PROVE  First(p, n) \o Skip(p, n) = p
<1>1. Len(p) \in Nat
  BY LenProperties
<1>2. First(p, n) \in Seq(Names) /\ Len(First(p, n)) = n /\ \A i \in 1 .. n : First(p, n)[i] = p[i]
  BY FirstIs
<1>3. /\ Skip(p, n) \in Seq(Names) /\ Len(Skip(p, n)) = Len(p) - n
      /\ \A i \in 1 .. Len(p) - n : Skip(p, n)[i] = p[n + i]
  BY SkipIs
<1>4. /\ First(p, n) \o Skip(p, n) \in Seq(Names) /\ Len(First(p, n) \o Skip(p, n)) = Len(p)
      /\ \A i \in 1 .. Len(p) : (First(p, n) \o Skip(p, n))[i] = IF i <= n THEN First(p, n)[i] ELSE Skip(p, n)[i - n]
  BY <1>1, <1>2, <1>3, ConcatProperties, SMTT(30)
<1>5. \A i \in 1 .. Len(p) : (First(p, n) \o Skip(p, n))[i] = p[i]
  BY <1>1, <1>2, <1>3, <1>4
<1> QED
  BY <1>4, <1>5, SamePath

\* The first part of r, beyond p.
GoesOnWith(p, q, r) == \A n \in 0 .. Len(q) : First(r, Len(p) + n) = p \o First(q, n)

LEMMA FirstOfJoined ==
    ASSUME NEW p \in Seq(Names), NEW q \in Seq(Names), NEW r, Joined(p, q, r)
    PROVE  GoesOnWith(p, q, r)
BY ConcatIs DEF GoesOnWith

\* What is at or below from, seen at or below to.
LEMMA Rehang ==
    ASSUME NEW from \in Seq(Names), NEW to \in Seq(Names), NEW q \in Seq(Names), IsPrefix(from, q),
           NEW r, Joined(to, Skip(q, Len(from)), r)
    PROVE  /\ r \in Seq(Names) /\ IsPrefix(to, r) /\ Len(r) = Len(to) + (Len(q) - Len(from))
           /\ from \o Skip(r, Len(to)) = q
           /\ \A n \in 0 .. Len(to) : First(r, n) = First(to, n)
           /\ \A n \in Len(to) .. Len(r) :
                  /\ Len(from) + (n - Len(to)) \in Len(from) .. Len(q)
                  /\ First(r, n) = to \o Skip(First(q, Len(from) + (n - Len(to))), Len(from))
                  /\ IsPrefix(from, First(q, Len(from) + (n - Len(to))))
<1>1. Len(from) \in Nat /\ Len(to) \in Nat /\ Len(q) \in Nat /\ Len(from) \in 0 .. Len(q) /\ from = First(q, Len(from))
  BY LenProperties, PrefixIs
<1>0. PICK rest : rest = Skip(q, Len(from))
  OBVIOUS
<1>2. rest \in Seq(Names) /\ Len(rest) = Len(q) - Len(from)
  BY <1>0, <1>1, SkipIs
<1>3. from \o rest = q
  BY <1>0, <1>1, SplitPath
<1>4. /\ r \in Seq(Names) /\ IsPrefix(to, r) /\ Len(r) = Len(to) + Len(rest) /\ Skip(r, Len(to)) = rest
      /\ \A n \in 0 .. Len(to) : First(r, n) = First(to, n)
      /\ \A n \in 0 .. Len(rest) : First(r, Len(to) + n) = to \o First(rest, n)
  <2>1. Joined(to, rest, r)
    BY <1>0
  <2>2. r \in Seq(Names) /\ IsPrefix(to, r) /\ Len(r) = Len(to) + Len(rest)
    BY <1>2, <2>1, ConcatIs
  <2>3. Skip(r, Len(to)) = rest
    BY <1>2, <2>1, ConcatIs
  <2>4. \A n \in 0 .. Len(to) : First(r, n) = First(to, n)
    BY <1>2, <2>1, ConcatIs
  <2>5. \A n \in 0 .. Len(rest) : First(r, Len(to) + n) = to \o First(rest, n)
    <3>1. GoesOnWith(to, rest, r)
      BY <1>2, <2>1, FirstOfJoined
    <3> QED
      BY <3>1 DEF GoesOnWith
  <2> QED
    BY <2>2, <2>3, <2>4, <2>5
<1>5. \A n \in 0 .. Len(rest) : First(q, Len(from) + n) = from \o First(rest, n)
  <2>1. Joined(from, rest, q)
    BY <1>3 DEF Joined
  <2> QED
    BY <1>2, <2>1, ConcatIs, SMTT(30)
<1>6. ASSUME NEW n \in Len(to) .. Len(r)
      PROVE  /\ Len(from) + (n - Len(to)) \in Len(from) .. Len(q)
             /\ First(r, n) = to \o Skip(First(q, Len(from) + (n - Len(to))), Len(from))
             /\ IsPrefix(from, First(q, Len(from) + (n - Len(to))))
  <2> DEFINE k == n - Len(to)
  <2>1. k \in 0 .. Len(rest) /\ n = Len(to) + k /\ Len(from) + k \in Len(from) .. Len(q)
    BY <1>1, <1>2, <1>4
  <2>2. First(rest, k) \in Seq(Names)
    BY <1>2, <2>1, FirstIs
  <2>3. First(q, Len(from) + k) = from \o First(rest, k)
    BY <1>5, <2>1
  <2>4. Skip(First(q, Len(from) + k), Len(from)) = First(rest, k) /\ IsPrefix(from, First(q, Len(from) + k))
    <3>1. PICK t : t = First(rest, k)
      OBVIOUS
    <3>2. PICK u : u = First(q, Len(from) + k)
      OBVIOUS
    <3>3. t \in Seq(Names) /\ Joined(from, t, u)
      BY <2>2, <2>3, <3>1, <3>2 DEF Joined
    <3>4. Skip(u, Len(from)) = t /\ IsPrefix(from, u)
      BY <3>3, ConcatIs
    <3> QED
      BY <3>1, <3>2, <3>4
  <2>5. First(r, n) = to \o First(rest, k)
    BY <1>4, <2>1
  <2> QED
    BY <2>1, <2>4, <2>5
<1> QED
  BY <1>2, <1>3, <1>4, <1>6

-----------------------------------------------------------------------------
\* Trees

LEMMA TreePrefix ==
    ASSUME NEW t, NEW k, IsTree(t, k), NEW p \in DOMAIN t, NEW q \in Seq(Names), IsPrefix(q, p)
    PROVE  q \in DOMAIN t /\ (q # p => k[t[q]] = "dir" /\ Len(q) < Len(p))
<1>1. p \in Seq(Names)
  BY DEF IsTree
<1>2. Len(p) \in Nat /\ Len(q) \in 0 .. Len(p) /\ q = First(p, Len(q))
  BY <1>1, PrefixIs, LenProperties
<1>3. CASE Len(q) = Len(p)
  BY <1>1, <1>2, <1>3, FirstAll
<1>4. CASE Len(q) # Len(p)
  <2>1. Len(q) \in 0 .. Len(p) - 1
    BY <1>2, <1>4
  <2> QED
    BY <1>2, <2>1 DEF IsTree
<1> QED
  BY <1>3, <1>4

LEMMA TreeParent ==
    ASSUME NEW t, NEW k, IsTree(t, k), NEW p \in DOMAIN t, p # <<>>
    PROVE  Front(p) \in DOMAIN t /\ k[t[Front(p)]] = "dir"
<1>1. p \in Seq(Names)
  BY DEF IsTree
<1>2. Front(p) \in Seq(Names) /\ Front(p) = First(p, Len(p) - 1) /\ Len(p) - 1 \in 0 .. Len(p) /\ Len(p) \in Nat
  BY <1>1, FrontIs, LenProperties
<1>3. Len(p) - 1 \in 0 .. Len(p) - 1
  BY <1>2
<1> QED
  BY <1>2, <1>3 DEF IsTree

\* A new path in a directory, for a new object or a file.
CanHang(t, k, p, x, k2) ==
    /\ IsTree(t, k) /\ p \in Seq(Names) /\ p \notin DOMAIN t /\ p # <<>>
    /\ Front(p) \in DOMAIN t /\ k[t[Front(p)]] = "dir" /\ x \in Nodes /\ k2[x] # "free"
    /\ \A y \in Nodes \ {x} : k2[y] = k[y]
    /\ (\A q \in DOMAIN t : t[q] # x) \/ (k2[x] = k[x] /\ k[x] # "dir")

LEMMA WithTree ==
    ASSUME NEW t, NEW k, NEW p, NEW x, NEW k2, CanHang(t, k, p, x, k2),
           NEW u, u = With(t, p, x)
    PROVE  /\ IsTree(u, k2) /\ (\A q : q \in DOMAIN u <=> q \in DOMAIN t \/ q = p) /\ u[p] = x
           /\ \A q \in DOMAIN t : u[q] = t[q]
<1> USE DEF CanHang
<1>1. /\ DOMAIN u = DOMAIN t \cup {p} /\ u[p] = x
      /\ \A q \in DOMAIN t : u[q] = t[q]
  BY DEF With
<1>2. \A q \in DOMAIN t : t[q] \in Nodes /\ (t[q] # x \/ k2[x] = k[x]) /\ k2[t[q]] = k[t[q]]
  BY DEF IsTree
<1>3. DOMAIN u \subseteq Seq(Names) /\ IsFiniteSet(DOMAIN u)
  <2>1. DOMAIN t \subseteq Seq(Names) /\ IsFiniteSet(DOMAIN t)
    BY DEF IsTree
  <2>2. IsFiniteSet(DOMAIN t \cup {p})
    BY <2>1, FS_AddElement
  <2> QED
    BY <1>1, <2>1, <2>2
<1>4. <<>> \in DOMAIN u /\ u[<<>>] = Root /\ k2[Root] = "dir"
  BY <1>1, <1>2 DEF IsTree
<1>5. \A q \in DOMAIN u : u[q] \in Nodes /\ k2[u[q]] # "free"
  BY <1>1, <1>2 DEF IsTree
<1>6. ASSUME NEW q \in DOMAIN u, NEW n \in 0 .. Len(q) - 1
      PROVE  First(q, n) \in DOMAIN u /\ k2[u[First(q, n)]] = "dir"
  <2>1. CASE q \in DOMAIN t
    <3>1. First(q, n) \in DOMAIN t /\ k[t[First(q, n)]] = "dir"
      BY <2>1 DEF IsTree
    <3> QED
      BY <1>1, <1>2, <3>1
  <2>2. CASE q = p
    <3>1. /\ Front(p) \in Seq(Names) /\ Len(Front(p)) = Len(p) - 1 /\ Front(p) = First(p, Len(p) - 1)
          /\ Len(p) - 1 \in 0 .. Len(p) /\ Len(p) \in Nat
      BY FrontIs, LenProperties
    <3>2. n \in 0 .. Len(Front(p)) /\ n \in 0 .. Len(p) - 1
      BY <2>2, <3>1
    <3>3. First(p, n) = First(Front(p), n)
      BY <3>1, <3>2, FirstOfFirst
    <3>4. IsPrefix(First(p, n), Front(p)) /\ First(p, n) \in Seq(Names)
      BY <3>1, <3>2, <3>3, FirstIsPrefix, FirstIs
    <3>5. First(p, n) \in DOMAIN t /\ (First(p, n) # Front(p) => k[t[First(p, n)]] = "dir")
      BY <3>4, TreePrefix
    <3> QED
      BY <1>1, <1>2, <2>2, <3>5
  <2> QED
    BY <1>1, <2>1, <2>2
<1>7. ASSUME NEW q \in DOMAIN u, NEW r \in DOMAIN u, u[q] = u[r], k2[u[q]] = "dir"
      PROVE  q = r
  <2>1. CASE q \in DOMAIN t /\ r \in DOMAIN t
    <3>1. u[q] = t[q] /\ u[r] = t[r] /\ k2[t[q]] = k[t[q]]
      BY <1>1, <1>2, <2>1
    <3>2. t[q] = t[r] /\ k[t[q]] = "dir"
      BY <1>7, <3>1
    <3> QED
      BY <2>1, <3>2 DEF IsTree
  <2>2. CASE q = p \/ r = p
    BY <1>1, <1>2, <1>7, <2>2
  <2> QED
    BY <1>1, <2>1, <2>2
<1>8. IsTree(u, k2)
  BY <1>3, <1>4, <1>5, <1>6, <1>7 DEF IsTree
<1> QED
  BY <1>1, <1>8

\* Taking away the path of a file or an empty directory.
LEMMA WithoutTree ==
    ASSUME NEW t, NEW k, IsTree(t, k), NEW p \in Seq(Names), p # <<>>,
           \A q \in DOMAIN t : q # <<>> => Front(q) # p
    PROVE  /\ IsTree(Without(t, p), k)
           /\ DOMAIN Without(t, p) = DOMAIN t \ {p}
           /\ \A q \in DOMAIN t \ {p} : Without(t, p)[q] = t[q]
<1> DEFINE u == Without(t, p)
<1>1. /\ DOMAIN u = DOMAIN t \ {p}
      /\ \A q \in DOMAIN t \ {p} : u[q] = t[q]
  BY DEF Without
<1>0. u = Without(t, p)
  BY Zenon DEF u
<1> HIDE DEF u
<1>2. DOMAIN u \subseteq Seq(Names) /\ IsFiniteSet(DOMAIN u)
  <2>1. DOMAIN t \subseteq Seq(Names) /\ IsFiniteSet(DOMAIN t)
    BY DEF IsTree
  <2>2. IsFiniteSet(DOMAIN t \ {p})
    BY <2>1, FS_RemoveElement
  <2> QED
    BY <1>1, <2>1, <2>2
<1>3. <<>> \in DOMAIN u /\ u[<<>>] = Root /\ k[Root] = "dir"
  BY <1>1 DEF IsTree
<1>4. \A q \in DOMAIN u : u[q] \in Nodes /\ k[u[q]] # "free"
  BY <1>1 DEF IsTree
<1>5. ASSUME NEW q \in DOMAIN u, NEW n \in 0 .. Len(q) - 1
      PROVE  First(q, n) \in DOMAIN u /\ k[u[First(q, n)]] = "dir"
  <2>1. q \in DOMAIN t /\ q \in Seq(Names) /\ Len(q) \in Nat
    BY <1>1, <1>2, LenProperties
  <2>2. First(q, n) \in DOMAIN t /\ k[t[First(q, n)]] = "dir"
    BY <2>1 DEF IsTree
  <2>3. ASSUME First(q, n) = p PROVE FALSE
    <3>1. n \in 0 .. Len(q) /\ n + 1 \in 0 .. Len(q) /\ n \in 0 .. n + 1
      BY <2>1
    <3>2. PICK r : r = First(q, n + 1)
      OBVIOUS
    <3>3. r \in Seq(Names) /\ Len(r) = n + 1 /\ IsPrefix(r, q)
      BY <2>1, <3>1, <3>2, FirstIs, FirstIsPrefix
    <3>4. r \in DOMAIN t
      BY <2>1, <3>3, TreePrefix
    <3>5. r # <<>> /\ Front(r) = First(r, n)
      BY <3>1, <3>3, EmptySeq, FrontIs
    <3>6. First(r, n) = First(q, n)
      BY <2>1, <3>1, <3>2, FirstOfFirst
    <3> QED
      BY <2>3, <3>4, <3>5, <3>6
  <2> QED
    BY <1>1, <2>2, <2>3
<1>6. \A q, r \in DOMAIN u : u[q] = u[r] /\ k[u[q]] = "dir" => q = r
  BY <1>1 DEF IsTree
<1>7. IsTree(u, k)
  BY <1>2, <1>3, <1>4, <1>5, <1>6 DEF IsTree
<1> QED
  BY <1>0, <1>1, <1>7

\* What Moved does to the paths: stays says which paths stay, and the others,
\* at and below from, get a new path at and below to.
LEMMA MovedIs ==
    ASSUME NEW t, NEW k, IsTree(t, k), NEW from \in Seq(Names), NEW to \in Seq(Names), to \notin DOMAIN t,
           NEW u, u = Moved(t, from, to)
    PROVE  /\ \A q \in DOMAIN t : ~IsPrefix(from, q) => q \in DOMAIN u /\ u[q] = t[q]
           /\ \A q \in DOMAIN t : IsPrefix(from, q) =>
                  \E r \in DOMAIN u : Joined(to, Skip(q, Len(from)), r) /\ r \notin DOMAIN t /\ u[r] = t[q]
           /\ \A r \in DOMAIN u :
                  \/ r \in DOMAIN t /\ ~IsPrefix(from, r) /\ u[r] = t[r]
                  \/ /\ r \in Seq(Names) /\ r \notin DOMAIN t /\ IsPrefix(to, r)
                     /\ \E q \in DOMAIN t : IsPrefix(from, q) /\ Joined(to, Skip(q, Len(from)), r) /\ u[r] = t[q]
<1> DEFINE stay == {q \in DOMAIN t : ~IsPrefix(from, q)}
           gone == {to \o Skip(q, Len(from)) : q \in DOMAIN t \ stay}
<1>1. DOMAIN u = stay \cup gone /\ \A r \in stay \cup gone : u[r] = IF r \in stay THEN t[r] ELSE t[from \o Skip(r, Len(to))]
  BY DEF Moved
<1>2. ASSUME NEW q \in DOMAIN t, IsPrefix(from, q), NEW r, Joined(to, Skip(q, Len(from)), r)
      PROVE  r \in gone /\ r \in Seq(Names) /\ IsPrefix(to, r) /\ r \notin DOMAIN t /\ r \notin stay /\ u[r] = t[q]
  <2>1. q \in Seq(Names)
    BY DEF IsTree
  <2>2. r \in Seq(Names) /\ IsPrefix(to, r) /\ from \o Skip(r, Len(to)) = q
    BY <1>2, <2>1, Rehang
  <2>3. r \in gone
    BY <1>2 DEF Joined
  <2>4. r \notin DOMAIN t
    BY <2>2, TreePrefix
  <2> QED
    BY <1>1, <2>2, <2>3, <2>4
<1>3. \A r \in gone : \E q \in DOMAIN t : IsPrefix(from, q) /\ Joined(to, Skip(q, Len(from)), r)
  BY DEF Joined
<1>4. ASSUME NEW q \in DOMAIN t, ~IsPrefix(from, q) PROVE q \in DOMAIN u /\ u[q] = t[q]
  BY <1>1, <1>4
<1>5. ASSUME NEW q \in DOMAIN t, IsPrefix(from, q)
      PROVE  \E r \in DOMAIN u : Joined(to, Skip(q, Len(from)), r) /\ r \notin DOMAIN t /\ u[r] = t[q]
  <2>1. PICK r : Joined(to, Skip(q, Len(from)), r)
    BY DEF Joined
  <2>2. r \in gone /\ r \notin DOMAIN t /\ u[r] = t[q]
    BY <1>2, <1>5, <2>1
  <2> QED
    BY <1>1, <2>1, <2>2
<1>6. ASSUME NEW r \in DOMAIN u
      PROVE  \/ r \in DOMAIN t /\ ~IsPrefix(from, r) /\ u[r] = t[r]
             \/ /\ r \in Seq(Names) /\ r \notin DOMAIN t /\ IsPrefix(to, r)
                /\ \E q \in DOMAIN t : IsPrefix(from, q) /\ Joined(to, Skip(q, Len(from)), r) /\ u[r] = t[q]
  <2>1. CASE r \in stay
    BY <1>1, <2>1
  <2>2. CASE r \in gone
    <3>1. PICK q \in DOMAIN t : IsPrefix(from, q) /\ Joined(to, Skip(q, Len(from)), r)
      BY <1>3, <2>2
    <3>2. r \in Seq(Names) /\ r \notin DOMAIN t /\ IsPrefix(to, r) /\ u[r] = t[q]
      BY <1>2, <3>1
    <3> QED
      BY <3>1, <3>2
  <2> QED
    BY <1>1, <2>1, <2>2
<1> HIDE DEF stay, gone
<1> QED
  BY <1>4, <1>5, <1>6

LEMMA MovedTree ==
    ASSUME NEW t, NEW k, IsTree(t, k), NEW from \in DOMAIN t, from # <<>>, NEW to \in Seq(Names),
           to \notin DOMAIN t, to # <<>>, Front(to) \in DOMAIN t, k[t[Front(to)]] = "dir", ~IsPrefix(from, to),
           NEW u, u = Moved(t, from, to)
    PROVE  IsTree(u, k)
<1> DEFINE new(q, r) == IsPrefix(from, q) /\ Joined(to, Skip(q, Len(from)), r) /\ u[r] = t[q]
<1>1. from \in Seq(Names) /\ DOMAIN t \subseteq Seq(Names)
  BY DEF IsTree
<1>2. /\ \A q \in DOMAIN t : ~IsPrefix(from, q) => q \in DOMAIN u /\ u[q] = t[q]
      /\ \A q \in DOMAIN t : IsPrefix(from, q) => \E r \in DOMAIN u : Joined(to, Skip(q, Len(from)), r) /\ u[r] = t[q]
      /\ \A r \in DOMAIN u :
             \/ r \in DOMAIN t /\ ~IsPrefix(from, r) /\ u[r] = t[r]
             \/ /\ r \in Seq(Names) /\ r \notin DOMAIN t /\ IsPrefix(to, r)
                /\ \E q \in DOMAIN t : new(q, r)
  BY <1>1, MovedIs
<1>3. \A r \in DOMAIN u : \E q \in DOMAIN t : u[r] = t[q]
  BY <1>2
<1> HIDE DEF new
<1>4. DOMAIN u \subseteq Seq(Names)
  BY <1>1, <1>2
<1>5. IsFiniteSet(DOMAIN u)
  <2> DEFINE image == [q \in DOMAIN t |-> IF IsPrefix(from, q) THEN to \o Skip(q, Len(from)) ELSE q]
  <2>1. \A q \in DOMAIN t : image[q] \in DOMAIN u
    <3> SUFFICES ASSUME NEW q \in DOMAIN t PROVE image[q] \in DOMAIN u
      OBVIOUS
    <3>1. CASE IsPrefix(from, q)
      <4>1. PICK r \in DOMAIN u : Joined(to, Skip(q, Len(from)), r)
        BY <1>2, <3>1
      <4> QED
        BY <3>1, <4>1 DEF Joined
    <3>2. CASE ~IsPrefix(from, q)
      BY <1>2, <3>2
    <3> QED
      BY <3>1, <3>2
  <2>2. \A r \in DOMAIN u : \E q \in DOMAIN t : image[q] = r
    <3> SUFFICES ASSUME NEW r \in DOMAIN u PROVE \E q \in DOMAIN t : image[q] = r
      OBVIOUS
    <3>1. CASE r \in DOMAIN t /\ ~IsPrefix(from, r)
      BY <3>1
    <3>2. CASE \E q \in DOMAIN t : new(q, r)
      BY <3>2 DEF new, Joined
    <3> QED
      BY <1>2, <3>1, <3>2
  <2>3. image \in [DOMAIN t -> DOMAIN u]
    BY <2>1
  <2>4. image \in Surjection(DOMAIN t, DOMAIN u)
    BY <2>2, <2>3 DEF Surjection
  <2>5. IsFiniteSet(DOMAIN t)
    BY DEF IsTree
  <2> HIDE DEF image
  <2> QED
    BY <2>4, <2>5, FS_Surjection
<1>6. <<>> \in DOMAIN u /\ u[<<>>] = Root /\ k[Root] = "dir"
  <2>1. <<>> \in DOMAIN t /\ t[<<>>] = Root /\ k[Root] = "dir" /\ Len(<<>>) = 0
    BY DEF IsTree
  <2>2. ~IsPrefix(from, <<>>)
    BY <1>1, <2>1, PrefixComponents, EmptySeq
  <2> QED
    BY <1>2, <2>1, <2>2
<1>7. \A r \in DOMAIN u : u[r] \in Nodes /\ k[u[r]] # "free"
  BY <1>3 DEF IsTree
<1>8. ASSUME NEW q \in DOMAIN t, ~IsPrefix(from, q), NEW n \in 0 .. Len(q) - 1
      PROVE  First(q, n) \in DOMAIN u /\ k[u[First(q, n)]] = "dir"
  <2>1. First(q, n) \in DOMAIN t /\ k[t[First(q, n)]] = "dir"
    BY DEF IsTree
  <2>2. n \in 0 .. Len(q) /\ q \in Seq(Names)
    BY <1>1, LenProperties
  <2>3. IsPrefix(First(q, n), q) /\ First(q, n) \in Seq(Names)
    BY <2>2, FirstIsPrefix, FirstIs
  <2>4. ~IsPrefix(from, First(q, n))
    BY <1>1, <1>8, <2>2, <2>3, PrefixTrans
  <2> QED
    BY <1>2, <2>1, <2>4
<1>9. \A n \in 0 .. Len(to) - 1 : First(to, n) \in DOMAIN u /\ k[u[First(to, n)]] = "dir"
  <2> SUFFICES ASSUME NEW n \in 0 .. Len(to) - 1 PROVE First(to, n) \in DOMAIN u /\ k[u[First(to, n)]] = "dir"
    OBVIOUS
  <2>1. /\ Front(to) \in Seq(Names) /\ Len(Front(to)) = Len(to) - 1 /\ Front(to) = First(to, Len(to) - 1)
        /\ Len(to) - 1 \in 0 .. Len(to) /\ Len(to) \in Nat
    BY FrontIs, LenProperties
  <2>2. IsPrefix(Front(to), to)
    BY <2>1, FirstIsPrefix
  <2>3. ~IsPrefix(from, Front(to))
    BY <1>1, <2>1, <2>2, PrefixTrans
  <2>4. CASE n = Len(to) - 1
    BY <1>2, <2>1, <2>3, <2>4
  <2>5. CASE n # Len(to) - 1
    <3>1. n \in 0 .. Len(Front(to)) - 1 /\ n \in 0 .. Len(to) - 1
      BY <2>1, <2>5
    <3>2. First(Front(to), n) = First(to, n)
      BY <2>1, <3>1, FirstOfFirst
    <3> QED
      BY <1>8, <2>3, <3>1, <3>2
  <2> QED
    BY <2>4, <2>5
<1>10. ASSUME NEW r \in DOMAIN u, NEW n \in 0 .. Len(r) - 1
       PROVE  First(r, n) \in DOMAIN u /\ k[u[First(r, n)]] = "dir"
  <2>1. CASE r \in DOMAIN t /\ ~IsPrefix(from, r)
    BY <1>8, <2>1
  <2>2. CASE \E q \in DOMAIN t : new(q, r)
    <3>1. PICK q \in DOMAIN t : IsPrefix(from, q) /\ Joined(to, Skip(q, Len(from)), r) /\ u[r] = t[q]
      BY <2>2 DEF new
    <3>2. q \in Seq(Names) /\ Len(q) \in Nat /\ Len(to) \in Nat /\ Len(from) \in Nat
      BY <1>1, LenProperties
    <3>3. Len(r) = Len(to) + (Len(q) - Len(from)) /\ \A i \in 0 .. Len(to) : First(r, i) = First(to, i)
      BY <1>1, <3>1, <3>2, Rehang
    <3>4. CASE n < Len(to)
      <4>1. n \in 0 .. Len(to) /\ n \in 0 .. Len(to) - 1
        BY <3>2, <3>4
      <4> QED
        BY <1>9, <3>3, <4>1
    <3>5. CASE n >= Len(to)
      <4> DEFINE m == Len(from) + (n - Len(to))
      <4>1. n \in Len(to) .. Len(r) /\ m \in 0 .. Len(q) - 1
        BY <3>2, <3>3, <3>5
      <4>2. First(r, n) = to \o Skip(First(q, m), Len(from)) /\ IsPrefix(from, First(q, m))
        BY <1>1, <3>1, <3>2, <4>1, Rehang
      <4>3. First(q, m) \in DOMAIN t /\ k[t[First(q, m)]] = "dir"
        BY <4>1 DEF IsTree
      <4> HIDE DEF m
      <4>4. PICK r0 \in DOMAIN u : Joined(to, Skip(First(q, m), Len(from)), r0) /\ u[r0] = t[First(q, m)]
        BY <1>2, <4>2, <4>3
      <4> QED
        BY <4>2, <4>3, <4>4 DEF Joined
    <3> QED
      BY <3>2, <3>4, <3>5
  <2> QED
    BY <1>2, <2>1, <2>2
<1>11. ASSUME NEW p \in DOMAIN u, NEW r \in DOMAIN u, u[p] = u[r], k[u[p]] = "dir"
       PROVE  p = r
  <2>1. CASE p \in DOMAIN t /\ ~IsPrefix(from, p) /\ u[p] = t[p] /\ r \in DOMAIN t /\ ~IsPrefix(from, r) /\ u[r] = t[r]
    BY <1>11, <2>1 DEF IsTree
  <2>2. ASSUME NEW a \in DOMAIN t, NEW b \in DOMAIN t, IsPrefix(from, a), ~IsPrefix(from, b), t[a] = t[b], k[t[a]] = "dir"
        PROVE  FALSE
    BY <2>2 DEF IsTree
  <2>3. ASSUME NEW a \in DOMAIN t, NEW b \in DOMAIN t, new(a, p), new(b, r)
        PROVE  p = r
    <3>1. a = b
      BY <1>11, <2>3 DEF new, IsTree
    <3> QED
      BY <2>3, <3>1 DEF new, Joined
  <2> QED
    BY <1>2, <1>11, <2>1, <2>2, <2>3 DEF new
<1> QED
  BY <1>4, <1>5, <1>6, <1>7, <1>10, <1>11 DEF IsTree

-----------------------------------------------------------------------------
\* Names, handles and lookups in a file system

\* x has the path p.
Stands(x, p) == p \in Paths /\ fs.tree[p] = x

LEMMA GoneIsNoPath == Gone \notin Seq(Names) /\ \A name \in Names : Append(Gone, name) \notin Seq(Names)
<1>1. Gone[1] = None /\ Len(Gone) = 1
  BY DEF Gone
<1>2. ASSUME Gone \in Seq(Names) PROVE FALSE
  BY <1>1, <1>2, ElementOfSeq, NoneAssumption
<1>3. ASSUME NEW name \in Names, Append(Gone, name) \in Seq(Names) PROVE FALSE
  <2>1. Append(Gone, name)[1] = None /\ Len(Append(Gone, name)) = 2
    BY DEF Gone
  <2> QED
    BY <1>3, <2>1, ElementOfSeq, NoneAssumption
<1> QED
  BY <1>2, <1>3

LEMMA PathsTyped ==
    ASSUME FileSystem(fs)
    PROVE  /\ Paths \subseteq Seq(Names) /\ <<>> \in Paths /\ fs.tree[<<>>] = Root /\ IsDir(Root)
           /\ \A p \in Paths : fs.tree[p] \in Nodes
BY DEF FileSystem, IsTree, Paths, IsDir

\* An object with a name has PathOf among its names, one without has no path.
LEMMA PathOfIs ==
    ASSUME FileSystem(fs), NEW x
    PROVE  /\ PathOf(x) \in Seq(Names) => PathOf(x) \in NamesOf(x)
           /\ \A p : Stands(x, p) => PathOf(x) \in NamesOf(x)
           /\ PathOf(x) \in NamesOf(x) \cup {Gone}
BY GoneIsNoPath DEF PathOf, NamesOf, Stands

\* A directory has one path.
LEMMA DirPath ==
    ASSUME FileSystem(fs), NEW x, NEW p, Stands(x, p), IsDir(x)
    PROVE  NamesOf(x) = {p} /\ PathOf(x) = p
<1>1. \A q \in NamesOf(x) : q = p
  BY DEF FileSystem, IsTree, Stands, NamesOf, Paths, IsDir
<1>2. p \in NamesOf(x)
  BY DEF Stands, NamesOf
<1> QED
  BY <1>1, <1>2 DEF PathOf

\* A slot that is filled belongs to a directory.
LEMMA SlotFound ==
    ASSUME FileSystem(fs), NEW d, NEW name \in Names, SlotPath(<<d, name>>) \in Paths
    PROVE  /\ Stands(d, PathOf(d)) /\ IsDir(d) /\ SlotPath(<<d, name>>) = Append(PathOf(d), name)
           /\ SlotPath(<<d, name>>) # <<>> /\ Front(SlotPath(<<d, name>>)) = PathOf(d)
           /\ Last(SlotPath(<<d, name>>)) = name
<1>1. SlotPath(<<d, name>>) = Append(PathOf(d), name)
  BY DEF SlotPath
<1>2. PathOf(d) # Gone
  BY <1>1, GoneIsNoPath, PathsTyped
<1>3. PathOf(d) \in NamesOf(d)
  BY <1>2, PathOfIs
<1>4. PathOf(d) \in Paths /\ fs.tree[PathOf(d)] = d /\ PathOf(d) \in Seq(Names)
  BY <1>3, PathsTyped DEF NamesOf
<1>5. /\ SlotPath(<<d, name>>) # <<>> /\ Front(SlotPath(<<d, name>>)) = PathOf(d)
      /\ Last(SlotPath(<<d, name>>)) = name
  BY <1>1, <1>4, AppendIs
<1>6. IsDir(d)
  <2>1. PICK s : s = SlotPath(<<d, name>>)
    OBVIOUS
  <2>2. s \in DOMAIN fs.tree /\ s # <<>> /\ Front(s) = PathOf(d) /\ IsTree(fs.tree, fs.kind)
    BY <1>5, <2>1 DEF FileSystem, Paths
  <2>3. fs.kind[fs.tree[Front(s)]] = "dir"
    BY <2>2, TreeParent
  <2> QED
    BY <1>4, <2>2, <2>3 DEF IsDir
<1> QED
  BY <1>1, <1>4, <1>5, <1>6 DEF Stands

LEMMA SlotOfDir ==
    ASSUME FileSystem(fs), NEW d, NEW p, Stands(d, p), IsDir(d), NEW name \in Names
    PROVE  SlotPath(<<d, name>>) = Append(p, name)
BY DirPath DEF SlotPath

\* The final path of a handle is a name of its object.
LEMMA FinalPathIs ==
    ASSUME FileSystem(fs), NEW h
    PROVE  /\ FinalPath(h) \in Seq(Names) => Stands(h.node, FinalPath(h))
           /\ NamesOf(h.node) # {} => Stands(h.node, FinalPath(h))
           /\ NamesOf(h.node) = {} => FinalPath(h) = Gone
BY GoneIsNoPath DEF FinalPath, PathOf, NamesOf, Stands

\* The handle of a path leads back to it.
LEMMA HandleAtIs ==
    ASSUME FileSystem(fs), NEW p \in Paths
    PROVE  HandleAt(p).node = fs.tree[p] /\ FinalPath(HandleAt(p)) = p
<1>1. CASE p = <<>>
  <2>1. HandleAt(p).node = Root /\ Stands(Root, p) /\ IsDir(Root)
    BY <1>1, PathsTyped DEF HandleAt, Handle, Stands
  <2>2. NamesOf(Root) = {p}
    BY <2>1, DirPath
  <2>3. Stands(Root, FinalPath(HandleAt(p)))
    BY <2>1, <2>2, FinalPathIs
  <2> QED
    BY <2>1, <2>2, <2>3 DEF NamesOf, Stands
<1>2. CASE p # <<>>
  <2>1. HandleAt(p).node = fs.tree[p] /\ HandleAt(p).at = <<fs.tree[Front(p)], Last(p)>>
    BY <1>2 DEF HandleAt, Handle
  <2>2. p \in Seq(Names) /\ Front(p) \in Paths /\ IsDir(fs.tree[Front(p)])
    BY <1>2, PathsTyped, TreeParent DEF FileSystem, IsDir, Paths
  <2>3. Last(p) \in Names /\ Append(Front(p), Last(p)) = p
    BY <1>2, <2>2, FrontIs
  <2>4. Stands(fs.tree[Front(p)], Front(p))
    BY <2>2 DEF Stands
  <2>5. SlotPath(HandleAt(p).at) = p
    BY <2>1, <2>2, <2>3, <2>4, SlotOfDir
  <2>6. p \in NamesOf(HandleAt(p).node)
    BY <2>1 DEF NamesOf
  <2> QED
    BY <2>1, <2>5, <2>6 DEF FinalPath
<1> QED
  BY <1>1, <1>2

\* Following links yields paths.
LEMMA FollowIs ==
    ASSUME FileSystem(fs), NEW w, w.path \in Seq(Names), w.need \in Nat, NEW follow
    PROVE  /\ Follow(w, follow).path \in Seq(Names) /\ Follow(w, follow).need \in Nat
           /\ LinksOn(w, follow) = {} => Follow(w, follow) = w
<1>1. CASE LinksOn(w, follow) = {}
  BY <1>1, SMTT(30) DEF Follow
<1>2. CASE LinksOn(w, follow) # {}
  <2> DEFINE n == CHOOSE n \in LinksOn(w, follow) : TRUE
             target == fs.target[fs.tree[First(w.path, n)]]
  <2>1. n \in LinksOn(w, follow)
    BY <1>2
  <2>2. n \in 1 .. Len(w.path) /\ First(w.path, n) \in Paths
    BY <2>1 DEF LinksOn
  <2>3. target \in Seq(Names)
    BY <2>2, PathsTyped DEF FileSystem
  <2>4. n \in 0 .. Len(w.path) /\ n \in Nat /\ Len(target) \in Nat
    BY <2>2, <2>3, LenProperties
  <2>5. Skip(w.path, n) \in Seq(Names)
    BY <2>4, SkipIs
  <2>6. target \o Skip(w.path, n) \in Seq(Names)
    BY <2>3, <2>5, ConcatProperties
  <2>7. Follow(w, follow) = [path |-> target \o Skip(w.path, n),
                             need |-> IF w.need > n THEN Len(target) + w.need - n ELSE Len(target)]
    BY <1>2, SMTT(30) DEF Follow
  <2> HIDE DEF n, target
  <2>8. (IF w.need > n THEN Len(target) + w.need - n ELSE Len(target)) \in Nat
    BY <2>4
  <2> QED
    BY <1>2, <2>6, <2>7, <2>8
<1> QED
  BY <1>1, <1>2

\* Of a path, a longest part exists.
LEMMA LongestPart ==
    ASSUME FileSystem(fs), NEW p \in Seq(Names)
    PROVE  \E n \in 0 .. Len(p) : First(p, n) \in Paths /\ \A m \in n + 1 .. Len(p) : First(p, m) \notin Paths
<1>1. Len(p) \in Nat
  BY LenProperties
<1> DEFINE T == {k \in Nat : k <= Len(p) /\ First(p, Len(p) - k) \in Paths}
<1>2. Len(p) \in T
  <2>1. Len(p) - Len(p) = 0
    BY <1>1
  <2>2. First(p, 0) \in Paths
    BY FirstAll, PathsTyped
  <2> QED
    BY <1>1, <2>1, <2>2
<1>3. PICK k \in T : \A j \in T : ~(<<j, k>> \in OpToRel(<, Nat))
  <2>1. T \subseteq Nat /\ T # {}
    BY <1>2
  <2> HIDE DEF T
  <2> QED
    BY <2>1, NatLessThanWellFounded, WFMin
<1>4. \A j \in T : ~(j < k)
  BY <1>3 DEF OpToRel
<1> DEFINE n == Len(p) - k
<1>7. k \in Nat /\ k <= Len(p) /\ First(p, Len(p) - k) \in Paths
  BY <1>3
<1>5. n \in 0 .. Len(p) /\ First(p, n) \in Paths
  <2>1. Len(p) - k \in 0 .. Len(p)
    BY <1>1, <1>7
  <2> QED
    BY <1>7, <2>1
<1>6. ASSUME NEW m \in n + 1 .. Len(p), First(p, m) \in Paths PROVE FALSE
  <2>1. Len(p) - m \in Nat /\ Len(p) - m <= Len(p) /\ Len(p) - (Len(p) - m) = m /\ Len(p) - m < k
    BY <1>1, <1>7
  <2>2. Len(p) - m \in T
    BY <1>6, <2>1
  <2> QED
    BY <1>4, <2>1, <2>2
<1> HIDE DEF n
<1> QED
  BY <1>5, <1>6

\* What is left of a path once links are followed.
Followed(path, follow) == Follow(Follow(Follow([path |-> path, need |-> 0], follow), follow), follow)

\* How much of a path exists.
Existing(p) ==
    CHOOSE n \in 0 .. Len(p) : First(p, n) \in Paths /\ \A m \in n + 1 .. Len(p) : First(p, m) \notin Paths

LEMMA LookupParts ==
    ASSUME NEW path, NEW follow
    PROVE  LET w == Followed(path, follow)
               n == Existing(w.path)
               h == HandleAt(First(w.path, n))
           IN  Lookup(path, follow) =
                   IF path = Gone \/ LinksOn(w, follow) # {} \/ n < w.need \/ (n < Len(w.path) /\ ~IsDir(h.node))
                   THEN Error ELSE Found(h, Skip(w.path, n))
<1>1. ASSUME NEW w, w = Followed(path, follow), path # Gone
      PROVE  Lookup(path, follow) = WayEnd(w, follow)
  <2> DEFINE w0 == [path |-> path, need |-> 0]
             w1 == Follow(w0, follow)
             w2 == Follow(w1, follow)
             w3 == Follow(w2, follow)
             Onward(ways) == {Follow(v, follow) : v \in ways}
  <2>1. Onward({w0}) = {w1} /\ Onward({w1}) = {w2} /\ Onward({w2}) = {w3}
    OBVIOUS
  <2>2. {WayEnd(v, follow) : v \in {w3}} = {WayEnd(w3, follow)}
    OBVIOUS
  <2>3. Lookup(path, follow) = CHOOSE end \in {WayEnd(v, follow) : v \in Onward(Onward(Onward({w0})))} : TRUE
    BY <1>1 DEF Lookup
  <2>4. w = w3
    BY <1>1 DEF Followed
  <2> HIDE DEF w0, w1, w2, w3, Onward
  <2>5. Lookup(path, follow) = CHOOSE end \in {WayEnd(w3, follow)} : TRUE
    BY <2>1, <2>2, <2>3
  <2>6. PICK e : e = WayEnd(w3, follow)
    OBVIOUS
  <2>7. (CHOOSE end \in {e} : TRUE) = e
    OBVIOUS
  <2> QED
    BY <2>4, <2>5, <2>6, <2>7
<1>2. ASSUME NEW w PROVE WayEnd(w, follow) =
          IF LinksOn(w, follow) # {} \/ Existing(w.path) < w.need
             \/ (Existing(w.path) < Len(w.path) /\ ~IsDir(HandleAt(First(w.path, Existing(w.path))).node))
          THEN Error ELSE Found(HandleAt(First(w.path, Existing(w.path))), Skip(w.path, Existing(w.path)))
  BY DEF WayEnd, Existing
<1>3. path = Gone => Lookup(path, follow) = Error
  BY DEF Lookup
<1>4. CASE path = Gone
  BY <1>3, <1>4
<1>5. CASE path # Gone
  <2>1. PICK w : w = Followed(path, follow)
    OBVIOUS
  <2> QED
    BY <1>1, <1>2, <1>5, <2>1
<1> QED
  BY <1>4, <1>5

LEMMA FollowedIs ==
    ASSUME FileSystem(fs), NEW path \in Seq(Names), NEW follow
    PROVE  Followed(path, follow).path \in Seq(Names) /\ Followed(path, follow).need \in Nat
<1> DEFINE w0 == [path |-> path, need |-> 0]
           w1 == Follow(w0, follow)
           w2 == Follow(w1, follow)
<1>1. w0.path \in Seq(Names) /\ w0.need \in Nat
  OBVIOUS
<1> HIDE DEF w0
<1>2. w1.path \in Seq(Names) /\ w1.need \in Nat
  BY <1>1, FollowIs
<1> HIDE DEF w1
<1>3. w2.path \in Seq(Names) /\ w2.need \in Nat
  BY <1>2, FollowIs
<1> HIDE DEF w2
<1>4. Follow(w2, follow).path \in Seq(Names) /\ Follow(w2, follow).need \in Nat
  BY <1>3, FollowIs
<1> QED
  BY <1>4 DEF Followed, w0, w1, w2

LEMMA ExistingIs ==
    ASSUME FileSystem(fs), NEW p \in Seq(Names)
    PROVE  /\ Existing(p) \in 0 .. Len(p) /\ First(p, Existing(p)) \in Paths
           /\ \A m \in Existing(p) + 1 .. Len(p) : First(p, m) \notin Paths
BY LongestPart DEF Existing

\* A lookup that succeeds ends at an object that exists, and what does not
\* exist below it is in a directory.
LEMMA LookupFound ==
    ASSUME FileSystem(fs), NEW path, path = Gone \/ path \in Seq(Names), NEW follow, Lookup(path, follow).ok
    PROVE  \E q \in Paths, rest \in Seq(Names) :
               /\ Lookup(path, follow) = Found(HandleAt(q), rest)
               /\ rest # <<>> => IsDir(fs.tree[q])
               /\ rest = <<>> /\ follow => ~IsLink(fs.tree[q])
<1> DEFINE w == Followed(path, follow)
           n == Existing(w.path)
           h == HandleAt(First(w.path, n))
<1>1. /\ path # Gone /\ LinksOn(w, follow) = {} /\ ~(n < Len(w.path) /\ ~IsDir(h.node))
      /\ Lookup(path, follow) = Found(h, Skip(w.path, n))
  BY LookupParts DEF Error
<1>2. w.path \in Seq(Names)
  BY <1>1, FollowedIs
<1>3. n \in 0 .. Len(w.path) /\ First(w.path, n) \in Paths /\ Len(w.path) \in Nat
  BY <1>2, ExistingIs, LenProperties
<1>4. h.node = fs.tree[First(w.path, n)]
  BY <1>3, HandleAtIs
<1> HIDE DEF w, n, h
<1>5. Skip(w.path, n) \in Seq(Names) /\ Len(Skip(w.path, n)) = Len(w.path) - n
  BY <1>2, <1>3, SkipIs
<1>6. Skip(w.path, n) # <<>> => IsDir(fs.tree[First(w.path, n)])
  BY <1>1, <1>3, <1>4, <1>5, EmptySeq
<1>7. ASSUME Skip(w.path, n) = <<>>, follow PROVE ~IsLink(fs.tree[First(w.path, n)])
  <2>1. n = Len(w.path)
    BY <1>3, <1>5, <1>7
  <2>2. CASE n = 0
    <3>1. First(w.path, n) = <<>>
      BY <1>2, <2>2, FirstAll
    <3> QED
      BY <3>1, PathsTyped DEF IsDir, IsLink
  <2>3. CASE n # 0
    <3>1. n \in 1 .. Len(w.path)
      BY <1>3, <2>3
    <3> QED
      BY <1>1, <1>3, <1>7, <3>1 DEF LinksOn
  <2> QED
    BY <2>2, <2>3
<1>8. Lookup(path, follow) = Found(HandleAt(First(w.path, n)), Skip(w.path, n))
  BY <1>1 DEF h
<1> QED
  BY <1>3, <1>5, <1>6, <1>7, <1>8

\* On the way to a path that exists, or whose parent does, is no link.
LEMMA NoLinkOnTheWay ==
    ASSUME FileSystem(fs), NEW p \in Seq(Names), NEW follow,
           \/ p \in Paths /\ (follow => ~IsLink(fs.tree[p]))
           \/ p \notin Paths /\ p # <<>> /\ Stands(fs.tree[Front(p)], Front(p)) /\ IsDir(fs.tree[Front(p)]),
           NEW w, w.path = p
    PROVE  LinksOn(w, follow) = {}
<1> SUFFICES ASSUME NEW n \in LinksOn(w, follow) PROVE FALSE
  OBVIOUS
<1>1. n \in 1 .. Len(p) /\ First(p, n) \in Paths /\ IsLink(fs.tree[First(p, n)]) /\ (follow \/ n < Len(p))
  BY DEF LinksOn
<1>2. Len(p) \in Nat
  BY LenProperties
<1>3. IsTree(fs.tree, fs.kind) /\ Paths = DOMAIN fs.tree
  BY DEF FileSystem, Paths
<1>4. n \in 0 .. Len(p)
  BY <1>1, <1>2
<1>5. First(p, n) \in Seq(Names) /\ IsPrefix(First(p, n), p) /\ Len(First(p, n)) = n
  BY <1>4, FirstIs, FirstIsPrefix
<1>6. CASE p \in Paths
  <2>1. First(p, n) # p => fs.kind[fs.tree[First(p, n)]] = "dir"
    BY <1>3, <1>5, <1>6, TreePrefix
  <2>2. First(p, n) = p
    BY <1>1, <2>1 DEF IsLink
  <2> QED
    BY <1>1, <1>2, <1>5, <1>6, <2>2
<1>7. CASE p \notin Paths
  <2>1. /\ Front(p) \in Paths /\ Front(p) \in Seq(Names) /\ Len(Front(p)) = Len(p) - 1
        /\ Len(p) - 1 \in 0 .. Len(p) /\ Front(p) = First(p, Len(p) - 1)
    BY <1>7, FrontIs DEF Stands
  <2>2. n # Len(p)
    BY <1>1, <1>5, <1>7, FirstAll
  <2>3. n \in 0 .. Len(p) - 1
    BY <1>1, <1>2, <2>2
  <2>4. First(p, n) = First(Front(p), n)
    BY <2>1, <2>3, FirstOfFirst
  <2>5. IsPrefix(First(p, n), Front(p))
    BY <2>1, <2>3, <2>4, FirstIsPrefix
  <2>6. First(p, n) # Front(p) => fs.kind[fs.tree[First(p, n)]] = "dir"
    BY <1>3, <1>5, <2>1, <2>5, TreePrefix
  <2> QED
    BY <1>1, <1>7, <2>6 DEF IsLink, IsDir
<1> QED
  BY <1>6, <1>7

LEMMA FollowedSame ==
    ASSUME FileSystem(fs), NEW p \in Seq(Names), NEW follow,
           \A w : w.path = p => LinksOn(w, follow) = {}
    PROVE  Followed(p, follow) = [path |-> p, need |-> 0]
<1> DEFINE w == [path |-> p, need |-> 0]
<1>1. w.path = p /\ w.need = 0
  OBVIOUS
<1> HIDE DEF w
<1>2. Follow(w, follow) = w
  BY <1>1, FollowIs
<1>3. Follow(Follow(Follow(w, follow), follow), follow) = w
  BY <1>2
<1> QED
  BY <1>3 DEF Followed, w

\* A path that exists is found as it is.
LEMMA LookupThere ==
    ASSUME FileSystem(fs), NEW p \in Paths, NEW follow, follow => ~IsLink(fs.tree[p])
    PROVE  /\ Lookup(p, follow) = Found(HandleAt(p), <<>>)
           /\ Lookup(p, follow).ok /\ Lookup(p, follow).rest = <<>> /\ Lookup(p, follow).h.node = fs.tree[p]
           /\ OpenPath(p, follow) = Found(HandleAt(p), <<>>)
<1>1. p \in Seq(Names) /\ Len(p) \in Nat /\ p # Gone
  BY PathsTyped, LenProperties, GoneIsNoPath
<1>2. \A w : w.path = p => LinksOn(w, follow) = {}
  BY <1>1, NoLinkOnTheWay
<1>3. Followed(p, follow) = [path |-> p, need |-> 0]
  BY <1>1, <1>2, FollowedSame
<1> DEFINE w == Followed(p, follow)
<1>4. w.path = p /\ w.need = 0
  BY <1>3
<1> HIDE DEF w
<1>5. Existing(p) = Len(p)
  <2>1. Existing(p) \in 0 .. Len(p) /\ \A m \in Existing(p) + 1 .. Len(p) : First(p, m) \notin Paths
    BY <1>1, ExistingIs
  <2>2. First(p, Len(p)) = p
    BY <1>1, FirstAll
  <2>3. ASSUME Existing(p) # Len(p) PROVE FALSE
    <3>1. Len(p) \in Existing(p) + 1 .. Len(p)
      BY <1>1, <2>1, <2>3
    <3> QED
      BY <2>1, <2>2, <3>1
  <2> QED
    BY <2>3
<1>6. First(p, Len(p)) = p /\ Skip(p, Len(p)) = <<>>
  <2>1. Len(p) \in 0 .. Len(p)
    BY <1>1
  <2>2. Skip(p, Len(p)) \in Seq(Names) /\ Len(Skip(p, Len(p))) = Len(p) - Len(p)
    BY <1>1, <2>1, SkipIs
  <2>3. Len(p) - Len(p) = 0
    BY <1>1
  <2>4. Skip(p, Len(p)) = <<>>
    BY <2>2, <2>3, EmptySeq
  <2> QED
    BY <1>1, <2>4, FirstAll
<1>7. Lookup(p, follow) =
          IF p = Gone \/ LinksOn(w, follow) # {} \/ Existing(w.path) < w.need
             \/ (Existing(w.path) < Len(w.path) /\ ~IsDir(HandleAt(First(w.path, Existing(w.path))).node))
          THEN Error ELSE Found(HandleAt(First(w.path, Existing(w.path))), Skip(w.path, Existing(w.path)))
  BY LookupParts DEF w
<1>8. Lookup(p, follow) = Found(HandleAt(p), <<>>)
  BY <1>1, <1>2, <1>4, <1>5, <1>6, <1>7
<1>9. HandleAt(p).node = fs.tree[p]
  BY HandleAtIs
<1> QED
  BY <1>8, <1>9 DEF Found, OpenPath

\* A path that does not exist, in a directory that does, is not found.
LEMMA LookupMissing ==
    ASSUME FileSystem(fs), NEW p \in Seq(Names), p # <<>>, p \notin Paths, Front(p) \in Paths,
           IsDir(fs.tree[Front(p)]), NEW follow, Lookup(p, follow).ok
    PROVE  Lookup(p, follow).rest # <<>>
<1>1. Len(p) \in Nat
  BY LenProperties
<1>2. \A w : w.path = p => LinksOn(w, follow) = {}
  BY NoLinkOnTheWay DEF Stands
<1>3. Followed(p, follow) = [path |-> p, need |-> 0]
  BY <1>2, FollowedSame
<1> DEFINE w == Followed(p, follow)
<1>4. w.path = p /\ w.need = 0
  BY <1>3
<1> HIDE DEF w
<1>5. Existing(p) \in 0 .. Len(p) /\ First(p, Existing(p)) \in Paths
  BY ExistingIs
<1>6. Existing(p) # Len(p)
  BY <1>5, FirstAll
<1>7. Skip(p, Existing(p)) # <<>>
  <2>1. Len(Skip(p, Existing(p))) = Len(p) - Existing(p)
    BY <1>5, SkipIs
  <2> QED
    BY <1>1, <1>5, <1>6, <2>1
<1>8. Lookup(p, follow) =
          IF p = Gone \/ LinksOn(w, follow) # {} \/ Existing(w.path) < w.need
             \/ (Existing(w.path) < Len(w.path) /\ ~IsDir(HandleAt(First(w.path, Existing(w.path))).node))
          THEN Error ELSE Found(HandleAt(First(w.path, Existing(w.path))), Skip(w.path, Existing(w.path)))
  BY LookupParts DEF w
<1> QED
  BY <1>4, <1>7, <1>8 DEF Error, Found

-----------------------------------------------------------------------------
\* What changes of the tree do to a file system

LEMMA ParentIn ==
    ASSUME FileSystem(fs), NEW p \in Paths, p # <<>>
    PROVE  p \in Seq(Names) /\ Front(p) \in Paths /\ IsDir(fs.tree[Front(p)]) /\ Front(p) \in Seq(Names)
BY PathsTyped, TreeParent DEF FileSystem, Paths, IsDir

LEMMA FreshIs ==
    ASSUME FileSystem(fs), Free # {}
    PROVE  Fresh \in Nodes /\ fs.kind[Fresh] = "free" /\ \A p \in Paths : fs.tree[p] # Fresh
<1>1. Fresh \in Free
  BY DEF Fresh
<1> QED
  BY <1>1 DEF Free, FileSystem, IsTree, Paths

LEMMA MakeKeeps ==
    ASSUME FileSystem(fs), Free # {}, NEW p \in Seq(Names), p # <<>>, p \notin Paths, Front(p) \in Paths,
           IsDir(fs.tree[Front(p)]), NEW kind \in Kinds, kind # "free", NEW data \in Contents \cup {None},
           NEW f, f = Make(p, kind, data)
    PROVE  /\ FileSystem(f) /\ (\A q : q \in DOMAIN f.tree <=> q \in Paths \/ q = p) /\ f.tree[p] = Fresh
           /\ \A q \in Paths : f.tree[q] = fs.tree[q]
           /\ \A x \in Nodes : f.kind[x] = IF x = Fresh THEN kind ELSE fs.kind[x]
           /\ \A x \in Nodes : f.data[x] = IF x = Fresh THEN data ELSE fs.data[x]
           /\ f.target = fs.target
<1>1. Fresh \in Nodes /\ fs.kind[Fresh] = "free" /\ \A q \in Paths : fs.tree[q] # Fresh
  BY FreshIs
<1>2. /\ fs = [tree |-> fs.tree, kind |-> fs.kind, target |-> fs.target, data |-> fs.data]
      /\ fs.kind \in [Nodes -> Kinds] /\ fs.target \in [Nodes -> Seq(Names)] /\ fs.data \in [Nodes -> Contents \cup {None}]
      /\ IsTree(fs.tree, fs.kind)
  BY DEF FileSystem
<1>3. /\ f = [tree |-> f.tree, kind |-> f.kind, target |-> f.target, data |-> f.data]
      /\ f.tree = With(fs.tree, p, Fresh) /\ f.kind = [fs.kind EXCEPT ![Fresh] = kind]
      /\ f.target = fs.target /\ f.data = [fs.data EXCEPT ![Fresh] = data]
  BY <1>2 DEF Make
<1>4. /\ f.kind \in [Nodes -> Kinds] /\ f.data \in [Nodes -> Contents \cup {None}]
      /\ f.kind[Fresh] # "free" /\ \A y \in Nodes \ {Fresh} : f.kind[y] = fs.kind[y]
  <2>1. f.kind \in [Nodes -> Kinds]
    BY <1>2, <1>3
  <2>2. f.data \in [Nodes -> Contents \cup {None}]
    BY <1>2, <1>3
  <2>3. f.kind[Fresh] # "free" /\ \A y \in Nodes \ {Fresh} : f.kind[y] = fs.kind[y]
    BY <1>1, <1>2, <1>3
  <2> QED
    BY <2>1, <2>2, <2>3
<1>5. /\ IsTree(f.tree, f.kind) /\ (\A q : q \in DOMAIN f.tree <=> q \in DOMAIN fs.tree \/ q = p) /\ f.tree[p] = Fresh
      /\ \A q \in DOMAIN fs.tree : f.tree[q] = fs.tree[q]
  <2>1. /\ p \notin DOMAIN fs.tree /\ Front(p) \in DOMAIN fs.tree /\ fs.kind[fs.tree[Front(p)]] = "dir"
        /\ \A q \in DOMAIN fs.tree : fs.tree[q] # Fresh
    BY <1>1 DEF IsDir, Paths
  <2>2. CanHang(fs.tree, fs.kind, p, Fresh, f.kind)
    BY <1>1, <1>2, <1>4, <2>1 DEF CanHang
  <2> QED
    <3>1. \A u : u = With(fs.tree, p, Fresh) =>
              /\ IsTree(u, f.kind) /\ (\A q : q \in DOMAIN u <=> q \in DOMAIN fs.tree \/ q = p) /\ u[p] = Fresh
              /\ \A q \in DOMAIN fs.tree : u[q] = fs.tree[q]
      BY <2>2, WithTree
    <3> QED
      BY <1>3, <3>1
<1>6. FileSystem(f)
  BY <1>2, <1>3, <1>4, <1>5 DEF FileSystem
<1>7. /\ \A x \in Nodes : f.kind[x] = IF x = Fresh THEN kind ELSE fs.kind[x]
      /\ \A x \in Nodes : f.data[x] = IF x = Fresh THEN data ELSE fs.data[x]
  BY <1>2, <1>3
<1> QED
  BY <1>3, <1>5, <1>6, <1>7 DEF Paths

LEMMA EraseKeeps ==
    ASSUME FileSystem(fs), NEW p \in Paths, p # <<>>, Children(fs.tree[p]) = {}, NEW f, f = Erase(p)
    PROVE  /\ FileSystem(f) /\ (\A q : q \in DOMAIN f.tree <=> q \in Paths /\ q # p)
           /\ \A q \in Paths \ {p} : f.tree[q] = fs.tree[q]
           /\ f.kind = fs.kind /\ f.data = fs.data /\ f.target = fs.target
<1>1. /\ fs = [tree |-> fs.tree, kind |-> fs.kind, target |-> fs.target, data |-> fs.data]
      /\ IsTree(fs.tree, fs.kind)
  BY DEF FileSystem
<1>2. /\ f = [tree |-> f.tree, kind |-> f.kind, target |-> f.target, data |-> f.data]
      /\ f.tree = Without(fs.tree, p) /\ f.kind = fs.kind /\ f.target = fs.target /\ f.data = fs.data
  BY <1>1 DEF Erase
<1>3. \A q \in DOMAIN fs.tree : q # <<>> => Front(q) # p
  BY DEF Children, Paths
<1>4. p \in Seq(Names)
  BY PathsTyped
<1>5. /\ IsTree(Without(fs.tree, p), fs.kind) /\ DOMAIN Without(fs.tree, p) = DOMAIN fs.tree \ {p}
      /\ \A q \in DOMAIN fs.tree \ {p} : Without(fs.tree, p)[q] = fs.tree[q]
  BY <1>1, <1>3, <1>4, WithoutTree
<1>6. FileSystem(f)
  BY <1>2, <1>5 DEF FileSystem
<1> QED
  BY <1>2, <1>5, <1>6 DEF Paths

Filled(x, data) == [fs EXCEPT !.data[x] = data]

LEMMA DataKeeps ==
    ASSUME FileSystem(fs), NEW x, NEW data \in Contents \cup {None}, NEW f, f = Filled(x, data)
    PROVE  /\ FileSystem(f) /\ f.tree = fs.tree /\ f.kind = fs.kind /\ f.target = fs.target
           /\ \A y \in Nodes : f.data[y] = IF y = x THEN data ELSE fs.data[y]
<1>1. /\ fs = [tree |-> fs.tree, kind |-> fs.kind, target |-> fs.target, data |-> fs.data]
      /\ fs.data \in [Nodes -> Contents \cup {None}]
  BY DEF FileSystem
<1>2. /\ f = [tree |-> f.tree, kind |-> f.kind, target |-> f.target, data |-> f.data]
      /\ f.tree = fs.tree /\ f.kind = fs.kind /\ f.target = fs.target /\ f.data = [fs.data EXCEPT ![x] = data]
  BY <1>1 DEF Filled
<1> QED
  BY <1>1, <1>2 DEF FileSystem

LEMMA MoveKeeps ==
    ASSUME FileSystem(fs), NEW from \in Paths, from # <<>>, NEW to \in Seq(Names), to # <<>>, to \notin Paths,
           Front(to) \in Paths, IsDir(fs.tree[Front(to)]), ~IsPrefix(from, to),
           NEW f, f = [fs EXCEPT !.tree = Moved(@, from, to)]
    PROVE  /\ FileSystem(f) /\ f.tree = Moved(fs.tree, from, to)
           /\ f.kind = fs.kind /\ f.data = fs.data /\ f.target = fs.target
<1>1. /\ fs = [tree |-> fs.tree, kind |-> fs.kind, target |-> fs.target, data |-> fs.data]
      /\ IsTree(fs.tree, fs.kind)
  BY DEF FileSystem
<1>2. /\ f = [tree |-> f.tree, kind |-> f.kind, target |-> f.target, data |-> f.data]
      /\ f.tree = Moved(fs.tree, from, to) /\ f.kind = fs.kind /\ f.target = fs.target /\ f.data = fs.data
  BY <1>1
<1>3. IsTree(f.tree, fs.kind)
  <2>1. /\ from \in DOMAIN fs.tree /\ to \notin DOMAIN fs.tree /\ Front(to) \in DOMAIN fs.tree
        /\ fs.kind[fs.tree[Front(to)]] = "dir"
    BY DEF IsDir, Paths
  <2>2. \A u : u = Moved(fs.tree, from, to) => IsTree(u, fs.kind)
    BY <1>1, <2>1, MovedTree
  <2> QED
    BY <1>2, <2>2
<1> QED
  BY <1>2, <1>3 DEF FileSystem

\* Where other programs put entries.
LEMMA VacantIs ==
    ASSUME FileSystem(fs), NEW t \in Vacant
    PROVE  t \in Seq(Names) /\ t # <<>> /\ t \notin Paths /\ Front(t) \in Paths /\ IsDir(fs.tree[Front(t)])
<1>1. PICK p \in Contested :
          /\ OpenPath(Front(p), TRUE).ok /\ IsDir(OpenPath(Front(p), TRUE).h.node)
          /\ t = Append(FinalPath(OpenPath(Front(p), TRUE).h), Last(p)) /\ t \notin Paths
  BY Zenon DEF Vacant
<1>2. p \in Seq(Names) /\ p # <<>> /\ Front(p) \in Seq(Names) /\ Last(p) \in Names
  BY OthersAssumption, FrontIs
<1>3. OpenPath(Front(p), TRUE) = Lookup(Front(p), TRUE) /\ Lookup(Front(p), TRUE).ok
  BY <1>1 DEF OpenPath, Error
<1>4. PICK q \in Paths, rest \in Seq(Names) : Lookup(Front(p), TRUE) = Found(HandleAt(q), rest)
  BY <1>2, <1>3, LookupFound
<1>5. OpenPath(Front(p), TRUE).h = HandleAt(q)
  <2>1. Found(HandleAt(q), rest).h = HandleAt(q)
    BY DEF Found
  <2> QED
    BY ONLY <1>3, <1>4, <2>1
<1>6. t = Append(q, Last(p)) /\ IsDir(fs.tree[q]) /\ q \in Seq(Names)
  BY <1>1, <1>5, HandleAtIs, PathsTyped
<1> QED
  BY <1>1, <1>2, <1>6, AppendIs

LEMMA HardLinkKeeps ==
    ASSUME FileSystem(fs), NEW p \in Paths, NEW t \in Vacant, HardLink(p, t)
    PROVE  /\ FileSystem(fs') /\ (\A q : q \in DOMAIN fs'.tree <=> q \in Paths \/ q = t) /\ fs'.tree[t] = fs.tree[p]
           /\ \A q \in Paths : fs'.tree[q] = fs.tree[q]
           /\ fs'.kind = fs.kind /\ fs'.data = fs.data /\ fs'.target = fs.target
<1>1. /\ fs = [tree |-> fs.tree, kind |-> fs.kind, target |-> fs.target, data |-> fs.data]
      /\ IsTree(fs.tree, fs.kind)
  BY DEF FileSystem
<1>2. /\ fs' = [tree |-> fs'.tree, kind |-> fs'.kind, target |-> fs'.target, data |-> fs'.data]
      /\ fs'.tree = With(fs.tree, t, fs.tree[p]) /\ fs'.kind = fs.kind /\ fs'.target = fs.target /\ fs'.data = fs.data
      /\ fs.kind[fs.tree[p]] = "file"
  BY <1>1 DEF HardLink, Intervene
<1>3. t \in Seq(Names) /\ t # <<>> /\ t \notin DOMAIN fs.tree /\ Front(t) \in DOMAIN fs.tree /\ fs.kind[fs.tree[Front(t)]] = "dir"
  BY VacantIs DEF Paths, IsDir
<1>4. fs.tree[p] \in Nodes
  BY PathsTyped
<1>5. /\ IsTree(fs'.tree, fs.kind) /\ (\A q : q \in DOMAIN fs'.tree <=> q \in DOMAIN fs.tree \/ q = t) /\ fs'.tree[t] = fs.tree[p]
      /\ \A q \in DOMAIN fs.tree : fs'.tree[q] = fs.tree[q]
  <2>2. fs.kind[fs.tree[p]] # "free" /\ fs.kind[fs.tree[p]] # "dir"
    BY <1>2
  <2>3. CanHang(fs.tree, fs.kind, t, fs.tree[p], fs.kind)
    BY <1>1, <1>3, <1>4, <2>2 DEF CanHang
  <2> QED
    <3>1. \A u : u = With(fs.tree, t, fs.tree[p]) =>
              /\ IsTree(u, fs.kind) /\ (\A q : q \in DOMAIN u <=> q \in DOMAIN fs.tree \/ q = t) /\ u[t] = fs.tree[p]
              /\ \A q \in DOMAIN fs.tree : u[q] = fs.tree[q]
      BY <2>3, WithTree
    <3> QED
      BY <1>2, <3>1
<1>6. FileSystem(fs')
  BY <1>2, <1>5 DEF FileSystem
<1> QED
  BY <1>2, <1>5, <1>6 DEF Paths

-----------------------------------------------------------------------------
\* What holds of a call at every step, apart from which other programs run

\* The tools by what they need.
HasDest == op.req.kind \in {"write", "patch", "mkdir", "move", "copy"}
TreeCopy == op.req.kind = "copy" /\ op.src.kind = "dir"
Writes == op.req.kind \in {"write", "patch"} \/ (op.req.kind = "copy" /\ ~TreeCopy)
Identified == op.req.kind \in {"read", "delete", "move"} \/ (op.req.kind = "copy" /\ ~TreeCopy)

Shaped(o) ==
    o = [req |-> o.req, src |-> o.src, dst |-> o.dst, todo |-> o.todo, result |-> o.result, made |-> o.made,
         p1 |-> o.p1, h1 |-> o.h1, p2 |-> o.p2, h2 |-> o.h2,
         pending |-> o.pending, out |-> o.out, effects |-> o.effects]

\* A canonical path: the existing part and the tail.
CanonicalPath(c) ==
    /\ c.existing \in Seq(Names) /\ c.tail \in Seq(Names) /\ Joined(c.existing, c.tail, c.path)
    /\ c.exists <=> c.tail = <<>>
    /\ c.id \in Nodes
    /\ c.path # <<>> /\ c.exists => c.id # Root

\* Which steps a tool has, and that steps are left in their order.
Plan ==
    /\ op.todo \subseteq {Order[i] : i \in DOMAIN Order}
    /\ op.req \in Requests /\ op.result = "none"
    /\ CanonicalPath(op.src) /\ CanonicalPath(op.dst)
    /\ HasDest => op.dst.path # <<>>
    /\ op.req.kind \in {"delete", "move"} => op.src.exists /\ op.src.path # <<>>
    /\ op.todo \cap {"PinDestParent", "VerifyDestParent", "VerifyNewParent"} # {} => HasDest
    /\ op.todo \cap {"MakeDirs", "CreateDest"} # {} => HasDest /\ ~op.dst.exists
    /\ op.todo \cap {"CreateDest", "CheckDest", "OpenDest", "VerifyDest", "Truncate", "WriteData", "CopyData"} # {} => Writes
    /\ op.todo \cap {"CheckDest", "OpenDest", "ReadDest"} # {} => op.dst.exists
    /\ op.todo \cap {"OpenSource", "CheckSource", "OpenChild", "CopyData", "Read"} # {} => ~(op.req.kind \in {"write", "patch", "mkdir"})
    /\ "OpenChild" \in op.todo => op.req.kind \in {"delete", "move"}
    /\ "CopyData" \in op.todo => op.req.kind = "copy"
    /\ "Read" \in op.todo => op.req.kind = "read"
    /\ op.todo \cap {"Rename", "VerifyMoved"} # {} => op.req.kind = "move"
    /\ op.todo \cap {"Inspect", "DeleteTree", "Unlink"} # {} => op.req.kind = "delete"
    /\ op.todo \cap {"ReadTree", "CopyTree"} # {} => TreeCopy /\ ~op.dst.exists
    /\ op.todo \cap {"OpenSource", "OpenChild"} # {} /\ Identified => "CheckSource" \in op.todo
    /\ "PinDestParent" \in op.todo => "VerifyDestParent" \in op.todo
    /\ "VerifyDestParent" \in op.todo /\ ~op.dst.exists => "MakeDirs" \in op.todo
    /\ "MakeDirs" \in op.todo /\ Writes => "CreateDest" \in op.todo
    /\ "MakeDirs" \in op.todo /\ TreeCopy => "ReadTree" \in op.todo
    /\ "MakeDirs" \in op.todo /\ op.req.kind = "move" => "Rename" \in op.todo
    /\ "OpenDest" \in op.todo => "CheckDest" \in op.todo
    /\ ~TreeCopy \/ "ReadTree" \in op.todo => op.pending = <<>>

\* How many of the missing directories are made.
DirsMade ==
    HasDest =>
        /\ op.made \in Nat
        /\ op.dst.exists \/ "VerifyDestParent" \in op.todo => op.made = 0
        /\ ~op.dst.exists => op.made <= Missing
        /\ ~op.dst.exists /\ "MakeDirs" \notin op.todo => op.made = Missing

\* The handles lead to the objects that were evaluated.
HandlesRight ==
    /\ Identified /\ "CheckSource" \notin op.todo => op.h1.node = op.src.id
    /\ TreeCopy /\ "OpenSource" \notin op.todo => op.h1.node \in Nodes
    /\ Writes /\ op.dst.exists /\ "CheckDest" \notin op.todo => op.h2.node = op.dst.id
    /\ Writes /\ ~op.dst.exists /\ "CreateDest" \notin op.todo => op.h2.at = <<op.p2.node, Last(op.dst.path)>>

\* What a call has done so far.
Late == {"Truncate", "WriteData", "CopyData", "DeleteTree", "Unlink", "Rename", "VerifyMoved", "ReadTree", "CopyTree"}

EffectsRight ==
    /\ ~(op.effects \subseteq {"mkdir"}) => op.todo \subseteq Late \cup {"VerifyDest"}
    /\ ~(op.effects \subseteq {"mkdir"}) /\ "VerifyDest" \in op.todo => ~op.dst.exists
    /\ TreeCopy => op.effects \subseteq {"mkdir", "create"}

\* The parent of the destination is where it was found to be, or was made.
ParentHeld ==
    HasDest /\ "VerifyDestParent" \notin op.todo /\ (op.req.kind = "move" => "Rename" \in op.todo) =>
        /\ Stands(op.p2.node, NewParent)
        /\ op.made > 0 => IsDir(op.p2.node)

\* The new file is at the destination.
NewHeld ==
    Writes /\ ~op.dst.exists /\ "CreateDest" \notin op.todo => Stands(op.h2.node, op.dst.path) /\ IsDir(op.p2.node)

\* The directories that copy_tree fills lie at or below the destination.
Jobs == [from : Nodes, to : Nodes, name : Names, path : Seq(Names)]

FillingHeld ==
    /\ op.pending \in Seq(Jobs)
    /\ \A i \in DOMAIN op.pending :
           IsDir(op.pending[i].to) /\ \E p \in Paths : Stands(op.pending[i].to, p) /\ IsPrefix(op.dst.path, p)

CallInv ==
    /\ Plan /\ DirsMade /\ HandlesRight /\ EffectsRight
    /\ ParentHeld /\ NewHeld /\ FillingHeld

BrokerInv ==
    /\ FileSystem(fs) /\ moves \in Nat /\ Shaped(op)
    /\ Running => CallInv
    /\ RefusalIsClean

-----------------------------------------------------------------------------
\* One step at a time

LEMMA AdvanceIs ==
    ASSUME NEW o, Shaped(o), NEW step, NEW a, a = Advance(step, o)
    PROVE  /\ Shaped(a) /\ a.req = o.req /\ a.src = o.src /\ a.dst = o.dst /\ a.made = o.made
           /\ a.p1 = o.p1 /\ a.h1 = o.h1 /\ a.p2 = o.p2 /\ a.h2 = o.h2 /\ a.out = o.out /\ a.effects = o.effects
           /\ o.todo = {step} => a.todo = {} /\ a.result = "ok" /\ a.pending = <<>>
           /\ o.todo # {step} => a.todo = o.todo \ {step} /\ a.result = o.result /\ a.pending = o.pending
<1>1. PICK r : r = o
  OBVIOUS
<1>2. CASE o.todo = {step}
  <2>1. a = [o EXCEPT !.todo = {}, !.result = "ok", !.pending = <<>>]
    BY <1>2 DEF Advance, Ended
  <2> QED
    BY <1>2, <2>1 DEF Shaped
<1>3. CASE o.todo # {step}
  <2>1. a = [o EXCEPT !.todo = @ \ {step}]
    BY <1>3 DEF Advance
  <2> QED
    BY <1>3, <2>1 DEF Shaped
<1> QED
  BY <1>2, <1>3

LEMMA EndedIs ==
    ASSUME NEW o, Shaped(o), NEW result, NEW a, a = Ended(o, result)
    PROVE  /\ Shaped(a) /\ a.req = o.req /\ a.effects = o.effects /\ a.out = o.out
           /\ a.todo = {} /\ a.result = result
BY DEF Ended, Shaped

\* The steps that are done when a step is next.
LEMMA Earlier ==
    ASSUME NEW step, Doing(step)
    PROVE  /\ step = "CheckSource" => op.todo \cap {"OpenSource", "OpenChild"} = {}
           /\ step = "VerifyDestParent" => "PinDestParent" \notin op.todo
           /\ step = "CheckDest" => "OpenDest" \notin op.todo
           /\ step = "MakeDirs" => op.todo \cap {"PinDestParent", "VerifyDestParent"} = {}
           /\ step = "CreateDest" => op.todo \cap {"PinDestParent", "VerifyDestParent", "MakeDirs"} = {}
           /\ step = "VerifyDest" => op.todo \cap {"VerifyDestParent", "MakeDirs", "CheckDest", "CreateDest"} = {}
           /\ step \in {"Truncate", "WriteData", "CopyData"} =>
                  op.todo \cap {"CheckSource", "VerifyDestParent", "MakeDirs", "CheckDest", "CreateDest", "VerifyDest"} = {}
           /\ step \in {"Read", "DeleteTree", "Unlink"} => "CheckSource" \notin op.todo
           /\ step = "Rename" => op.todo \cap {"CheckSource", "VerifyDestParent", "MakeDirs"} = {}
           /\ step \in {"ReadTree", "CopyTree"} => op.todo \cap {"VerifyDestParent", "MakeDirs"} = {}
           /\ step = "CopyTree" => "ReadTree" \notin op.todo
<1>1. step = "CheckSource" => op.todo \cap {"OpenSource", "OpenChild"} = {}
  BY DEF Doing, Order
<1>2. step = "VerifyDestParent" => "PinDestParent" \notin op.todo
  BY DEF Doing, Order
<1>3. step = "CheckDest" => "OpenDest" \notin op.todo
  BY DEF Doing, Order
<1>4. step = "MakeDirs" => op.todo \cap {"PinDestParent", "VerifyDestParent"} = {}
  BY DEF Doing, Order
<1>5. step = "CreateDest" => op.todo \cap {"PinDestParent", "VerifyDestParent", "MakeDirs"} = {}
  BY DEF Doing, Order
<1>6. step = "VerifyDest" => op.todo \cap {"VerifyDestParent", "MakeDirs", "CheckDest", "CreateDest"} = {}
  BY DEF Doing, Order
<1>7. step \in {"Truncate", "WriteData", "CopyData"} =>
          op.todo \cap {"CheckSource", "VerifyDestParent", "MakeDirs", "CheckDest", "CreateDest", "VerifyDest"} = {}
  <2>1. step = "Truncate" =>
            op.todo \cap {"CheckSource", "VerifyDestParent", "MakeDirs", "CheckDest", "CreateDest", "VerifyDest"} = {}
    BY DEF Doing, Order
  <2>2. step = "WriteData" =>
            op.todo \cap {"CheckSource", "VerifyDestParent", "MakeDirs", "CheckDest", "CreateDest", "VerifyDest"} = {}
    BY DEF Doing, Order
  <2>3. step = "CopyData" =>
            op.todo \cap {"CheckSource", "VerifyDestParent", "MakeDirs", "CheckDest", "CreateDest", "VerifyDest"} = {}
    BY DEF Doing, Order
  <2> QED
    BY <2>1, <2>2, <2>3
<1>8. step \in {"Read", "DeleteTree", "Unlink"} => "CheckSource" \notin op.todo
  BY DEF Doing, Order
<1>9. step = "Rename" => op.todo \cap {"CheckSource", "VerifyDestParent", "MakeDirs"} = {}
  BY DEF Doing, Order
<1>10. step \in {"ReadTree", "CopyTree"} => op.todo \cap {"VerifyDestParent", "MakeDirs"} = {}
  BY DEF Doing, Order
<1>11. step = "CopyTree" => "ReadTree" \notin op.todo
  BY DEF Doing, Order
<1> QED
  BY <1>1, <1>2, <1>3, <1>4, <1>5, <1>6, <1>7, <1>8, <1>9, <1>10, <1>11

\* What is left when a call begins to change more than directories.
LEMMA LateSteps ==
    ASSUME NEW step, Doing(step), op.todo \subseteq {Order[i] : i \in DOMAIN Order}
    PROVE  /\ step = "CreateDest" => op.todo \subseteq Late \cup {"CreateDest", "VerifyDest", "ReadDest"}
           /\ step \in Late => op.todo \subseteq Late
<1>1. step = "CreateDest" => op.todo \subseteq Late \cup {"CreateDest", "VerifyDest", "ReadDest"}
  BY DEF Doing, Order, Late
<1>2. step \in Late => op.todo \subseteq Late
  BY DEF Doing, Order, Late
<1> QED
  BY <1>1, <1>2

\* A call that ends without a change keeps the invariant if it may end so.
LEMMA Stops ==
    ASSUME BrokerInv, NEW result, Stop(result),
           result \in {"changed", "denied", "refused"} =>
               op.effects \subseteq IF result = "denied" /\ op.req.kind = "copy" THEN {"mkdir", "create"} ELSE {"mkdir"}
    PROVE  BrokerInv'
<1>1. op' = Ended(op, result) /\ fs' = fs /\ moves' = moves
  BY DEF Stop
<1>2. /\ Shaped(op') /\ op'.req = op.req /\ op'.effects = op.effects /\ op'.todo = {} /\ op'.result = result
  BY <1>1, EndedIs DEF BrokerInv
<1>3. Shaped(op)' /\ ~Running' /\ RefusalIsClean'
  BY <1>2 DEF Running, RefusalIsClean, Shaped
<1>4. FileSystem(fs)' /\ (moves \in Nat)'
  BY <1>1 DEF BrokerInv, FileSystem, IsTree
<1> QED
  BY <1>3, <1>4 DEF BrokerInv

\* A check can only fail before anything but directories was changed.
LEMMA ChecksAreEarly ==
    ASSUME BrokerInv, NEW step, Doing(step), step \notin Late \cup {"VerifyDest"}
    PROVE  op.effects \subseteq {"mkdir"}
BY DEF BrokerInv, CallInv, EffectsRight, Doing, Running

\* The order of the steps that are left.
LEMMA PlanKeeps ==
    ASSUME Plan, NEW step, Doing(step), op'.req = op.req, op'.result = op.result, op'.src = op.src, op'.dst = op.dst,
           \/ op'.todo = op.todo /\ step # "ReadTree"
           \/ op'.todo = op.todo \ {step}
           \/ /\ step = "Inspect" /\ op.todo \ {step} \subseteq op'.todo
              /\ op'.todo \subseteq (op.todo \cup {"DeleteTree", "Unlink"}) \ {step},
           op'.pending = op.pending \/ step = "ReadTree" \/ step = "CopyTree"
    PROVE  Plan'
<1>1. op'.todo \subseteq {Order[i] : i \in DOMAIN Order}
  <2>1. "DeleteTree" = Order[26] /\ "Unlink" = Order[27] /\ 26 \in DOMAIN Order /\ 27 \in DOMAIN Order
    BY DEF Order
  <2>2. {"DeleteTree", "Unlink"} \subseteq {Order[i] : i \in DOMAIN Order}
    BY <2>1
  <2> QED
    BY <2>2 DEF Plan
<1>2. \A s \in op'.todo : s \in op.todo \/ (step = "Inspect" /\ s \in {"DeleteTree", "Unlink"})
  OBVIOUS
<1>3. \A s \in op.todo : s # step => s \in op'.todo
  OBVIOUS
<1>4. step \in op.todo
  BY DEF Doing
<1>5. (HasDest <=> HasDest') /\ (TreeCopy <=> TreeCopy') /\ (Writes <=> Writes') /\ (Identified <=> Identified')
  BY DEF HasDest, TreeCopy, Writes, Identified
<1>6. step = "Inspect" => op.req.kind = "delete"
  BY <1>4 DEF Plan
<1>7. CanonicalPath(op.src)' /\ CanonicalPath(op.dst)'
  BY DEF Plan, CanonicalPath, Joined
<1>8. /\ (HasDest => op.dst.path # <<>>)'
      /\ (op.req.kind \in {"delete", "move"} => op.src.exists /\ op.src.path # <<>>)'
      /\ (op.req \in Requests /\ op.result = "none")'
  BY <1>5 DEF Plan
<1>9. /\ (op.todo \cap {"PinDestParent", "VerifyDestParent", "VerifyNewParent"} # {} => HasDest)'
      /\ (op.todo \cap {"MakeDirs", "CreateDest"} # {} => HasDest /\ ~op.dst.exists)'
      /\ (op.todo \cap {"CreateDest", "CheckDest", "OpenDest", "VerifyDest", "Truncate", "WriteData", "CopyData"} # {} => Writes)'
      /\ (op.todo \cap {"CheckDest", "OpenDest", "ReadDest"} # {} => op.dst.exists)'
  BY <1>2, <1>5 DEF Plan
<1>10. /\ (op.todo \cap {"OpenSource", "CheckSource", "OpenChild", "CopyData", "Read"} # {} => ~(op.req.kind \in {"write", "patch", "mkdir"}))'
       /\ ("OpenChild" \in op.todo => op.req.kind \in {"delete", "move"})'
       /\ ("CopyData" \in op.todo => op.req.kind = "copy")'
       /\ ("Read" \in op.todo => op.req.kind = "read")'
       /\ (op.todo \cap {"Rename", "VerifyMoved"} # {} => op.req.kind = "move")'
       /\ (op.todo \cap {"Inspect", "DeleteTree", "Unlink"} # {} => op.req.kind = "delete")'
       /\ (op.todo \cap {"ReadTree", "CopyTree"} # {} => TreeCopy /\ ~op.dst.exists)'
  BY <1>2, <1>5, <1>6 DEF Plan
<1>18. /\ step = "CheckSource" => "OpenSource" \notin op.todo /\ "OpenChild" \notin op.todo
       /\ step = "VerifyDestParent" => "PinDestParent" \notin op.todo
       /\ step = "CheckDest" => "OpenDest" \notin op.todo
       /\ step = "MakeDirs" => "VerifyDestParent" \notin op.todo
       /\ step = "CreateDest" => "MakeDirs" \notin op.todo
       /\ step = "Rename" => "MakeDirs" \notin op.todo
       /\ step = "ReadTree" => "MakeDirs" \notin op.todo
       /\ step = "CopyTree" => "ReadTree" \notin op.todo
  BY Earlier
<1>11. (op.todo \cap {"OpenSource", "OpenChild"} # {} /\ Identified => "CheckSource" \in op.todo)'
  BY <1>2, <1>3, <1>5, <1>18 DEF Plan
<1>12. ("PinDestParent" \in op.todo => "VerifyDestParent" \in op.todo)'
  BY <1>2, <1>3, <1>5, <1>18 DEF Plan
<1>13. ("VerifyDestParent" \in op.todo /\ ~op.dst.exists => "MakeDirs" \in op.todo)'
  BY <1>2, <1>3, <1>5, <1>18 DEF Plan
<1>14. ("MakeDirs" \in op.todo /\ Writes => "CreateDest" \in op.todo)'
  BY <1>2, <1>3, <1>5, <1>18 DEF Plan
<1>15. ("MakeDirs" \in op.todo /\ TreeCopy => "ReadTree" \in op.todo)'
  BY <1>2, <1>3, <1>5, <1>18 DEF Plan
<1>19. ("MakeDirs" \in op.todo /\ op.req.kind = "move" => "Rename" \in op.todo)'
  BY <1>2, <1>3, <1>5, <1>18 DEF Plan
<1>16. ("OpenDest" \in op.todo => "CheckDest" \in op.todo)'
  BY <1>2, <1>3, <1>5, <1>18 DEF Plan
<1>17. (~TreeCopy \/ "ReadTree" \in op.todo => op.pending = <<>>)'
  BY <1>2, <1>5, <1>18, <1>4, <1>3 DEF Plan
<1> QED
  BY <1>1, <1>7, <1>8, <1>9, <1>10, <1>11, <1>12, <1>13, <1>14, <1>15, <1>16, <1>17, <1>19 DEF Plan

\* A call that goes on without changing the file system.
LEMMA Advances ==
    ASSUME BrokerInv, NEW step, Doing(step), NEW o, Continue(step, o), Shaped(o),
           o.req = op.req, o.src = op.src, o.dst = op.dst, o.result = op.result, o.made = op.made, o.effects = op.effects,
           o.h1 = op.h1 \/ step \in {"OpenSource", "OpenChild"},
           o.p2 = op.p2 \/ step = "PinDestParent",
           o.h2 = op.h2 \/ step = "OpenDest",
           \/ o.todo = op.todo
           \/ step = "Inspect" /\ op.todo \subseteq o.todo /\ o.todo \subseteq op.todo \cup {"DeleteTree", "Unlink"},
           o.pending = op.pending \/ step = "ReadTree" \/ step = "CopyTree",
           step # "CreateDest",
           step = "CheckSource" => op.h1.node = op.src.id,
           step = "CheckDest" => op.h2.node = op.dst.id,
           step = "VerifyDestParent" => Stands(op.p2.node, NewParent),
           step = "MakeDirs" => op.made = Missing,
           step = "OpenSource" => o.h1.node \in Nodes,
           FillingHeld'
    PROVE  BrokerInv'
<1>1. op' = Advance(step, o) /\ fs' = fs /\ moves' = moves
  BY DEF Continue
<1>2. /\ Shaped(op') /\ op'.req = op.req /\ op'.src = op.src /\ op'.dst = op.dst /\ op'.made = op.made
      /\ op'.h1 = o.h1 /\ op'.p2 = o.p2 /\ op'.h2 = o.h2 /\ op'.effects = op.effects
      /\ o.todo = {step} => op'.todo = {} /\ op'.result = "ok" /\ op'.pending = <<>>
      /\ o.todo # {step} => op'.todo = o.todo \ {step} /\ op'.result = op.result /\ op'.pending = o.pending
  BY <1>1, AdvanceIs
<1>3. FileSystem(fs)' /\ (moves \in Nat)' /\ Shaped(op)'
  BY <1>1, <1>2 DEF BrokerInv, FileSystem, IsTree, Shaped
<1>4. CASE o.todo = {step}
  <2>1. ~Running' /\ RefusalIsClean'
    BY <1>2, <1>4 DEF Running, RefusalIsClean
  <2> QED
    BY <1>3, <2>1 DEF BrokerInv
<1>5. CASE o.todo # {step}
  <2>1. Running /\ CallInv /\ step \in op.todo
    BY DEF BrokerInv, Running, Doing
  <2>2. op'.todo = o.todo \ {step} /\ op'.result = op.result /\ op'.pending = o.pending
    BY <1>2, <1>5
  <2>3. (HasDest <=> HasDest') /\ (TreeCopy <=> TreeCopy') /\ (Writes <=> Writes') /\ (Identified <=> Identified')
    BY <1>2 DEF HasDest, TreeCopy, Writes, Identified
  <2>4. Plan'
    BY <1>2, <2>1, <2>2, PlanKeeps DEF CallInv
  <2>5. \A s \in op.todo : s # step => s \in op'.todo
    BY <2>2
  <2>6. \A s \in op'.todo : s \in op.todo \/ (step = "Inspect" /\ s \in {"DeleteTree", "Unlink"})
    BY <2>2
  <2>7. DirsMade'
    <3>1. Missing' = Missing
      BY <1>2 DEF Missing
    <3> QED
      BY <1>2, <2>1, <2>3, <2>5, <2>6, <3>1 DEF CallInv, DirsMade
  <2>8. HandlesRight'
    <3>1. (Identified /\ "CheckSource" \notin op.todo => op.h1.node = op.src.id)'
      BY <1>2, <2>1, <2>3, <2>5 DEF CallInv, HandlesRight, Plan
    <3>4. (TreeCopy /\ "OpenSource" \notin op.todo => op.h1.node \in Nodes)'
      <4>1. TreeCopy => "OpenChild" \notin op.todo
        BY <2>1 DEF CallInv, Plan, TreeCopy
      <4>2. step = "OpenChild" => "OpenChild" \in op.todo
        BY <2>1
      <4>3. CASE step = "OpenSource"
        BY <1>2, <4>3
      <4>4. CASE step # "OpenSource"
        BY <1>2, <2>1, <2>3, <2>5, <4>1, <4>2, <4>4 DEF CallInv, HandlesRight
      <4> QED
        BY <4>3, <4>4
    <3>2. (Writes /\ op.dst.exists /\ "CheckDest" \notin op.todo => op.h2.node = op.dst.id)'
      BY <1>2, <2>1, <2>3, <2>5 DEF CallInv, HandlesRight, Plan
    <3>3. (Writes /\ ~op.dst.exists /\ "CreateDest" \notin op.todo => op.h2.at = <<op.p2.node, Last(op.dst.path)>>)'
      BY <1>2, <2>1, <2>3, <2>5 DEF CallInv, HandlesRight, Plan
    <3> QED
      BY <3>1, <3>2, <3>3, <3>4 DEF HandlesRight
  <2>9. EffectsRight'
    <3>1. step = "Inspect" => op.effects \subseteq {"mkdir"}
      BY ChecksAreEarly DEF Late
    <3>2. step # "Inspect" => op'.todo \subseteq op.todo
      BY <2>6
    <3> QED
      BY <1>2, <2>1, <2>3, <3>1, <3>2 DEF CallInv, EffectsRight
  <2>10. ParentHeld'
    <3>1. NewParent' = NewParent
      BY <1>2 DEF NewParent, DestParent
    <3>2. SUFFICES ASSUME HasDest, "VerifyDestParent" \notin op'.todo, op.req.kind = "move" => "Rename" \in op.todo
                   PROVE  Stands(op'.p2.node, NewParent) /\ (op.made > 0 => IsDir(op'.p2.node))
      BY <1>1, <1>2, <2>3, <2>6, <3>1 DEF ParentHeld, Stands, Paths, IsDir
    <3>3. op'.p2 = op.p2
      BY <1>2, <2>1, <2>5, <3>2 DEF CallInv, Plan
    <3>4. CASE "VerifyDestParent" \notin op.todo
      BY <2>1, <3>2, <3>3, <3>4 DEF CallInv, ParentHeld
    <3>5. CASE "VerifyDestParent" \in op.todo
      <4>1. step = "VerifyDestParent" /\ op.made = 0
        BY <2>1, <2>5, <3>2, <3>5 DEF CallInv, DirsMade
      <4> QED
        BY <3>3, <4>1
    <3> QED
      BY <3>4, <3>5
  <2>11. NewHeld'
    <3>1. Writes /\ ~op.dst.exists /\ "CreateDest" \notin op'.todo => op'.p2 = op.p2 /\ op'.h2 = op.h2 /\ "CreateDest" \notin op.todo
      BY <1>2, <2>1, <2>5 DEF CallInv, Plan
    <3> QED
      BY <1>1, <1>2, <2>1, <2>3, <3>1 DEF CallInv, NewHeld, Stands, Paths, IsDir
  <2>12. (Running => CallInv)'
    BY <2>4, <2>7, <2>8, <2>9, <2>10, <2>11 DEF CallInv
  <2>13. RefusalIsClean'
    BY <1>2, <2>1, <2>2 DEF RefusalIsClean, CallInv, Plan
  <2> QED
    BY <1>3, <2>12, <2>13 DEF BrokerInv
<1> QED
  BY <1>4, <1>5

LEMMA FillingSame ==
    ASSUME CallInv, fs' = fs, op'.dst = op.dst, op'.pending = op.pending \/ op'.pending = <<>>
    PROVE  FillingHeld'
<1>1. CASE op'.pending = <<>>
  <2>1. op'.pending \in Seq(Jobs) /\ DOMAIN op'.pending = {}
    BY <1>1
  <2> QED
    BY <2>1 DEF FillingHeld, Jobs
<1>2. CASE op'.pending = op.pending
  BY <1>2 DEF CallInv, FillingHeld, Paths, IsDir, Stands, Jobs
<1> QED
  BY <1>1, <1>2

\* A step that only checks.
LEMMA Checked ==
    ASSUME BrokerInv, NEW step, NEW c \in BOOLEAN, NEW result, Check(step, c, result),
           step # "CreateDest", step = "ReadTree" => FALSE,
           step \notin Late \cup {"VerifyDest"} \/ c \/ result \notin {"changed", "denied", "refused"},
           c /\ step = "CheckSource" => op.h1.node = op.src.id,
           c /\ step = "CheckDest" => op.h2.node = op.dst.id,
           c /\ step = "VerifyDestParent" => Stands(op.p2.node, NewParent),
           step \notin {"MakeDirs", "OpenSource"}
    PROVE  BrokerInv'
<1>1. Doing(step)
  BY DEF Check
<1>2. CASE c
  <2>1. Continue(step, op) /\ Shaped(op) /\ CallInv
    BY <1>1, <1>2 DEF Check, BrokerInv, Running, Doing
  <2>2. FillingHeld'
    <3>1. op' = Advance(step, op) /\ fs' = fs
      BY <2>1 DEF Continue
    <3>2. op'.dst = op.dst /\ (op'.pending = op.pending \/ op'.pending = <<>>)
      BY <2>1, <3>1, AdvanceIs
    <3> QED
      BY <2>1, <3>1, <3>2, FillingSame
  <2>3. /\ step = "CheckSource" => op.h1.node = op.src.id
        /\ step = "CheckDest" => op.h2.node = op.dst.id
        /\ step = "VerifyDestParent" => Stands(op.p2.node, NewParent)
    BY <1>2
  <2>4. step # "OpenSource"
    OBVIOUS
  <2> QED
    BY <1>1, <2>1, <2>2, <2>3, <2>4, Advances
<1>3. CASE ~c
  <2>1. Stop(result)
    BY <1>3 DEF Check
  <2>2. result \in {"changed", "denied", "refused"} => op.effects \subseteq {"mkdir"}
    BY <1>1, <1>3, ChecksAreEarly
  <2> QED
    BY <2>1, <2>2, Stops
<1> QED
  BY <1>2, <1>3

\* A step that opens something, or reads.
LEMMA Opened ==
    ASSUME BrokerInv, NEW step, Doing(step), NEW o, Continue(step, o), Shaped(o),
           o.req = op.req, o.src = op.src, o.dst = op.dst, o.result = op.result, o.made = op.made, o.effects = op.effects,
           o.h1 = op.h1 \/ step \in {"OpenSource", "OpenChild"},
           o.p2 = op.p2 \/ step = "PinDestParent",
           o.h2 = op.h2 \/ step = "OpenDest",
           o.todo = op.todo, o.pending = op.pending,
           step \in {"OpenSource", "PinSourceParent", "PinDestParent", "OpenChild", "OpenDest", "Read"},
           step = "OpenSource" => o.h1.node \in Nodes
    PROVE  BrokerInv'
<1>1. CallInv
  BY DEF BrokerInv, Running, Doing
<1>2. FillingHeld'
  <2>1. op' = Advance(step, o) /\ fs' = fs
    BY DEF Continue
  <2>2. op'.dst = op.dst /\ (op'.pending = op.pending \/ op'.pending = <<>>)
    BY <2>1, AdvanceIs
  <2> QED
    BY <1>1, <2>1, <2>2, FillingSame
<1> QED
  BY <1>2, Advances

\* Where the directories that are missing are made.
LEMMA NextFirst ==
    ASSUME NEW p \in Seq(Names), NEW n \in 0 .. Len(p) - 1
    PROVE  Append(First(p, n), p[n + 1]) = First(p, n + 1) /\ p[n + 1] \in Names
<1>1. Len(p) \in Nat /\ n \in 0 .. Len(p) /\ n + 1 \in 0 .. Len(p) /\ n + 1 \in 1 .. Len(p) /\ n \in Nat
  BY LenProperties
<1>2. p[n + 1] \in Names
  BY <1>1, ElementOfSeq
<1>3. First(p, n) \in Seq(Names) /\ Len(First(p, n)) = n /\ \A i \in 1 .. n : First(p, n)[i] = p[i]
  BY <1>1, FirstIs
<1>4. First(p, n + 1) \in Seq(Names) /\ Len(First(p, n + 1)) = n + 1 /\ \A i \in 1 .. n + 1 : First(p, n + 1)[i] = p[i]
  BY <1>1, FirstIs
<1>5. PICK f : f = First(p, n)
  OBVIOUS
<1>6. PICK g : g = Append(f, p[n + 1])
  OBVIOUS
<1>7. g \in Seq(Names) /\ Len(g) = n + 1 /\ (\A i \in 1 .. n : g[i] = f[i]) /\ g[n + 1] = p[n + 1]
  BY <1>1, <1>2, <1>3, <1>5, <1>6, AppendProperties
<1>8. \A i \in 1 .. n + 1 : g[i] = First(p, n + 1)[i]
  <2> TAKE i \in 1 .. n + 1
  <2>1. CASE i = n + 1
    BY <1>1, <1>4, <1>7, <2>1
  <2>2. CASE i # n + 1
    <3>1. i \in 1 .. n
      BY <1>1, <2>2
    <3> QED
      BY <1>3, <1>4, <1>5, <1>7, <3>1
  <2> QED
    BY <2>1, <2>2
<1>9. g = First(p, n + 1)
  BY <1>4, <1>7, <1>8, SamePath
<1> QED
  BY <1>2, <1>5, <1>6, <1>9

LEMMA TailIs ==
    ASSUME NEW c, CanonicalPath(c), NEW i \in 1 .. Len(c.tail)
    PROVE  c.path[Len(c.existing) + i] = c.tail[i]
<1>1. PICK e, t, p : e = c.existing /\ t = c.tail /\ p = c.path
  OBVIOUS
<1>2. e \in Seq(Names) /\ t \in Seq(Names) /\ p = e \o t /\ i \in 1 .. Len(t)
  BY <1>1 DEF CanonicalPath, Joined
<1>3. \A k \in 1 .. Len(t) : p[Len(e) + k] = t[k]
  BY <1>2, ConcatComponents
<1>4. p[Len(e) + i] = t[i]
  BY <1>2, <1>3
<1> QED
  BY <1>1, <1>4

LEMMA MissingIs ==
    ASSUME CallInv, HasDest, ~op.dst.exists
    PROVE  Len(op.dst.tail) \in Nat /\ Len(op.dst.tail) > 0 /\ Missing \in {Len(op.dst.tail), Len(op.dst.tail) - 1}
<1>1. op.dst.tail \in Seq(Names) /\ op.dst.tail # <<>>
  BY DEF CallInv, Plan, CanonicalPath
<1> QED
  BY <1>1, LenProperties, EmptySeq DEF Missing

LEMMA NewParentIs ==
    ASSUME CallInv, HasDest
    PROVE  /\ op.dst.path \in Seq(Names)
           /\ op.dst.exists => NewParent = Front(op.dst.path)
           /\ ~op.dst.exists =>
                  /\ Len(op.dst.existing) + op.made \in 0 .. Len(op.dst.path) /\ Len(op.dst.existing) \in Nat
                  /\ Len(op.dst.path) = Len(op.dst.existing) + Len(op.dst.tail)
                  /\ NewParent = First(op.dst.path, Len(op.dst.existing) + op.made)
                  /\ op.made < Len(op.dst.tail) => op.dst.tail[op.made + 1] = op.dst.path[Len(op.dst.existing) + op.made + 1]
<1>1. /\ op.dst.existing \in Seq(Names) /\ op.dst.tail \in Seq(Names)
      /\ Joined(op.dst.existing, op.dst.tail, op.dst.path) /\ (op.dst.exists <=> op.dst.tail = <<>>)
  BY DEF CallInv, Plan, CanonicalPath
<1>2. /\ op.dst.path \in Seq(Names) /\ Len(op.dst.path) = Len(op.dst.existing) + Len(op.dst.tail)
      /\ \A n \in 0 .. Len(op.dst.tail) :
             First(op.dst.path, Len(op.dst.existing) + n) = op.dst.existing \o First(op.dst.tail, n)
  BY <1>1, ConcatIs, ZenonT(30)
<1>3. Len(op.dst.existing) \in Nat /\ Len(op.dst.tail) \in Nat
  BY <1>1, LenProperties
<1>4. CASE op.dst.exists
  <2>1. op.made = 0 /\ op.dst.tail = <<>>
    BY <1>1, <1>4 DEF CallInv, DirsMade
  <2>2. First(op.dst.tail, op.made) = <<>>
    BY <1>1, <2>1, FirstAll
  <2>3. Front(op.dst.path) \in Seq(Names)
    BY <1>2, FrontIs DEF CallInv, Plan
  <2>4. NewParent = Front(op.dst.path) \o <<>>
    BY <1>4, <2>2 DEF NewParent, DestParent
  <2> QED
    BY <1>2, <1>4, <2>3, <2>4, ConcatEmptySeq
<1>5. CASE ~op.dst.exists
  <2>1. op.made \in 0 .. Len(op.dst.tail)
    BY <1>3, <1>5, MissingIs DEF CallInv, DirsMade
  <2>2. NewParent = op.dst.existing \o First(op.dst.tail, op.made)
    BY <1>5 DEF NewParent, DestParent
  <2>3. NewParent = First(op.dst.path, Len(op.dst.existing) + op.made)
    BY <1>2, <2>1, <2>2
  <2>4. ASSUME op.made < Len(op.dst.tail)
        PROVE  op.dst.tail[op.made + 1] = op.dst.path[Len(op.dst.existing) + op.made + 1]
    <3>3. op.made + 1 \in 1 .. Len(op.dst.tail)
      BY <1>3, <2>1, <2>4
    <3>4. op.dst.path[Len(op.dst.existing) + (op.made + 1)] = op.dst.tail[op.made + 1]
      BY <3>3, TailIs DEF CallInv, Plan
    <3>5. Len(op.dst.existing) + (op.made + 1) = Len(op.dst.existing) + op.made + 1
      BY <1>3, <2>1
    <3> QED
      BY <3>4, <3>5
  <2>5. Len(op.dst.existing) + op.made \in 0 .. Len(op.dst.path)
    <3>1. \A e, t, m, l : e \in Nat /\ t \in Nat /\ m \in 0 .. t /\ l = e + t => e + m \in 0 .. l
      OBVIOUS
    <3> QED
      BY <1>2, <1>3, <2>1, <3>1
  <2> QED
    BY <1>2, <1>3, <1>5, <2>3, <2>4, <2>5
<1> QED
  BY <1>4, <1>5

\* The file that the call made is where it was made.
LEMMA NewVerified ==
    ASSUME BrokerInv, Doing("VerifyDest"), ~op.dst.exists
    PROVE  FinalPath(op.h2) = op.dst.path
<1>1. CallInv /\ "VerifyDest" \in op.todo
  BY DEF BrokerInv, Running, Doing
<1>2. /\ "CreateDest" \notin op.todo /\ "VerifyDestParent" \notin op.todo /\ "MakeDirs" \notin op.todo
      /\ Writes /\ HasDest /\ op.req.kind # "move" /\ ~TreeCopy /\ op.req.kind # "mkdir"
  BY <1>1, Earlier DEF CallInv, Plan, Writes, HasDest, TreeCopy
<1>3. /\ Stands(op.h2.node, op.dst.path) /\ IsDir(op.p2.node)
      /\ op.h2.at = <<op.p2.node, Last(op.dst.path)>> /\ Stands(op.p2.node, NewParent)
  BY <1>1, <1>2 DEF CallInv, NewHeld, HandlesRight, ParentHeld
<1>4. op.made = Len(op.dst.tail) - 1 /\ Len(op.dst.tail) \in Nat
  BY <1>1, <1>2, MissingIs DEF CallInv, DirsMade, Missing, TreeCopy
<1>5. /\ op.dst.path \in Seq(Names) /\ op.dst.path # <<>> /\ Len(op.dst.path) = Len(op.dst.existing) + Len(op.dst.tail)
      /\ NewParent = First(op.dst.path, Len(op.dst.existing) + op.made) /\ Len(op.dst.existing) \in Nat
  BY <1>1, <1>2, NewParentIs DEF CallInv, Plan
<1>6. Len(op.dst.existing) + op.made = Len(op.dst.path) - 1
  BY <1>4, <1>5
<1>7. NewParent = Front(op.dst.path) /\ Last(op.dst.path) \in Names /\ Append(Front(op.dst.path), Last(op.dst.path)) = op.dst.path
  BY <1>5, <1>6, FrontIs
<1>8. SlotPath(op.h2.at) = op.dst.path
  BY <1>3, <1>7, SlotOfDir DEF BrokerInv
<1> QED
  BY <1>3, <1>8 DEF FinalPath, NamesOf, Stands

LEMMA ParentVerified ==
    ASSUME BrokerInv, Doing("VerifyDestParent"), FinalPath(op.p2) = DestParent
    PROVE  Stands(op.p2.node, NewParent)
<1>1. CallInv /\ "VerifyDestParent" \in op.todo
  BY DEF BrokerInv, Running, Doing
<1>2. HasDest /\ op.made = 0 /\ op.dst.path # <<>> /\ CanonicalPath(op.dst)
  BY <1>1 DEF CallInv, Plan, DirsMade
<1>3. op.dst.existing \in Seq(Names) /\ op.dst.tail \in Seq(Names) /\ op.dst.path \in Seq(Names)
  BY <1>1, <1>2, NewParentIs DEF CanonicalPath
<1>4. DestParent \in Seq(Names)
  BY <1>2, <1>3, FrontIs DEF DestParent
<1>5. First(op.dst.tail, 0) = <<>>
  BY <1>3, FirstAll
<1>6. NewParent = DestParent \o <<>>
  BY <1>2, <1>5 DEF NewParent
<1>7. NewParent = DestParent
  BY <1>4, <1>6, ConcatEmptySeq
<1> QED
  BY <1>4, <1>7, FinalPathIs DEF BrokerInv

Checks ==
    \/ VerifySource \/ VerifySourceParent \/ VerifyDest \/ VerifyDestParent \/ VerifyNewParent
    \/ CheckSource \/ CheckDest \/ CheckSourceLinks \/ CheckDestLinks \/ CheckMoved \/ List \/ VerifyMoved

LEMMA ChecksKeep ==
    ASSUME BrokerInv, Checks
    PROVE  BrokerInv'
<1>1. CASE VerifySource
  BY <1>1, Checked DEF VerifySource, Late
<1>2. CASE VerifySourceParent
  BY <1>2, Checked DEF VerifySourceParent, Late
<1>3. CASE VerifyDest
  <2>1. CASE op.dst.exists
    <3>1. Doing("VerifyDest") /\ IF FinalPath(op.h2) = op.dst.path THEN Continue("VerifyDest", op) ELSE Stop("changed")
      BY <1>3 DEF VerifyDest, Check
    <3>2. op.effects \subseteq {"mkdir"}
      BY <2>1, <3>1 DEF BrokerInv, CallInv, EffectsRight, Doing, Running
    <3>3. CASE FinalPath(op.h2) = op.dst.path
      BY <1>3, <3>3, Checked DEF VerifyDest, Late
    <3>4. CASE FinalPath(op.h2) # op.dst.path
      <4>1. Stop("changed")
        BY <3>1, <3>4
      <4> QED
        BY <3>2, <4>1, Stops
    <3> QED
      BY <3>3, <3>4
  <2>2. CASE ~op.dst.exists
    <3>1. Doing("VerifyDest")
      BY <1>3 DEF VerifyDest, Check
    <3>2. FinalPath(op.h2) = op.dst.path
      BY <2>2, <3>1, NewVerified
    <3> QED
      BY <1>3, <3>2, Checked DEF VerifyDest, Late
  <2> QED
    BY <2>1, <2>2
<1>4. CASE VerifyDestParent
  <2>1. Doing("VerifyDestParent")
    BY <1>4 DEF VerifyDestParent, Check
  <2>2. FinalPath(op.p2) = DestParent => Stands(op.p2.node, NewParent)
    BY <2>1, ParentVerified
  <2> QED
    BY <1>4, <2>2, Checked DEF VerifyDestParent, Late
<1>5. CASE VerifyNewParent
  BY <1>5, Checked DEF VerifyNewParent, Late
<1>6. CASE CheckSource
  BY <1>6, Checked DEF CheckSource, Late
<1>7. CASE CheckDest
  BY <1>7, Checked DEF CheckDest, Late
<1>8. CASE CheckSourceLinks
  <2> DEFINE c == LinksAllowed(op.src.path, Links(op.h1.node), FALSE)
  <2>1. c \in BOOLEAN
    BY DEF LinksAllowed
  <2>2. Check("CheckSourceLinks", c, "denied")
    BY <1>8 DEF CheckSourceLinks
  <2> HIDE DEF c
  <2> QED
    BY <2>1, <2>2, Checked DEF Late
<1>9. CASE CheckDestLinks
  <2> DEFINE c == LinksAllowed(op.dst.path, Links(op.h2.node), TRUE)
  <2>1. c \in BOOLEAN
    BY DEF LinksAllowed
  <2>2. Check("CheckDestLinks", c, "denied")
    BY <1>9 DEF CheckDestLinks
  <2> HIDE DEF c
  <2> QED
    BY <2>1, <2>2, Checked DEF Late
<1>10. CASE CheckMoved
  <2> DEFINE c == CASE IsDir(op.h1.node)  -> ~HoldsProtected(op.h1.node)
                    [] IsLink(op.h1.node) -> TRUE
                    [] OTHER              -> LinksAllowed(op.src.path, Links(op.h1.node), TRUE)
  <2>1. LinksAllowed(op.src.path, Links(op.h1.node), TRUE) \in BOOLEAN
    BY DEF LinksAllowed
  <2>2. c \in BOOLEAN
    BY <2>1 DEF IsDir, IsLink
  <2>3. Check("CheckMoved", c, "denied")
    BY <1>10 DEF CheckMoved
  <2> HIDE DEF c
  <2> QED
    BY <2>2, <2>3, Checked DEF Late
<1>11. CASE List
  BY <1>11, Checked DEF List, IsDir, Late
<1>12. CASE VerifyMoved
  BY <1>12, Checked DEF VerifyMoved, Late
<1> QED
  BY <1>1, <1>2, <1>3, <1>4, <1>5, <1>6, <1>7, <1>8, <1>9, <1>10, <1>11, <1>12 DEF Checks

\* What opening a path yields.
LEMMA OpenPathIs ==
    ASSUME FileSystem(fs), NEW path, path = Gone \/ path \in Seq(Names), NEW follow, OpenPath(path, follow).ok
    PROVE  \E q \in Paths : /\ OpenPath(path, follow).h = HandleAt(q) /\ OpenPath(path, follow).h.node = fs.tree[q]
                            /\ follow => ~IsLink(fs.tree[q])
<1>1. OpenPath(path, follow) = Lookup(path, follow) /\ Lookup(path, follow).ok /\ Lookup(path, follow).rest = <<>>
  BY DEF OpenPath, Error
<1>2. PICK q \in Paths, rest \in Seq(Names) :
          /\ Lookup(path, follow) = Found(HandleAt(q), rest)
          /\ rest = <<>> /\ follow => ~IsLink(fs.tree[q])
  BY <1>1, LookupFound
<1>3. Found(HandleAt(q), rest).h = HandleAt(q) /\ Found(HandleAt(q), rest).rest = rest
  BY DEF Found
<1>4. HandleAt(q).node = fs.tree[q]
  BY HandleAtIs
<1>5. OpenPath(path, follow).h = HandleAt(q) /\ rest = <<>>
  BY ONLY <1>1, <1>2, <1>3
<1> QED
  BY <1>2, <1>4, <1>5

\* The names in a directory are finitely many.
LEMMA NamesIn ==
    ASSUME FileSystem(fs), NEW x
    PROVE  /\ SetToSeq({Last(p) : p \in Children(x)}) \in Seq({Last(p) : p \in Children(x)})
           /\ {Last(p) : p \in Children(x)} \subseteq Names
<1> DEFINE C == Children(x)
           T == {Last(p) : p \in C}
           f == [p \in C |-> Last(p)]
<1>1. C \subseteq Paths /\ IsFiniteSet(C)
  <2>1. C \subseteq Paths /\ IsFiniteSet(Paths)
    BY DEF FileSystem, IsTree, Paths, Children
  <2> QED
    BY <2>1, FS_Subset
<1>2. T \subseteq Names
  <2>1. \A p \in C : p \in Seq(Names) /\ p # <<>>
    BY PathsTyped DEF Children
  <2> QED
    BY <2>1, FrontIs
<1>3. f \in Surjection(C, T)
  BY DEF Surjection
<1> HIDE DEF C
<1>4. IsFiniteSet(T)
  BY <1>1, <1>3, FS_Surjection
<1> HIDE DEF T
<1>5. Cardinality(T) \in Nat /\ \E g \in [1 .. Cardinality(T) -> T] : IsInjective(g)
  BY <1>4, FS_CardinalityType DEF ExistsBijection, Bijection, Injection
<1>6. SetToSeq(T) \in [1 .. Cardinality(T) -> T]
  BY <1>5 DEF SetToSeq
<1>7. SetToSeq(T) \in Seq(T)
  BY <1>5, <1>6, SeqDef
<1> QED
  BY <1>2, <1>7 DEF T, C

LEMMA EntriesAre ==
    ASSUME FileSystem(fs), NEW from \in Nodes, NEW to \in Nodes, NEW path \in Seq(Names),
           NEW e, e = Entries(from, to, path)
    PROVE  /\ e \in Seq(Jobs)
           /\ \A i \in DOMAIN e : e[i].to = to /\ e[i].from = from /\ e[i].path = Append(path, e[i].name)
<1> DEFINE T == {Last(p) : p \in Children(from)}
<1>1. PICK names : names = SetToSeq(T)
  OBVIOUS
<1>2. names \in Seq(T) /\ T \subseteq Names
  BY <1>1, NamesIn
<1>3. e = [i \in DOMAIN names |-> [from |-> from, to |-> to, name |-> names[i], path |-> Append(path, names[i])]]
  BY <1>1 DEF Entries
<1> HIDE DEF T
<1>4. Len(names) \in Nat /\ DOMAIN names = 1 .. Len(names) /\ \A i \in 1 .. Len(names) : names[i] \in Names
  BY <1>2, ElementOfSeq, LenProperties
<1>5. \A i \in 1 .. Len(names) : Append(path, names[i]) \in Seq(Names)
  BY <1>4, AppendProperties
<1>6. \A i \in 1 .. Len(names) : e[i] \in Jobs
  BY <1>3, <1>4, <1>5 DEF Jobs
<1>7. e \in [1 .. Len(names) -> Jobs]
  BY <1>3, <1>4, <1>6
<1>8. e \in Seq(Jobs)
  BY <1>4, <1>7, SeqDef
<1> QED
  BY <1>3, <1>8

Opens == OpenSource \/ PinSourceParent \/ PinDestParent \/ OpenChild \/ OpenDest \/ Read

LEMMA OpensKeep ==
    ASSUME BrokerInv, Opens
    PROVE  BrokerInv'
<1>1. Shaped(op)
  BY DEF BrokerInv
<1>2. CASE OpenSource
  <2> DEFINE w == OpenPath(op.src.path, TRUE)
  <2>1. Doing("OpenSource") /\ IF w.ok THEN Continue("OpenSource", [op EXCEPT !.h1 = w.h]) ELSE Stop("io_error")
    BY <1>2 DEF OpenSource
  <2>2. op.src.path \in Seq(Names)
    BY <2>1, ConcatIs DEF BrokerInv, CallInv, Plan, CanonicalPath, Doing, Running
  <2>3. w.ok => w.h.node \in Nodes
    BY <2>2, OpenPathIs, PathsTyped DEF BrokerInv
  <2> HIDE DEF w
  <2>4. CASE ~w.ok
    BY <2>1, <2>4, Stops
  <2>5. CASE w.ok
    <3>1. PICK o : o = [op EXCEPT !.h1 = w.h]
      OBVIOUS
    <3>2. /\ Shaped(o) /\ o.req = op.req /\ o.src = op.src /\ o.dst = op.dst /\ o.result = op.result /\ o.made = op.made
          /\ o.effects = op.effects /\ o.p2 = op.p2 /\ o.h2 = op.h2 /\ o.todo = op.todo /\ o.pending = op.pending
          /\ o.h1 = w.h
      BY <1>1, <3>1 DEF Shaped
    <3> QED
      BY <2>1, <2>3, <2>5, <3>1, <3>2, Opened
  <2> QED
    BY <2>4, <2>5
<1>3. CASE PinSourceParent
  <2> DEFINE w == OpenPath(Front(op.src.path), TRUE)
  <2>1. Doing("PinSourceParent") /\ IF w.ok THEN Continue("PinSourceParent", [op EXCEPT !.p1 = w.h]) ELSE Stop("io_error")
    BY <1>3 DEF PinSourceParent
  <2> HIDE DEF w
  <2>4. CASE ~w.ok
    BY <2>1, <2>4, Stops
  <2>5. CASE w.ok
    <3>1. PICK o : o = [op EXCEPT !.p1 = w.h]
      OBVIOUS
    <3>2. /\ Shaped(o) /\ o.req = op.req /\ o.src = op.src /\ o.dst = op.dst /\ o.result = op.result /\ o.made = op.made
          /\ o.effects = op.effects /\ o.p2 = op.p2 /\ o.h2 = op.h2 /\ o.todo = op.todo /\ o.pending = op.pending
          /\ o.h1 = op.h1
      BY <1>1, <3>1 DEF Shaped
    <3> QED
      BY <2>1, <2>5, <3>1, <3>2, Opened
  <2> QED
    BY <2>4, <2>5
<1>4. CASE PinDestParent
  <2> DEFINE w == OpenPath(DestParent, TRUE)
  <2>1. Doing("PinDestParent") /\ IF w.ok THEN Continue("PinDestParent", [op EXCEPT !.p2 = w.h]) ELSE Stop("io_error")
    BY <1>4 DEF PinDestParent
  <2> HIDE DEF w
  <2>4. CASE ~w.ok
    BY <2>1, <2>4, Stops
  <2>5. CASE w.ok
    <3>1. PICK o : o = [op EXCEPT !.p2 = w.h]
      OBVIOUS
    <3>2. /\ Shaped(o) /\ o.req = op.req /\ o.src = op.src /\ o.dst = op.dst /\ o.result = op.result /\ o.made = op.made
          /\ o.effects = op.effects /\ o.h1 = op.h1 /\ o.h2 = op.h2 /\ o.todo = op.todo /\ o.pending = op.pending
      BY <1>1, <3>1 DEF Shaped
    <3> QED
      BY <2>1, <2>5, <3>1, <3>2, Opened
  <2> QED
    BY <2>4, <2>5
<1>5. CASE OpenChild
  <2> DEFINE slot == <<op.p1.node, Last(op.src.path)>>
             x == At(slot)
  <2>1. Doing("OpenChild") /\ IF x # None THEN Continue("OpenChild", [op EXCEPT !.h1 = Handle(x, slot)]) ELSE Stop("io_error")
    BY <1>5 DEF OpenChild
  <2> HIDE DEF x, slot
  <2>4. CASE x = None
    BY <2>1, <2>4, Stops
  <2>5. CASE x # None
    <3>1. PICK o : o = [op EXCEPT !.h1 = Handle(x, slot)]
      OBVIOUS
    <3>2. /\ Shaped(o) /\ o.req = op.req /\ o.src = op.src /\ o.dst = op.dst /\ o.result = op.result /\ o.made = op.made
          /\ o.effects = op.effects /\ o.p2 = op.p2 /\ o.h2 = op.h2 /\ o.todo = op.todo /\ o.pending = op.pending
      BY <1>1, <3>1 DEF Shaped
    <3> QED
      BY <2>1, <2>5, <3>1, <3>2, Opened
  <2> QED
    BY <2>4, <2>5
<1>6. CASE OpenDest
  <2> DEFINE slot == <<op.p2.node, Last(op.dst.path)>>
             x == At(slot)
  <2>1. /\ Doing("OpenDest")
        /\ IF x # None /\ ~IsDir(x) THEN Continue("OpenDest", [op EXCEPT !.h2 = Handle(x, slot)]) ELSE Stop("io_error")
    BY <1>6 DEF OpenDest
  <2> HIDE DEF x, slot
  <2>4. CASE ~(x # None /\ ~IsDir(x))
    BY <2>1, <2>4, Stops
  <2>5. CASE x # None /\ ~IsDir(x)
    <3>1. PICK o : o = [op EXCEPT !.h2 = Handle(x, slot)]
      OBVIOUS
    <3>2. /\ Shaped(o) /\ o.req = op.req /\ o.src = op.src /\ o.dst = op.dst /\ o.result = op.result /\ o.made = op.made
          /\ o.effects = op.effects /\ o.p2 = op.p2 /\ o.h1 = op.h1 /\ o.todo = op.todo /\ o.pending = op.pending
      BY <1>1, <3>1 DEF Shaped
    <3> QED
      BY <2>1, <2>5, <3>1, <3>2, Opened
  <2> QED
    BY <2>4, <2>5
<1>7. CASE Read
  <2>1. PICK o : o = [op EXCEPT !.out = fs.data[op.h1.node]]
    OBVIOUS
  <2>2. Doing("Read") /\ Continue("Read", o)
    BY <1>7, <2>1 DEF Read
  <2>3. /\ Shaped(o) /\ o.req = op.req /\ o.src = op.src /\ o.dst = op.dst /\ o.result = op.result /\ o.made = op.made
        /\ o.effects = op.effects /\ o.p2 = op.p2 /\ o.h2 = op.h2 /\ o.todo = op.todo /\ o.pending = op.pending
        /\ o.h1 = op.h1
    BY <1>1, <2>1 DEF Shaped
  <2> QED
    BY <2>2, <2>3, Opened
<1> QED
  BY <1>2, <1>3, <1>4, <1>5, <1>6, <1>7 DEF Opens

\* The steps that look at what is there, and those that may end a call on their own.
LEMMA InspectKeeps ==
    ASSUME BrokerInv, Inspect
    PROVE  BrokerInv'
<1> DEFINE full == Children(op.h1.node) # {}
           more == IF full THEN {"DeleteTree", "Unlink"} ELSE {"Unlink"}
<1>1. /\ Doing("Inspect")
      /\ CASE full /\ ~op.req.recursive -> Stop("refused")
           [] full /\ op.req.recursive /\ HoldsProtected(op.h1.node) -> Stop("denied")
           [] OTHER -> Continue("Inspect", [op EXCEPT !.todo = @ \cup more])
  BY DEF Inspect
<1>2. op.effects \subseteq {"mkdir"}
  BY <1>1, ChecksAreEarly DEF Late
<1>3. CallInv /\ Shaped(op)
  BY <1>1 DEF BrokerInv, Running, Doing
<1>4. more \subseteq {"DeleteTree", "Unlink"}
  OBVIOUS
<1> HIDE DEF more, full
<1>5. CASE Stop("refused")
  BY <1>2, <1>5, Stops
<1>6. CASE Stop("denied")
  BY <1>2, <1>6, Stops
<1>7. CASE Continue("Inspect", [op EXCEPT !.todo = @ \cup more])
  <2>1. PICK o : o = [op EXCEPT !.todo = @ \cup more]
    OBVIOUS
  <2>2. /\ Shaped(o) /\ o.req = op.req /\ o.src = op.src /\ o.dst = op.dst /\ o.result = op.result /\ o.made = op.made
        /\ o.effects = op.effects /\ o.p2 = op.p2 /\ o.h2 = op.h2 /\ o.h1 = op.h1 /\ o.pending = op.pending
        /\ o.todo = op.todo \cup more
    BY <1>3, <2>1 DEF Shaped
  <2>3. Continue("Inspect", o)
    BY <1>7, <2>1
  <2>4. FillingHeld'
    <3>1. op' = Advance("Inspect", o) /\ fs' = fs
      BY <2>3 DEF Continue
    <3>2. op'.dst = op.dst /\ (op'.pending = op.pending \/ op'.pending = <<>>)
      BY <2>2, <3>1, AdvanceIs
    <3> QED
      BY <1>3, <3>1, <3>2, FillingSame
  <2>5. op.todo \subseteq o.todo /\ o.todo \subseteq op.todo \cup {"DeleteTree", "Unlink"}
    BY <1>4, <2>2
  <2> QED
    BY <1>1, <2>2, <2>3, <2>4, <2>5, Advances
<1> QED
  BY <1>1, <1>5, <1>6, <1>7

LEMMA ReadTreeKeeps ==
    ASSUME BrokerInv, ReadTree
    PROVE  BrokerInv'
<1>1. PICK e : e = Entries(op.h1.node, op.p2.node, op.src.path)
  OBVIOUS
<1>2. PICK o : o = [op EXCEPT !.pending = e]
  OBVIOUS
<1>3. Doing("ReadTree") /\ Continue("ReadTree", o)
  BY <1>1, <1>2 DEF ReadTree
<1>4. CallInv /\ Shaped(op) /\ "ReadTree" \in op.todo /\ FileSystem(fs)
  BY <1>3 DEF BrokerInv, Running, Doing
<1>5. /\ Shaped(o) /\ o.req = op.req /\ o.src = op.src /\ o.dst = op.dst /\ o.result = op.result /\ o.made = op.made
      /\ o.effects = op.effects /\ o.p2 = op.p2 /\ o.h2 = op.h2 /\ o.h1 = op.h1 /\ o.todo = op.todo
      /\ o.pending = e
  BY <1>2, <1>4 DEF Shaped
<1>6. /\ TreeCopy /\ ~op.dst.exists /\ HasDest /\ op.req.kind # "move"
      /\ "VerifyDestParent" \notin op.todo /\ "MakeDirs" \notin op.todo
  BY <1>3, <1>4, Earlier DEF CallInv, Plan, TreeCopy, HasDest
<1>7. op.made = Len(op.dst.tail) /\ op.made > 0
  BY <1>4, <1>6, MissingIs DEF CallInv, DirsMade, Missing, TreeCopy
<1>8. Stands(op.p2.node, NewParent) /\ IsDir(op.p2.node)
  BY <1>4, <1>6, <1>7 DEF CallInv, ParentHeld
<1>9. NewParent = op.dst.path /\ op.dst.path \in Seq(Names)
  <2>1. /\ op.dst.path \in Seq(Names) /\ Len(op.dst.path) = Len(op.dst.existing) + Len(op.dst.tail)
        /\ NewParent = First(op.dst.path, Len(op.dst.existing) + op.made)
    BY <1>4, <1>6, NewParentIs
  <2> QED
    BY <1>7, <2>1, FirstAll
<1>10. IsPrefix(op.dst.path, op.dst.path)
  <2>1. Len(op.dst.path) \in 0 .. Len(op.dst.path)
    BY <1>9, LenProperties
  <2> QED
    BY <1>9, <2>1, FirstIsPrefix, FirstAll
<1>11. op.h1.node \in Nodes /\ op.p2.node \in Nodes /\ op.src.path \in Seq(Names)
  <2>1. op.src.path \in Seq(Names)
    BY <1>4, ConcatIs DEF CallInv, Plan, CanonicalPath
  <2>2. op.p2.node \in Nodes
    BY <1>4, <1>8, PathsTyped DEF Stands
  <2>3. "OpenSource" \notin op.todo
    BY <1>3 DEF Doing, Order
  <2> QED
    BY <1>4, <1>6, <2>1, <2>2, <2>3 DEF CallInv, HandlesRight
<1>12. e \in Seq(Jobs) /\ \A i \in DOMAIN e : e[i].to = op.p2.node
  BY <1>1, <1>4, <1>11, EntriesAre
<1>13. op' = Advance("ReadTree", o) /\ fs' = fs
  BY <1>3 DEF Continue
<1>14. op'.dst = op.dst /\ (op'.pending = e \/ op'.pending = <<>>)
  BY <1>5, <1>13, AdvanceIs
<1>15. FillingHeld'
  <2>1. CASE op'.pending = <<>>
    BY <1>4, <1>13, <1>14, <2>1, FillingSame
  <2>2. CASE op'.pending = e
    <3>1. \A i \in DOMAIN e : IsDir(e[i].to) /\ \E p \in Paths : Stands(e[i].to, p) /\ IsPrefix(op.dst.path, p)
      BY <1>8, <1>9, <1>10, <1>12 DEF Stands
    <3> QED
      BY <1>12, <1>13, <1>14, <2>2, <3>1 DEF FillingHeld, Stands, Paths, IsDir, Jobs
  <2> QED
    BY <1>14, <2>1, <2>2
<1> QED
  BY <1>3, <1>5, <1>15, Advances

Looks == ScanSource \/ Inspect \/ ReadDest \/ ReadTree

LEMMA LooksKeep ==
    ASSUME BrokerInv, Looks
    PROVE  BrokerInv'
<1>1. CASE ScanSource
  <2> DEFINE c == \A p \in Under(op.h1.node) : IsLink(fs.tree[p]) \/ Evaluate(p, FALSE) # "Deny"
  <2>1. Doing("ScanSource") /\ (Stop("io_error") \/ (IF c THEN Continue("ScanSource", op) ELSE Stop("denied")))
    BY <1>1 DEF ScanSource
  <2>2. c \in BOOLEAN
    OBVIOUS
  <2> HIDE DEF c
  <2>3. CASE Stop("io_error")
    BY <2>3, Stops
  <2>4. CASE Check("ScanSource", c, "denied")
    BY <2>2, <2>4, Checked DEF Late
  <2> QED
    BY <2>1, <2>3, <2>4 DEF Check
<1>2. CASE ReadDest
  <2>1. Check("ReadDest", TRUE, "refused") \/ Check("ReadDest", FALSE, "refused")
    BY <1>2 DEF ReadDest, Check
  <2> QED
    BY <2>1, Checked DEF Late
<1> QED
  BY <1>1, <1>2, InspectKeeps, ReadTreeKeeps DEF Looks

-----------------------------------------------------------------------------
\* The steps that change the file system

LEMMA LateKeeps ==
    ASSUME CallInv, NEW step \in Late, Doing(step), op'.req = op.req, op'.src = op.src, op'.dst = op.dst,
           op'.result = op.result, op'.made = op.made, op'.h1 = op.h1, op'.p2 = op.p2, op'.h2 = op.h2,
           op'.todo = op.todo \/ op'.todo = op.todo \ {step}, step # "ReadTree", op'.pending = op.pending \/ step = "CopyTree",
           TreeCopy => op'.effects \subseteq {"mkdir", "create"}
    PROVE  Plan' /\ DirsMade' /\ HandlesRight' /\ EffectsRight'
<1>1. Plan'
  BY PlanKeeps DEF CallInv
<1>2. (HasDest <=> HasDest') /\ (TreeCopy <=> TreeCopy') /\ (Writes <=> Writes') /\ (Identified <=> Identified')
  BY DEF HasDest, TreeCopy, Writes, Identified
<1>3. /\ "VerifyDestParent" \in op.todo <=> "VerifyDestParent" \in op'.todo
      /\ "MakeDirs" \in op.todo <=> "MakeDirs" \in op'.todo
      /\ "CheckSource" \in op.todo <=> "CheckSource" \in op'.todo
      /\ "OpenSource" \in op.todo <=> "OpenSource" \in op'.todo
      /\ "CheckDest" \in op.todo <=> "CheckDest" \in op'.todo
      /\ "CreateDest" \in op.todo <=> "CreateDest" \in op'.todo
  BY DEF Late
<1>4. Missing' = Missing
  BY DEF Missing
<1>5. DirsMade'
  BY <1>2, <1>3, <1>4 DEF CallInv, DirsMade
<1>6. HandlesRight'
  BY <1>2, <1>3 DEF CallInv, HandlesRight
<1>7. op'.todo \subseteq Late
  BY LateSteps DEF CallInv, Plan
<1>8. EffectsRight'
  BY <1>2, <1>7 DEF EffectsRight, Late
<1> QED
  BY <1>1, <1>5, <1>6, <1>8

\* A late step that changes the file system and is then done.
LEMMA Changed ==
    ASSUME BrokerInv, NEW step \in Late, Doing(step), step # "ReadTree", ~TreeCopy, NEW f, NEW effect, Change(step, f, op, effect),
           FileSystem(fs)',
           op'.h1 = op.h1 /\ op'.p2 = op.p2 /\ op'.h2 = op.h2 /\ op'.req = op.req /\ op'.src = op.src /\ op'.dst = op.dst
               /\ op'.made = op.made /\ op'.todo = op.todo \ {step} => ParentHeld' /\ NewHeld'
    PROVE  BrokerInv'
<1>1. PICK o : o = [op EXCEPT !.effects = @ \cup {effect}]
  OBVIOUS
<1>2. op' = Advance(step, o) /\ moves' = moves
  BY <1>1 DEF Change
<1>3. CallInv /\ Shaped(op) /\ step \in op.todo
  BY DEF BrokerInv, Running, Doing
<1>4. /\ Shaped(o) /\ o.req = op.req /\ o.src = op.src /\ o.dst = op.dst /\ o.result = op.result /\ o.made = op.made
      /\ o.p2 = op.p2 /\ o.h2 = op.h2 /\ o.h1 = op.h1 /\ o.todo = op.todo /\ o.pending = op.pending
  BY <1>1, <1>3 DEF Shaped
<1>5. /\ Shaped(op') /\ op'.req = op.req /\ op'.src = op.src /\ op'.dst = op.dst /\ op'.made = op.made
      /\ op'.h1 = op.h1 /\ op'.p2 = op.p2 /\ op'.h2 = op.h2
      /\ op.todo = {step} => op'.todo = {} /\ op'.result = "ok"
      /\ op.todo # {step} => op'.todo = op.todo \ {step} /\ op'.result = op.result /\ op'.pending = op.pending
  BY <1>2, <1>4, AdvanceIs
<1>6. (moves \in Nat)' /\ Shaped(op)'
  BY <1>2, <1>5 DEF BrokerInv, Shaped
<1>7. CASE op.todo = {step}
  BY <1>5, <1>6, <1>7 DEF BrokerInv, Running, RefusalIsClean
<1>8. CASE op.todo # {step}
  <2>1. Plan' /\ DirsMade' /\ HandlesRight' /\ EffectsRight'
    BY <1>3, <1>5, <1>8, LateKeeps
  <2>2. ParentHeld' /\ NewHeld'
    BY <1>5, <1>8
  <2>3. op.pending = <<>>
    BY <1>3 DEF CallInv, Plan
  <2>4. FillingHeld'
    <3>1. op'.pending = <<>>
      BY <1>5, <1>8, <2>3
    <3>2. op'.pending \in Seq(Jobs) /\ DOMAIN op'.pending = {}
      BY <3>1
    <3> QED
      BY <3>2 DEF FillingHeld, Jobs
  <2>5. RefusalIsClean'
    BY <1>3, <1>5, <1>8 DEF CallInv, Plan, RefusalIsClean
  <2> QED
    BY <1>6, <2>1, <2>2, <2>4, <2>5 DEF BrokerInv, CallInv
<1> QED
  BY <1>7, <1>8

Fills == Truncate \/ WriteData \/ CopyData \/ WriteFails

LEMMA FillsKeep ==
    ASSUME BrokerInv, Fills
    PROVE  BrokerInv'
<1>1. PICK step \in {"Truncate", "WriteData", "CopyData"} : Doing(step) /\ (Truncate \/ WriteData \/ CopyData \/ WriteFails)
  BY DEF Fills, Truncate, WriteData, CopyData, WriteFails
<1>2. CallInv /\ step \in op.todo /\ FileSystem(fs) /\ Shaped(op)
  BY <1>1 DEF BrokerInv, Running, Doing
<1>3. Writes /\ ~TreeCopy
  BY <1>2 DEF CallInv, Plan, Writes, TreeCopy
<1>4. ASSUME NEW s \in {"Truncate", "WriteData", "CopyData"}, Doing(s),
             NEW d \in Contents \cup {None}, Change(s, [fs EXCEPT !.data[op.h2.node] = d], op, "write")
      PROVE  BrokerInv'
  <2>1. fs' = Filled(op.h2.node, d)
    BY <1>4 DEF Change, Filled
  <2>2. FileSystem(fs') /\ fs'.tree = fs.tree /\ fs'.kind = fs.kind
    BY <1>2, <1>4, <2>1, DataKeeps
  <2>3. FileSystem(fs)'
    BY <2>2 DEF FileSystem, IsTree
  <2>4. ASSUME op'.h1 = op.h1, op'.p2 = op.p2, op'.h2 = op.h2, op'.req = op.req, op'.src = op.src, op'.dst = op.dst,
               op'.made = op.made, op'.todo = op.todo \ {s}
        PROVE  ParentHeld' /\ NewHeld'
    <3>1. (HasDest <=> HasDest') /\ (TreeCopy <=> TreeCopy') /\ (Writes <=> Writes')
      BY <2>4 DEF HasDest, TreeCopy, Writes
    <3>2. NewParent' = NewParent
      BY <2>4 DEF NewParent, DestParent
    <3>3. /\ "VerifyDestParent" \in op'.todo <=> "VerifyDestParent" \in op.todo
          /\ "CreateDest" \in op'.todo <=> "CreateDest" \in op.todo
          /\ "Rename" \in op'.todo <=> "Rename" \in op.todo
      BY <2>4
    <3>4. ParentHeld'
      BY <1>2, <2>2, <2>4, <3>1, <3>2, <3>3 DEF CallInv, ParentHeld, Stands, Paths, IsDir
    <3>5. NewHeld'
      BY <1>2, <2>2, <2>4, <3>1, <3>3 DEF CallInv, NewHeld, Stands, Paths, IsDir
    <3> QED
      BY <3>4, <3>5
  <2>5. s \in Late
    BY DEF Late
  <2> QED
    BY <1>3, <1>4, <2>3, <2>4, <2>5, Changed
<1>5. CASE Truncate
  <2>1. "empty" \in Contents
    BY DEF Contents
  <2> QED
    BY <1>4, <1>5, <2>1 DEF Truncate
<1>6. CASE WriteData
  <2>1. "new" \in Contents
    BY DEF Contents
  <2> QED
    BY <1>4, <1>6, <2>1 DEF WriteData
<1>7. CASE CopyData
  <2>1. Doing("CopyData") /\ Change("CopyData", [fs EXCEPT !.data[op.h2.node] = fs.data[op.h1.node]], op, "write")
    BY <1>7 DEF CopyData
  <2>2. op.req.kind = "copy" /\ "CheckSource" \notin op.todo
    BY <1>2, <2>1, Earlier DEF CallInv, Plan, Doing
  <2>3. op.h1.node \in Nodes
    BY <1>2, <1>3, <2>2 DEF CallInv, HandlesRight, Identified, Plan, CanonicalPath
  <2>4. fs.data[op.h1.node] \in Contents \cup {None}
    BY <1>2, <2>3 DEF FileSystem
  <2> QED
    BY <1>4, <2>1, <2>4
<1>8. CASE WriteFails
  <2>1. fs' = Filled(op.h2.node, "partial") /\ moves' = moves
        /\ op' = [Ended(op, "io_error") EXCEPT !.effects = @ \cup {"write"}]
    BY <1>8 DEF WriteFails, Filled
  <2>2. "partial" \in Contents \cup {None}
    BY DEF Contents
  <2>3. FileSystem(fs')
    BY <1>2, <2>1, <2>2, DataKeeps
  <2>4. PICK a : a = Ended(op, "io_error")
    OBVIOUS
  <2>5. Shaped(a) /\ a.todo = {} /\ a.result = "io_error"
    BY <1>2, <2>4, EndedIs
  <2>6. Shaped(op') /\ op'.todo = {} /\ op'.result = "io_error"
    BY <2>1, <2>4, <2>5 DEF Shaped
  <2>7. FileSystem(fs)' /\ Shaped(op)' /\ (moves \in Nat)'
    BY <2>1, <2>3, <2>6 DEF FileSystem, IsTree, Shaped, BrokerInv
  <2> QED
    BY <2>6, <2>7 DEF BrokerInv, Running, RefusalIsClean
<1> QED
  BY <1>5, <1>6, <1>7, <1>8 DEF Fills

\* What a new entry does to the objects that are there.
LEMMA MadeHere ==
    ASSUME FileSystem(fs), Free # {}, NEW p \in Seq(Names), p # <<>>, p \notin Paths, Front(p) \in Paths,
           IsDir(fs.tree[Front(p)]), NEW kind \in Kinds, kind # "free", NEW data \in Contents \cup {None},
           fs' = Make(p, kind, data)
    PROVE  /\ FileSystem(fs)' /\ Fresh \in Nodes
           /\ \A x, q : Stands(x, q) => Stands(x, q)'
           /\ \A y : y = Fresh => Stands(y, p)' /\ fs'.kind[y] = kind
           /\ \A x \in Nodes : fs.kind[x] # "free" => fs'.kind[x] = fs.kind[x]
           /\ \A x, q : Stands(x, q) /\ IsDir(x) => fs'.kind[x] = "dir"
<1>1. /\ FileSystem(fs') /\ (\A q : q \in DOMAIN fs'.tree <=> q \in Paths \/ q = p) /\ fs'.tree[p] = Fresh
      /\ \A q \in Paths : fs'.tree[q] = fs.tree[q]
      /\ \A x \in Nodes : fs'.kind[x] = IF x = Fresh THEN kind ELSE fs.kind[x]
  BY MakeKeeps
<1>2. FileSystem(fs)'
  BY <1>1 DEF FileSystem, IsTree
<1>3. Fresh \in Nodes /\ fs.kind[Fresh] = "free"
  BY FreshIs
<1>4. \A x, q : Stands(x, q) => Stands(x, q)'
  BY <1>1 DEF Stands, Paths
<1>5. \A y : y = Fresh => Stands(y, p)' /\ fs'.kind[y] = kind
  BY <1>1, <1>3 DEF Stands, Paths
<1>6. \A x \in Nodes : fs.kind[x] # "free" => fs'.kind[x] = fs.kind[x]
  BY <1>1, <1>3
<1>7. \A x, q : Stands(x, q) /\ IsDir(x) => fs'.kind[x] = "dir"
  BY <1>6, PathsTyped DEF Stands, IsDir
<1> QED
  BY <1>2, <1>3, <1>4, <1>5, <1>6, <1>7

\* What a slot in the directory at p is: the path q, with an object or free.
SlotOf(slot, q, p) ==
    /\ SlotPath(slot) = q /\ q \in Seq(Names) /\ q # <<>> /\ Front(q) = p /\ Front(q) \in Paths
    /\ IsDir(fs.tree[Front(q)]) /\ p \in Seq(Names)
    /\ (At(slot) = None) <=> q \notin Paths
    /\ At(slot) # None => Stands(At(slot), q) /\ At(slot) \in Nodes

LEMMA SlotIs ==
    ASSUME FileSystem(fs), NEW d, NEW p, Stands(d, p), IsDir(d), NEW name \in Names,
           NEW slot, slot = <<d, name>>, NEW q, q = Append(p, name)
    PROVE  SlotOf(slot, q, p)
<1>1. p \in Paths /\ fs.tree[p] = d /\ p \in Seq(Names)
  BY PathsTyped DEF Stands
<1>2. SlotPath(slot) = q
  BY SlotOfDir
<1>3. q \in Seq(Names) /\ q # <<>> /\ Front(q) = p
  BY <1>1, AppendIs
<1>4. q \in Paths => fs.tree[q] \in Nodes /\ fs.tree[q] # None
  BY PathsTyped, NoneAssumption
<1>5. PICK a : a = At(slot)
  OBVIOUS
<1>6. a = IF q \in Paths THEN fs.tree[q] ELSE None
  BY <1>2, <1>5 DEF At
<1>7. (a = None <=> q \notin Paths) /\ (a # None => Stands(a, q) /\ a \in Nodes)
  BY <1>4, <1>6 DEF Stands
<1>8. Front(q) \in Paths /\ IsDir(fs.tree[Front(q)])
  BY <1>1, <1>3
<1> HIDE DEF At
<1> QED
  BY <1>1, <1>2, <1>3, <1>5, <1>7, <1>8 DEF SlotOf

LEMMA MadePath ==
    ASSUME NEW c, CanonicalPath(c), NEW n \in 0 .. Len(c.tail)
    PROVE  c.existing \o First(c.tail, n) = First(c.path, Len(c.existing) + n)
<1>1. PICK e, t, p : e = c.existing /\ t = c.tail /\ p = c.path
  OBVIOUS
<1>2. e \in Seq(Names) /\ t \in Seq(Names) /\ Joined(e, t, p) /\ n \in 0 .. Len(t)
  BY <1>1 DEF CanonicalPath
<1>3. \A k \in 0 .. Len(t) : First(p, Len(e) + k) = e \o First(t, k)
  BY <1>2, ConcatIs
<1> QED
  BY <1>1, <1>2, <1>3

\* The next directory that MakeDirs makes or enters.
LEMMA NextDir ==
    ASSUME BrokerInv, Doing("MakeDirs"), op.made < Missing, IsDir(op.p2.node),
           NEW slot, slot = <<op.p2.node, op.dst.tail[op.made + 1]>>,
           NEW q, q = First(op.dst.path, Len(op.dst.existing) + op.made + 1),
           NEW r, r = op.dst.existing \o First(op.dst.tail, op.made + 1)
    PROVE  /\ HasDest /\ ~op.dst.exists /\ op.dst.path \in Seq(Names)
           /\ IsPrefix(q, op.dst.path) /\ Len(q) > Len(op.dst.existing)
           /\ SlotOf(slot, q, NewParent) /\ q = r
<1>1. CallInv /\ "MakeDirs" \in op.todo /\ FileSystem(fs)
  BY DEF BrokerInv, Running, Doing
<1>2. HasDest /\ ~op.dst.exists /\ "VerifyDestParent" \notin op.todo /\ (op.req.kind = "move" => "Rename" \in op.todo)
  BY <1>1, Earlier DEF CallInv, Plan
<1>13. PICK e : e = Len(op.dst.existing)
  OBVIOUS
<1>3. /\ e \in Nat /\ op.made \in Nat /\ Len(op.dst.tail) \in Nat /\ op.made < Missing /\ Missing <= Len(op.dst.tail)
      /\ Missing \in Nat /\ Len(op.dst.path) = e + Len(op.dst.tail) /\ op.dst.path \in Seq(Names)
      /\ NewParent = First(op.dst.path, e + op.made)
      /\ op.made < Len(op.dst.tail) => op.dst.tail[op.made + 1] = op.dst.path[e + op.made + 1]
  <2>1. Len(op.dst.tail) \in Nat /\ Len(op.dst.tail) > 0 /\ Missing \in {Len(op.dst.tail), Len(op.dst.tail) - 1}
    BY <1>1, <1>2, MissingIs
  <2>2. op.made \in Nat /\ op.made < Missing
    BY <1>1, <1>2 DEF CallInv, DirsMade
  <2>3. Missing <= Len(op.dst.tail) /\ Missing \in Nat
    BY <2>1
  <2>4. /\ e \in Nat /\ Len(op.dst.path) = e + Len(op.dst.tail) /\ op.dst.path \in Seq(Names)
        /\ NewParent = First(op.dst.path, e + op.made)
        /\ op.made < Len(op.dst.tail) => op.dst.tail[op.made + 1] = op.dst.path[e + op.made + 1]
    BY <1>1, <1>2, <1>13, NewParentIs
  <2> QED
    BY <2>1, <2>2, <2>3, <2>4
<1>4. Stands(op.p2.node, NewParent) /\ CanonicalPath(op.dst)
  BY <1>1, <1>2 DEF CallInv, ParentHeld, Plan
<1>5. op.made < Len(op.dst.tail) /\ e + op.made \in 0 .. Len(op.dst.path) - 1 /\ op.made + 1 \in 0 .. Len(op.dst.tail)
      /\ e + op.made + 1 \in 0 .. Len(op.dst.path) /\ e + op.made + 1 > e /\ e + (op.made + 1) = e + op.made + 1
  <2>1. PICK m, k, t, l : m = op.made /\ k = Missing /\ t = Len(op.dst.tail) /\ l = Len(op.dst.path)
    OBVIOUS
  <2>2. e \in Nat /\ m \in Nat /\ k \in Nat /\ t \in Nat /\ m < k /\ k <= t /\ l = e + t
    BY <1>3, <2>1
  <2>3. /\ m < t /\ e + m \in 0 .. l - 1 /\ m + 1 \in 0 .. t
        /\ e + m + 1 \in 0 .. l /\ e + m + 1 > e /\ e + (m + 1) = e + m + 1
    BY <2>2, SMTT(30)
  <2> QED
    BY <2>1, <2>3
<1>6. /\ Append(First(op.dst.path, e + op.made), op.dst.path[e + op.made + 1]) = First(op.dst.path, e + op.made + 1)
      /\ op.dst.path[e + op.made + 1] \in Names
  BY <1>3, <1>5, NextFirst
<1>7. PICK d, np, name : d = op.p2.node /\ np = NewParent /\ name = op.dst.tail[op.made + 1]
  OBVIOUS
<1>8. q = First(op.dst.path, e + op.made + 1)
  BY <1>13
<1>9. Stands(d, np) /\ IsDir(d) /\ slot = <<d, name>> /\ name \in Names /\ q = Append(np, name)
  BY <1>3, <1>4, <1>5, <1>6, <1>7, <1>8
<1>10. SlotOf(slot, q, np)
  BY <1>1, <1>9, SlotIs
<1>11. IsPrefix(q, op.dst.path) /\ Len(q) > e
  BY <1>3, <1>5, <1>8, FirstIs, FirstIsPrefix, SMTT(30)
<1>12. r = First(op.dst.path, e + (op.made + 1))
  BY <1>4, <1>5, <1>13, MadePath
<1> QED
  BY <1>2, <1>3, <1>5, <1>7, <1>8, <1>10, <1>11, <1>12, <1>13

LEMMA MakeDirsKeeps ==
    ASSUME BrokerInv, MakeDirs
    PROVE  BrokerInv'
<1>1. Doing("MakeDirs")
  BY DEF MakeDirs
<1>2. CallInv /\ "MakeDirs" \in op.todo /\ FileSystem(fs) /\ Shaped(op) /\ moves \in Nat
  BY <1>1 DEF BrokerInv, Running, Doing
<1>3. HasDest /\ ~op.dst.exists /\ "VerifyDestParent" \notin op.todo /\ (op.req.kind = "move" => "Rename" \in op.todo)
  BY <1>1, <1>2, Earlier DEF CallInv, Plan
<1>4. op.effects \subseteq {"mkdir"}
  BY <1>1, ChecksAreEarly DEF Late
<1>5. op.made \in Nat /\ Missing \in Nat
  <2>1. Len(op.dst.tail) \in Nat /\ Len(op.dst.tail) > 0 /\ Missing \in {Len(op.dst.tail), Len(op.dst.tail) - 1}
    BY <1>2, <1>3, MissingIs
  <2>2. Missing \in Nat
    BY <2>1
  <2> QED
    BY <1>2, <1>3, <2>2 DEF CallInv, DirsMade
<1> DEFINE slot == <<op.p2.node, op.dst.tail[op.made + 1]>>
           x == At(slot)
           Entered(y) == [op EXCEPT !.p2 = Handle(y, slot), !.made = @ + 1]
<1>7. \/ op.made = Missing /\ Continue("MakeDirs", op)
      \/ \E result \in {"io_error", "changed"} : Stop(result)
      \/ /\ op.made < Missing /\ IsDir(op.p2.node) /\ x = None /\ Free # {} /\ fs' = Make(SlotPath(slot), "dir", None)
         /\ op' = [Entered(Fresh) EXCEPT !.effects = @ \cup {"mkdir"}] /\ UNCHANGED moves
      \/ /\ op.made < Missing /\ IsDir(op.p2.node) /\ x # None /\ IsDir(x) /\ op' = Entered(x) /\ UNCHANGED <<fs, moves>>
  BY DEF MakeDirs
<1>8. CASE op.made = Missing /\ Continue("MakeDirs", op)
  <2>1. FillingHeld'
    <3>1. op' = Advance("MakeDirs", op) /\ fs' = fs
      BY <1>8 DEF Continue
    <3>2. op'.dst = op.dst /\ (op'.pending = op.pending \/ op'.pending = <<>>)
      BY <1>2, <3>1, AdvanceIs
    <3> QED
      BY <1>2, <3>1, <3>2, FillingSame
  <2> QED
    BY <1>1, <1>2, <1>8, <2>1, Advances
<1>9. CASE \E result \in {"io_error", "changed"} : Stop(result)
  BY <1>4, <1>9, Stops
<1>10. ASSUME op.made < Missing, IsDir(op.p2.node)
       PROVE  /\ SlotPath(slot) \in Seq(Names) /\ SlotPath(slot) # <<>> /\ Front(SlotPath(slot)) \in Paths
              /\ IsDir(fs.tree[Front(SlotPath(slot))]) /\ (x = None => SlotPath(slot) \notin Paths)
              /\ x # None => Stands(x, SlotPath(slot))
              /\ SlotPath(slot) = op.dst.existing \o First(op.dst.tail, op.made + 1)
  <2>1. PICK s, q, r : /\ s = slot /\ q = First(op.dst.path, Len(op.dst.existing) + op.made + 1)
                       /\ r = op.dst.existing \o First(op.dst.tail, op.made + 1)
    OBVIOUS
  <2>2. SlotOf(s, q, NewParent) /\ q = r
    BY <1>1, <1>10, <2>1, NextDir
  <2>3. /\ SlotPath(s) = q /\ q \in Seq(Names) /\ q # <<>> /\ Front(q) \in Paths
        /\ IsDir(fs.tree[Front(q)]) /\ (At(s) = None => q \notin Paths)
        /\ At(s) # None => Stands(At(s), q)
    BY <2>2 DEF SlotOf
  <2> HIDE DEF slot
  <2> QED
    BY <2>1, <2>2, <2>3
<1>11. ASSUME op.made < Missing, NEW y, NEW effects, op'.p2.node = y, op'.made = op.made + 1, op'.effects = effects,
              op'.req = op.req, op'.src = op.src, op'.dst = op.dst, op'.todo = op.todo, op'.result = op.result,
              op'.h1 = op.h1, op'.pending = op.pending, effects \subseteq {"mkdir"}, Shaped(op'), moves' = moves,
              FileSystem(fs)', NEW r, r = op.dst.existing \o First(op.dst.tail, op.made + 1), Stands(y, r)', fs'.kind[y] = "dir"
       PROVE  BrokerInv'
  <2>1. Plan'
    BY <1>1, <1>2, <1>11, PlanKeeps DEF CallInv
  <2>2. (HasDest <=> HasDest') /\ (TreeCopy <=> TreeCopy') /\ (Writes <=> Writes') /\ (Identified <=> Identified')
    BY <1>11 DEF HasDest, TreeCopy, Writes, Identified
  <2>3. Missing' = Missing
    BY <1>11 DEF Missing
  <2>4. DirsMade'
    BY <1>2, <1>3, <1>5, <1>11, <2>3 DEF DirsMade
  <2>5. HandlesRight'
    BY <1>2, <1>3, <1>11, <2>2 DEF CallInv, HandlesRight, Plan
  <2>6. EffectsRight'
    BY <1>11 DEF EffectsRight
  <2>7. NewParent' = op.dst.existing \o First(op.dst.tail, op.made + 1)
    BY <1>3, <1>11 DEF NewParent, DestParent
  <2>8. ParentHeld'
    <3>3. Stands(op.p2.node, NewParent)'
      BY <1>11, <2>7 DEF Stands, Paths
    <3>4. IsDir(op.p2.node)'
      BY <1>11 DEF IsDir
    <3> QED
      BY <3>3, <3>4 DEF ParentHeld
  <2>9. NewHeld'
    BY <1>2, <1>3, <1>11, <2>2 DEF CallInv, Plan, NewHeld
  <2>10. op'.pending = <<>>
    BY <1>2, <1>11 DEF CallInv, Plan
  <2>11. FillingHeld'
    <3>1. op'.pending \in Seq(Jobs) /\ DOMAIN op'.pending = {}
      BY <2>10
    <3> QED
      BY <3>1 DEF FillingHeld, Jobs
  <2>12. RefusalIsClean'
    BY <1>2, <1>11 DEF RefusalIsClean, CallInv, Plan
  <2>13. Shaped(op)' /\ (moves \in Nat)'
    BY <1>2, <1>11 DEF Shaped
  <2> QED
    BY <1>11, <2>1, <2>4, <2>5, <2>6, <2>8, <2>9, <2>11, <2>12, <2>13 DEF BrokerInv, CallInv
<1>12. ASSUME op.made < Missing, IsDir(op.p2.node), x = None, Free # {}, fs' = Make(SlotPath(slot), "dir", None),
              op' = [Entered(Fresh) EXCEPT !.effects = @ \cup {"mkdir"}], moves' = moves
       PROVE  BrokerInv'
  <2>1. PICK y : y = Fresh
    OBVIOUS
  <2>2. PICK q : q = SlotPath(slot)
    OBVIOUS
  <2>3. "dir" \in Kinds /\ "dir" # "free" /\ None \in Contents \cup {None}
    BY DEF Kinds
  <2>4. FileSystem(fs)' /\ Stands(y, q)' /\ fs'.kind[y] = "dir"
    <3>1. /\ q \in Seq(Names) /\ q # <<>> /\ q \notin Paths /\ Front(q) \in Paths /\ IsDir(fs.tree[Front(q)])
          /\ fs' = Make(q, "dir", None)
      BY <1>10, <1>12, <2>2
    <3>2. PICK kind : kind = "dir"
      OBVIOUS
    <3>3. kind \in Kinds /\ kind # "free" /\ fs' = Make(q, kind, None)
      BY <2>3, <3>1, <3>2
    <3>4. FileSystem(fs)' /\ \A z : z = Fresh => Stands(z, q)' /\ fs'.kind[z] = kind
      BY <1>2, <1>12, <2>3, <3>1, <3>3, MadeHere, SMTT(30)
    <3> QED
      BY <2>1, <3>2, <3>4
  <2>5. q = op.dst.existing \o First(op.dst.tail, op.made + 1)
    BY <1>10, <1>12, <2>2
  <2>6. /\ op'.p2.node = y /\ op'.made = op.made + 1 /\ op'.effects = op.effects \cup {"mkdir"}
        /\ op'.req = op.req /\ op'.src = op.src /\ op'.dst = op.dst /\ op'.todo = op.todo /\ op'.result = op.result
        /\ op'.h1 = op.h1 /\ op'.pending = op.pending /\ Shaped(op')
    BY <1>2, <1>12, <2>1 DEF Shaped, Handle
  <2>8. PICK effects : effects = op'.effects
    OBVIOUS
  <2>9. effects \subseteq {"mkdir"}
    BY <1>4, <2>6, <2>8
  <2> HIDE DEF slot, x, Entered
  <2> QED
    BY <1>11, <1>12, <2>4, <2>5, <2>6, <2>8, <2>9, ZenonT(30)
<1>13. ASSUME op.made < Missing, IsDir(op.p2.node), x # None, IsDir(x), op' = Entered(x), fs' = fs, moves' = moves
       PROVE  BrokerInv'
  <2>1. PICK y : y = x
    OBVIOUS
  <2>2. FileSystem(fs)' /\ fs'.kind[y] = "dir"
    BY <1>2, <1>13, <2>1 DEF FileSystem, IsTree, IsDir
  <2>3. Stands(y, op.dst.existing \o First(op.dst.tail, op.made + 1))
    BY <1>10, <1>13, <2>1
  <2>4. PICK r : r = op.dst.existing \o First(op.dst.tail, op.made + 1)
    OBVIOUS
  <2>5. Stands(y, r)'
    BY <1>13, <2>3, <2>4 DEF Stands, Paths
  <2>6. /\ op'.p2.node = y /\ op'.made = op.made + 1 /\ op'.effects = op.effects
        /\ op'.req = op.req /\ op'.src = op.src /\ op'.dst = op.dst /\ op'.todo = op.todo /\ op'.result = op.result
        /\ op'.h1 = op.h1 /\ op'.pending = op.pending /\ Shaped(op')
    BY <1>2, <1>13, <2>1 DEF Shaped, Handle
  <2> QED
    BY <1>4, <1>11, <1>13, <2>2, <2>4, <2>5, <2>6, ZenonT(30)
<1> HIDE DEF x, slot
<1> QED
  BY <1>7, <1>8, <1>9, <1>12, <1>13

\* The last component of a path that does not exist is the last of its tail.
LEMMA LastOfTail ==
    ASSUME NEW c, CanonicalPath(c), ~c.exists
    PROVE  Last(c.tail) = Last(c.path) /\ c.path # <<>> /\ c.path \in Seq(Names)
<1>1. PICK e, t, p : e = c.existing /\ t = c.tail /\ p = c.path
  OBVIOUS
<1>2. e \in Seq(Names) /\ t \in Seq(Names) /\ t # <<>> /\ Joined(e, t, p) /\ p = e \o t
  BY <1>1 DEF CanonicalPath, Joined
<1>3. p \in Seq(Names) /\ Len(p) = Len(e) + Len(t) /\ Len(t) \in Nat /\ Len(e) \in Nat /\ Len(t) > 0
  BY <1>2, ConcatIs, LenProperties, EmptySeq
<1>4. Len(t) \in 1 .. Len(t)
  BY <1>3
<1>5. p[Len(e) + Len(t)] = t[Len(t)]
  BY <1>1, <1>4, TailIs
<1>6. p # <<>>
  BY <1>3
<1> QED
  BY <1>1, <1>3, <1>5, <1>6 DEF Last

\* Where the parent of the destination is once the directories are made.
LEMMA ParentOfDest ==
    ASSUME CallInv, HasDest, "VerifyDestParent" \notin op.todo, "MakeDirs" \notin op.todo,
           op.req.kind # "mkdir", ~TreeCopy
    PROVE  NewParent = Front(op.dst.path) /\ op.dst.path \in Seq(Names) /\ op.dst.path # <<>>
<1>1. op.dst.path \in Seq(Names) /\ op.dst.path # <<>>
  BY NewParentIs DEF CallInv, Plan
<1>2. CASE op.dst.exists
  BY <1>1, <1>2, NewParentIs
<1>3. CASE ~op.dst.exists
  <2>1. op.made = Len(op.dst.tail) - 1 /\ Len(op.dst.tail) \in Nat /\ op.made \in Nat
    BY <1>3, MissingIs DEF CallInv, DirsMade, Missing, TreeCopy
  <2>2. /\ NewParent = First(op.dst.path, Len(op.dst.existing) + op.made) /\ Len(op.dst.existing) \in Nat
        /\ Len(op.dst.path) = Len(op.dst.existing) + Len(op.dst.tail)
    BY <1>3, NewParentIs
  <2>3. Len(op.dst.existing) + op.made = Len(op.dst.path) - 1
    BY <2>1, <2>2
  <2> QED
    BY <1>1, <2>2, <2>3, FrontIs
<1> QED
  BY <1>2, <1>3

LEMMA CreateDestKeeps ==
    ASSUME BrokerInv, CreateDest
    PROVE  BrokerInv'
<1>1. Doing("CreateDest")
  BY DEF CreateDest
<1>2. CallInv /\ "CreateDest" \in op.todo /\ FileSystem(fs) /\ Shaped(op) /\ moves \in Nat
  BY <1>1 DEF BrokerInv, Running, Doing
<1>3. /\ Writes /\ HasDest /\ ~op.dst.exists /\ ~TreeCopy /\ op.req.kind \notin {"move", "mkdir"}
      /\ "VerifyDestParent" \notin op.todo /\ "MakeDirs" \notin op.todo /\ CanonicalPath(op.dst)
  <2>1. Writes /\ ~op.dst.exists /\ CanonicalPath(op.dst)
    BY <1>2 DEF CallInv, Plan
  <2>2. "VerifyDestParent" \notin op.todo /\ "MakeDirs" \notin op.todo
    BY <1>1, Earlier
  <2> QED
    BY <2>1, <2>2 DEF Writes, TreeCopy, HasDest
<1>4. op.effects \subseteq {"mkdir"}
  BY <1>1, ChecksAreEarly DEF Late
<1>5. Last(op.dst.tail) = Last(op.dst.path) /\ op.dst.path # <<>> /\ op.dst.path \in Seq(Names)
  BY <1>3, LastOfTail
<1>6. NewParent = Front(op.dst.path)
  BY <1>2, <1>3, ParentOfDest
<1>7. Stands(op.p2.node, Front(op.dst.path))
  BY <1>2, <1>3, <1>6 DEF CallInv, ParentHeld
<1> DEFINE slot == <<op.p2.node, Last(op.dst.tail)>>
<1>8. \/ \E result \in {"io_error", "changed"} : Stop(result)
      \/ /\ IsDir(op.p2.node) /\ At(slot) = None /\ Free # {}
         /\ Change("CreateDest", Make(SlotPath(slot), "file", "empty"), [op EXCEPT !.h2 = Handle(Fresh, slot)], "create")
  BY DEF CreateDest
<1>9. CASE \E result \in {"io_error", "changed"} : Stop(result)
  BY <1>4, <1>9, Stops
<1>10. ASSUME IsDir(op.p2.node), At(slot) = None, Free # {},
              Change("CreateDest", Make(SlotPath(slot), "file", "empty"), [op EXCEPT !.h2 = Handle(Fresh, slot)], "create")
       PROVE  BrokerInv'
  <2>1. PICK s, x : s = slot /\ x = Fresh
    OBVIOUS
  <2>2. PICK q, name, d, np : q = op.dst.path /\ name = Last(q) /\ d = op.p2.node /\ np = Front(q)
    OBVIOUS
  <2>3. q \in Seq(Names) /\ q # <<>> /\ name \in Names /\ q = Append(np, name) /\ s = <<d, name>> /\ Stands(d, np) /\ IsDir(d)
    BY <1>5, <1>7, <1>10, <2>1, <2>2, FrontIs
  <2>4. SlotOf(s, q, np)
    BY <1>2, <2>3, SlotIs
  <2>5. SlotPath(s) = q /\ q \notin Paths /\ Front(q) \in Paths /\ IsDir(fs.tree[Front(q)])
    BY <1>10, <2>1, <2>4 DEF SlotOf
  <2>6. PICK o : o = [op EXCEPT !.h2 = Handle(x, s)]
    OBVIOUS
  <2>7. Change("CreateDest", Make(q, "file", "empty"), o, "create")
    BY <1>10, <2>1, <2>5, <2>6
  <2>8. PICK o2 : o2 = [o EXCEPT !.effects = @ \cup {"create"}]
    OBVIOUS
  <2>9. fs' = Make(q, "file", "empty") /\ op' = Advance("CreateDest", o2) /\ moves' = moves
    BY <2>7, <2>8 DEF Change
  <2>10. /\ Shaped(o) /\ o.req = op.req /\ o.src = op.src /\ o.dst = op.dst /\ o.result = op.result /\ o.made = op.made
         /\ o.p2 = op.p2 /\ o.h1 = op.h1 /\ o.todo = op.todo /\ o.pending = op.pending /\ o.effects = op.effects
         /\ o.h2.node = x /\ o.h2.at = s
    BY <1>2, <2>6 DEF Shaped, Handle
  <2>11. /\ Shaped(o2) /\ o2.req = op.req /\ o2.src = op.src /\ o2.dst = op.dst /\ o2.result = op.result /\ o2.made = op.made
         /\ o2.p2 = op.p2 /\ o2.h1 = op.h1 /\ o2.todo = op.todo /\ o2.pending = op.pending
         /\ o2.h2.node = x /\ o2.h2.at = s
    BY <2>8, <2>10 DEF Shaped
  <2>12. /\ Shaped(op') /\ op'.req = op.req /\ op'.src = op.src /\ op'.dst = op.dst /\ op'.made = op.made
         /\ op'.p2 = op.p2 /\ op'.h1 = op.h1 /\ op'.h2.node = x /\ op'.h2.at = s
         /\ op.todo = {"CreateDest"} => op'.todo = {} /\ op'.result = "ok"
         /\ op.todo # {"CreateDest"} => op'.todo = op.todo \ {"CreateDest"} /\ op'.result = op.result /\ op'.pending = op.pending
    BY <2>9, <2>11, AdvanceIs
  <2>13. PICK kind, data : kind = "file" /\ data = "empty"
    OBVIOUS
  <2>14. kind \in Kinds /\ kind # "free" /\ data \in Contents \cup {None} /\ fs' = Make(q, kind, data)
    BY <2>9, <2>13 DEF Kinds, Contents
  <2>15. /\ FileSystem(fs)'
         /\ \A y, p : Stands(y, p) => Stands(y, p)'
         /\ \A y : y = Fresh => Stands(y, q)'
         /\ \A y, p : Stands(y, p) /\ IsDir(y) => fs'.kind[y] = "dir"
    BY <1>2, <1>10, <2>3, <2>5, <2>14, MadeHere
  <2>16. Stands(x, q)' /\ Stands(d, np)' /\ fs'.kind[d] = "dir"
    BY <2>1, <2>3, <2>15
  <2>17. (moves \in Nat)' /\ Shaped(op)'
    BY <1>2, <2>9, <2>12 DEF Shaped
  <2>18. CASE op.todo = {"CreateDest"}
    BY <2>12, <2>15, <2>17, <2>18 DEF BrokerInv, Running, RefusalIsClean
  <2>19. CASE op.todo # {"CreateDest"}
    <3>1. Plan'
      BY <1>1, <1>2, <2>12, <2>19, PlanKeeps DEF CallInv
    <3>2. (HasDest <=> HasDest') /\ (TreeCopy <=> TreeCopy') /\ (Writes <=> Writes') /\ (Identified <=> Identified')
      BY <2>12 DEF HasDest, TreeCopy, Writes, Identified
    <3>3. Missing' = Missing
      BY <2>12 DEF Missing
    <3>4. DirsMade'
      BY <1>2, <1>3, <2>12, <2>19, <3>2, <3>3 DEF CallInv, DirsMade
    <3>5. op'.h2.at = <<op'.p2.node, Last(op'.dst.path)>>
      BY <2>1, <2>2, <2>3, <2>12
    <3>6. HandlesRight'
      BY <1>2, <1>3, <2>12, <2>19, <3>2, <3>5 DEF CallInv, HandlesRight
    <3>7. op.todo \subseteq Late \cup {"CreateDest", "VerifyDest", "ReadDest"} /\ "ReadDest" \notin op.todo
      BY <1>1, <1>2, <1>3, LateSteps DEF CallInv, Plan
    <3>8. op'.todo \subseteq Late \cup {"VerifyDest"}
      BY <2>12, <2>19, <3>7
    <3>9. EffectsRight'
      BY <1>3, <2>12, <3>2, <3>8 DEF EffectsRight, Late
    <3>10. NewParent' = NewParent
      BY <2>12 DEF NewParent, DestParent
    <3>11. ParentHeld'
      BY <1>6, <2>2, <2>12, <2>16, <3>10 DEF ParentHeld, Stands, Paths, IsDir
    <3>12. NewHeld'
      BY <2>2, <2>12, <2>16 DEF NewHeld, Stands, Paths, IsDir
    <3>13. op'.pending \in Seq(Jobs) /\ DOMAIN op'.pending = {}
      <4>1. op'.pending = <<>>
        BY <1>2, <1>3, <2>12, <2>19 DEF CallInv, Plan
      <4> QED
        BY <4>1
    <3>14. FillingHeld'
      BY <3>13 DEF FillingHeld, Jobs
    <3>15. RefusalIsClean'
      BY <1>2, <2>12, <2>19 DEF RefusalIsClean, CallInv, Plan
    <3> QED
      BY <2>15, <2>17, <3>1, <3>4, <3>6, <3>9, <3>11, <3>12, <3>14, <3>15 DEF BrokerInv, CallInv
  <2> QED
    BY <2>18, <2>19
<1> HIDE DEF slot
<1> QED
  BY <1>8, <1>9, <1>10

LEMMA UnlinkKeeps ==
    ASSUME BrokerInv, Unlink
    PROVE  BrokerInv'
<1>1. Doing("Unlink")
  BY DEF Unlink
<1>2. CallInv /\ "Unlink" \in op.todo /\ FileSystem(fs) /\ Shaped(op) /\ moves \in Nat
  BY <1>1 DEF BrokerInv, Running, Doing
<1>3. op.req.kind = "delete" /\ op.src.exists /\ op.src.path # <<>> /\ CanonicalPath(op.src) /\ "CheckSource" \notin op.todo
  BY <1>1, <1>2, Earlier DEF CallInv, Plan
<1>4. op.h1.node = op.src.id /\ op.src.id # Root /\ op.src.id \in Nodes
  BY <1>2, <1>3 DEF CallInv, HandlesRight, Identified, CanonicalPath
<1>5. CASE Stop("io_error")
  BY <1>5, Stops
<1>6. CASE /\ NamesOf(op.h1.node) # {} /\ Children(op.h1.node) = {}
           /\ Change("Unlink", Erase(FinalPath(op.h1)), op, "unlink")
  <2>1. PICK p : p = FinalPath(op.h1)
    OBVIOUS
  <2>2. Stands(op.h1.node, p)
    BY <1>2, <1>6, <2>1, FinalPathIs
  <2>3. p \in Paths /\ fs.tree[p] = op.h1.node /\ p # <<>>
    BY <1>2, <1>4, <2>2, PathsTyped DEF Stands
  <2>4. fs' = Erase(p) /\ Children(fs.tree[p]) = {}
    BY <1>6, <2>1, <2>3 DEF Change
  <2>5. FileSystem(fs')
    BY <1>2, <2>3, <2>4, EraseKeeps
  <2>6. FileSystem(fs)'
    BY <2>5 DEF FileSystem, IsTree
  <2>7. ~HasDest /\ ~Writes /\ ~TreeCopy
    BY <1>3 DEF HasDest, Writes, TreeCopy
  <2>8. op'.req = op.req => ParentHeld' /\ NewHeld'
    BY <1>3 DEF ParentHeld, NewHeld, HasDest, Writes
  <2>9. "Unlink" \in Late
    BY DEF Late
  <2> QED
    BY <1>1, <1>6, <2>6, <2>7, <2>8, <2>9, Changed
<1> QED
  BY <1>5, <1>6 DEF Unlink

LEMMA DeleteTreeKeeps ==
    ASSUME BrokerInv, DeleteTree
    PROVE  BrokerInv'
<1>1. Doing("DeleteTree")
  BY DEF DeleteTree
<1>2. CallInv /\ "DeleteTree" \in op.todo /\ FileSystem(fs) /\ Shaped(op) /\ moves \in Nat
  BY <1>1 DEF BrokerInv, Running, Doing
<1>3. op.req.kind = "delete"
  BY <1>2 DEF CallInv, Plan
<1>4. CASE Continue("DeleteTree", op)
  <2>1. op' = Advance("DeleteTree", op) /\ fs' = fs
    BY <1>4 DEF Continue
  <2>2. op'.dst = op.dst /\ (op'.pending = op.pending \/ op'.pending = <<>>)
    BY <1>2, <2>1, AdvanceIs
  <2>3. FillingHeld'
    BY <1>2, <2>1, <2>2, FillingSame
  <2> QED
    BY <1>1, <1>2, <1>4, <2>3, Advances
<1>5. ASSUME NEW p \in Under(op.h1.node), Children(fs.tree[p]) = {}, fs' = Erase(p),
             op' = [op EXCEPT !.effects = @ \cup {"unlink"}], moves' = moves
      PROVE  BrokerInv'
  <2>1. p \in Paths /\ p # <<>>
    <3>1. PICK q \in Paths : IsStrictPrefix(q, p) /\ p \in Paths
      BY <1>5 DEF Under, NamesOf
    <3>2. q \in Seq(Names) /\ p \in Seq(Names) /\ IsPrefix(q, p) /\ q # p
      BY <1>2, <3>1, PathsTyped DEF IsStrictPrefix
    <3>3. Len(q) <= Len(p) /\ Len(q) \in Nat
      BY <3>2, PrefixComponents, LenProperties
    <3>4. ASSUME p = <<>> PROVE FALSE
      <4>1. Len(q) = 0
        BY <3>3, <3>4
      <4> QED
        BY <3>2, <3>4, <4>1, EmptySeq
    <3> QED
      BY <3>1, <3>4
  <2>2. FileSystem(fs')
    BY <1>2, <1>5, <2>1, EraseKeeps
  <2>3. FileSystem(fs)'
    BY <2>2 DEF FileSystem, IsTree
  <2>4. /\ op'.req = op.req /\ op'.src = op.src /\ op'.dst = op.dst /\ op'.result = op.result /\ op'.made = op.made
        /\ op'.h1 = op.h1 /\ op'.p2 = op.p2 /\ op'.h2 = op.h2 /\ op'.todo = op.todo /\ op'.pending = op.pending
        /\ Shaped(op')
    BY <1>2, <1>5 DEF Shaped
  <2>5. ~HasDest /\ ~Writes /\ ~TreeCopy /\ ~HasDest' /\ ~Writes'
    BY <1>3, <2>4 DEF HasDest, Writes, TreeCopy
  <2>6. "DeleteTree" \in Late
    BY DEF Late
  <2>7. Plan' /\ DirsMade' /\ HandlesRight' /\ EffectsRight'
    BY <1>1, <1>2, <2>4, <2>5, <2>6, LateKeeps
  <2>8. ParentHeld' /\ NewHeld'
    BY <2>5 DEF ParentHeld, NewHeld
  <2>9. FillingHeld'
    <3>1. op'.pending = <<>>
      BY <1>2, <2>4, <2>5 DEF CallInv, Plan
    <3>2. op'.pending \in Seq(Jobs) /\ DOMAIN op'.pending = {}
      BY <3>1
    <3> QED
      BY <3>2 DEF FillingHeld, Jobs
  <2>10. RefusalIsClean' /\ (moves \in Nat)' /\ Shaped(op)'
    BY <1>2, <1>5, <2>4 DEF CallInv, Plan, RefusalIsClean, Shaped
  <2> QED
    BY <2>3, <2>7, <2>8, <2>9, <2>10 DEF BrokerInv, CallInv
<1> QED
  BY <1>4, <1>5 DEF DeleteTree

\* Replacing what has the name q by what is at from.
LEMMA ReplaceKeeps ==
    ASSUME FileSystem(fs), NEW q \in Seq(Names), q # <<>>, NEW from \in Paths, from # <<>>, from # q,
           q \in Paths => ~IsDir(fs.tree[q]), Front(q) \in Paths, IsDir(fs.tree[Front(q)]), ~IsPrefix(from, q),
           NEW t, t = Without(fs.tree, q), NEW f, f = [fs EXCEPT !.tree = Moved(t, from, q)]
    PROVE  /\ FileSystem(f) /\ f.tree = Moved(t, from, q) /\ f.kind = fs.kind /\ f.data = fs.data
           /\ IsTree(t, fs.kind) /\ (\A r : r \in DOMAIN t <=> r \in Paths /\ r # q)
           /\ \A r \in DOMAIN t : t[r] = fs.tree[r]
<1>1. IsTree(fs.tree, fs.kind)
  BY DEF FileSystem
<1>2. \A r \in DOMAIN fs.tree : r # <<>> => Front(r) # q
  BY ParentIn DEF Paths
<1>3. IsTree(t, fs.kind) /\ (\A r : r \in DOMAIN t <=> r \in Paths /\ r # q) /\ \A r \in DOMAIN t : t[r] = fs.tree[r]
  <2>1. PICK tr, k : tr = fs.tree /\ k = fs.kind
    OBVIOUS
  <2>2. IsTree(tr, k) /\ \A r \in DOMAIN tr : r # <<>> => Front(r) # q
    BY <1>1, <1>2, <2>1
  <2>3. /\ IsTree(Without(tr, q), k)
        /\ DOMAIN Without(tr, q) = DOMAIN tr \ {q}
        /\ \A r \in DOMAIN tr \ {q} : Without(tr, q)[r] = tr[r]
    BY <2>2, WithoutTree
  <2>4. t = Without(tr, q)
    BY <2>1
  <2>5. IsTree(t, k) /\ DOMAIN t = DOMAIN tr \ {q} /\ \A r \in DOMAIN tr \ {q} : t[r] = tr[r]
    BY <2>3, <2>4
  <2> QED
    BY <2>1, <2>5 DEF Paths
<1>4. Front(q) # q
  <2>1. Len(Front(q)) = Len(q) - 1 /\ Len(q) \in Nat
    BY FrontIs, LenProperties
  <2> QED
    BY <2>1
<1>5. /\ from \in DOMAIN t /\ q \notin DOMAIN t /\ Front(q) \in DOMAIN t /\ fs.kind[t[Front(q)]] = "dir"
  BY <1>3, <1>4 DEF IsDir
<1>6. PICK u : u = Moved(t, from, q)
  OBVIOUS
<1>7. IsTree(u, fs.kind)
  BY <1>3, <1>5, <1>6, MovedTree
<1>8. f = [fs EXCEPT !.tree = u]
  BY <1>6
<1>9. fs = [tree |-> fs.tree, kind |-> fs.kind, target |-> fs.target, data |-> fs.data]
  BY DEF FileSystem
<1>10. f.tree = u /\ f.kind = fs.kind /\ f.target = fs.target /\ f.data = fs.data
       /\ f = [tree |-> f.tree, kind |-> f.kind, target |-> f.target, data |-> f.data]
  BY <1>8, <1>9
<1>11. FileSystem(f)
  BY <1>7, <1>10 DEF FileSystem
<1> QED
  BY <1>3, <1>6, <1>10, <1>11

\* What Rename moves, and to where.
LEMMA RenameIs ==
    ASSUME BrokerInv, Doing("Rename"), IsDir(op.p2.node), NamesOf(op.h1.node) # {}, ~Below(op.p2.node, op.h1.node),
           NEW slot, slot = <<op.p2.node, Last(op.dst.path)>>,
           At(slot) = None \/ (~IsDir(At(slot)) /\ At(slot) # op.h1.node),
           NEW from, from = FinalPath(op.h1), NEW q, q = op.dst.path
    PROVE  /\ SlotPath(slot) = q /\ q \in Seq(Names) /\ q # <<>> /\ from \in Paths /\ from # <<>> /\ from # q
           /\ q \in Paths => ~IsDir(fs.tree[q])
           /\ Front(q) \in Paths /\ IsDir(fs.tree[Front(q)]) /\ ~IsPrefix(from, q)
           /\ fs.tree[from] = op.h1.node /\ op.h1.node = op.src.id /\ op.req.kind = "move"
<1>1. CallInv /\ "Rename" \in op.todo /\ FileSystem(fs)
  BY DEF BrokerInv, Running, Doing
<1>2. /\ op.req.kind = "move" /\ op.src.exists /\ op.src.path # <<>> /\ CanonicalPath(op.src)
      /\ "CheckSource" \notin op.todo /\ "VerifyDestParent" \notin op.todo /\ "MakeDirs" \notin op.todo
  BY <1>1, Earlier DEF CallInv, Plan
<1>3. HasDest /\ ~TreeCopy /\ Identified
  BY <1>2 DEF HasDest, TreeCopy, Identified
<1>4. op.h1.node = op.src.id /\ op.src.id # Root
  BY <1>1, <1>2, <1>3 DEF CallInv, HandlesRight, CanonicalPath
<1>5. NewParent = Front(q) /\ q \in Seq(Names) /\ q # <<>>
  BY <1>1, <1>2, <1>3, ParentOfDest
<1>6. Stands(op.p2.node, Front(q))
  BY <1>1, <1>2, <1>3, <1>5 DEF CallInv, ParentHeld
<1>7. PICK name, d, np : name = Last(q) /\ d = op.p2.node /\ np = Front(q)
  OBVIOUS
<1>8. np \in Seq(Names) /\ name \in Names /\ q = Append(np, name) /\ slot = <<d, name>> /\ Stands(d, np) /\ IsDir(d)
      /\ Len(np) = Len(q) - 1 /\ Len(q) \in Nat
  BY <1>5, <1>6, <1>7, FrontIs, LenProperties
<1>9. SlotOf(slot, q, np)
  BY <1>1, <1>8, SlotIs
<1>10. /\ SlotPath(slot) = q /\ np \in Paths /\ IsDir(fs.tree[np])
       /\ (At(slot) = None) <=> q \notin Paths
       /\ At(slot) # None => Stands(At(slot), q)
  BY <1>7, <1>9 DEF SlotOf
<1>11. from \in Paths /\ fs.tree[from] = op.h1.node
  BY <1>1, FinalPathIs DEF Stands
<1>12. from # <<>> /\ from \in Seq(Names)
  BY <1>1, <1>4, <1>11, PathsTyped
<1>13. q \in Paths => ~IsDir(fs.tree[q]) /\ fs.tree[q] # op.h1.node
  BY <1>10 DEF Stands
<1>14. from # q
  BY <1>11, <1>13
<1>15. ~IsPrefix(from, q)
  <2>1. SUFFICES ASSUME IsPrefix(from, q)
                 PROVE  FALSE
    OBVIOUS
  <2>2. Len(from) <= Len(q) /\ (\A i \in 1 .. Len(from) : from[i] = q[i]) /\ Len(from) \in Nat
    BY <1>5, <1>12, <2>1, PrefixComponents, LenProperties
  <2>3. Len(from) # Len(q)
    BY <1>5, <1>12, <1>14, <2>2, SamePath
  <2>4. Len(from) <= Len(np) /\ Len(np) \in 0 .. Len(q)
    BY <1>8, <2>2, <2>3
  <2>5. \A i \in 1 .. Len(np) : np[i] = q[i]
    <3>1. PICK n : n = Len(q) - 1
      OBVIOUS
    <3>2. n \in 0 .. Len(q) /\ np = First(q, n)
      BY <1>5, <1>7, <3>1, FrontIs
    <3>3. Len(First(q, n)) = n /\ \A i \in 1 .. n : First(q, n)[i] = q[i]
      BY <1>5, <3>2, FirstIs
    <3> QED
      BY <3>2, <3>3
  <2>6. \A i \in 1 .. Len(from) : from[i] = np[i]
    BY <2>2, <2>4, <2>5
  <2>7. IsPrefix(from, np)
    BY <1>8, <1>12, <2>4, <2>6, PrefixComponents
  <2>8. CASE from = np
    BY <1>7, <1>8, <1>11, <2>8 DEF Stands, Below
  <2>9. CASE from # np
    <3>1. IsStrictPrefix(from, np)
      BY <2>7, <2>9 DEF IsStrictPrefix
    <3>2. np \in NamesOf(d) /\ np \in Under(op.h1.node)
      BY <1>8, <1>11, <3>1 DEF Stands, NamesOf, Under
    <3> QED
      BY <1>7, <3>2 DEF Below
  <2> QED
    BY <2>8, <2>9
<1> QED
  BY <1>2, <1>4, <1>5, <1>7, <1>10, <1>11, <1>12, <1>13, <1>14, <1>15

LEMMA RenameKeeps ==
    ASSUME BrokerInv, Rename
    PROVE  BrokerInv'
<1>1. Doing("Rename")
  BY DEF Rename
<1>2. CallInv /\ "Rename" \in op.todo /\ FileSystem(fs)
  BY <1>1 DEF BrokerInv, Running, Doing
<1>3. CASE Stop("io_error")
  BY <1>3, Stops
<1> DEFINE slot == <<op.p2.node, Last(op.dst.path)>>
<1>4. ASSUME IsDir(op.p2.node), NamesOf(op.h1.node) # {}, ~Below(op.p2.node, op.h1.node),
             At(slot) = None \/ (~IsDir(At(slot)) /\ At(slot) # op.h1.node),
             Change("Rename", [fs EXCEPT !.tree = Moved(Without(@, SlotPath(slot)), FinalPath(op.h1), SlotPath(slot))], op, "rename")
      PROVE  BrokerInv'
  <2>1. PICK s, from, q : s = slot /\ from = FinalPath(op.h1) /\ q = op.dst.path
    OBVIOUS
  <2>2. /\ SlotPath(s) = q /\ q \in Seq(Names) /\ q # <<>> /\ from \in Paths /\ from # <<>> /\ from # q
        /\ q \in Paths => ~IsDir(fs.tree[q])
        /\ Front(q) \in Paths /\ IsDir(fs.tree[Front(q)]) /\ ~IsPrefix(from, q)
        /\ op.req.kind = "move"
    BY <1>1, <1>4, <2>1, RenameIs
  <2>3. PICK t : t = Without(fs.tree, q)
    OBVIOUS
  <2>4. fs' = [fs EXCEPT !.tree = Moved(t, from, q)]
    BY <1>4, <2>1, <2>2, <2>3 DEF Change
  <2>5. FileSystem(fs')
    BY <1>2, <2>2, <2>3, <2>4, ReplaceKeeps
  <2>6. FileSystem(fs)'
    BY <2>5 DEF FileSystem, IsTree
  <2>7. ~Writes /\ ~TreeCopy /\ "Rename" \in Late
    BY <2>2 DEF Writes, TreeCopy, Late
  <2>8. op'.req = op.req /\ op'.todo = op.todo \ {"Rename"} => ParentHeld' /\ NewHeld'
    BY <2>2 DEF ParentHeld, NewHeld, Writes
  <2> HIDE DEF slot
  <2> QED
    BY <1>1, <1>4, <2>6, <2>7, <2>8, Changed
<1>5. Stop("io_error") \/
      (/\ IsDir(op.p2.node) /\ NamesOf(op.h1.node) # {} /\ ~Below(op.p2.node, op.h1.node)
       /\ At(slot) = None \/ (~IsDir(At(slot)) /\ At(slot) # op.h1.node)
       /\ Change("Rename", [fs EXCEPT !.tree = Moved(Without(@, SlotPath(slot)), FinalPath(op.h1), SlotPath(slot))], op, "rename"))
  BY DEF Rename
<1> HIDE DEF slot
<1> QED
  BY <1>3, <1>4, <1>5

\* A list of jobs without its first, with others put before it.
LEMMA JobsLeft ==
    ASSUME NEW jobs \in Seq(Jobs), jobs # <<>>, NEW more \in Seq(Jobs), NEW left, Joined(more, Tail(jobs), left)
    PROVE  /\ left \in Seq(Jobs) /\ Head(jobs) \in Jobs /\ 1 \in DOMAIN jobs /\ Head(jobs) = jobs[1]
           /\ \A i \in DOMAIN left : (\E k \in DOMAIN more : left[i] = more[k]) \/ (\E k \in DOMAIN jobs : left[i] = jobs[k])
<1>1. PICK rest : rest = Tail(jobs)
  OBVIOUS
<1>2. /\ rest \in Seq(Jobs) /\ Len(rest) = Len(jobs) - 1 /\ \A k \in 1 .. Len(rest) : rest[k] = jobs[k + 1]
      /\ Len(jobs) \in Nat /\ Len(jobs) > 0
  BY <1>1, HeadTailProperties, LenProperties, EmptySeq
<1>3. left = more \o rest
  BY <1>1 DEF Joined
<1>4. /\ left \in Seq(Jobs) /\ Len(left) = Len(more) + Len(rest) /\ Len(more) \in Nat /\ Len(rest) \in Nat
      /\ \A i \in 1 .. Len(more) + Len(rest) : left[i] = IF i <= Len(more) THEN more[i] ELSE rest[i - Len(more)]
  BY <1>2, <1>3, ConcatProperties, LenProperties
<1>5. DOMAIN left = 1 .. Len(left) /\ DOMAIN more = 1 .. Len(more) /\ DOMAIN jobs = 1 .. Len(jobs)
  BY <1>2, <1>4, LenProperties
<1>6. ASSUME NEW i \in DOMAIN left
      PROVE  (\E k \in DOMAIN more : left[i] = more[k]) \/ (\E k \in DOMAIN jobs : left[i] = jobs[k])
  <2>1. i \in 1 .. Len(more) + Len(rest)
    BY <1>4, <1>5, <1>6
  <2>2. CASE i <= Len(more)
    <3>1. i \in DOMAIN more /\ left[i] = more[i]
      BY <1>4, <1>5, <2>1, <2>2
    <3> QED
      BY <3>1
  <2>3. CASE ~(i <= Len(more))
    <3>1. PICK k : k = i - Len(more)
      OBVIOUS
    <3>2. k \in 1 .. Len(rest) /\ left[i] = rest[k] /\ k + 1 \in 1 .. Len(jobs)
      <4>1. \A m, r, l, j : m \in Nat /\ r \in Nat /\ l \in Nat /\ r = l - 1 /\ j \in 1 .. m + r /\ ~(j <= m) =>
                j - m \in 1 .. r /\ (j - m) + 1 \in 1 .. l
        OBVIOUS
      <4>2. i - Len(more) \in 1 .. Len(rest) /\ (i - Len(more)) + 1 \in 1 .. Len(jobs)
        BY <1>2, <1>4, <2>1, <2>3, <4>1
      <4>3. left[i] = rest[i - Len(more)]
        BY <1>4, <2>1, <2>3
      <4> QED
        BY <3>1, <4>2, <4>3
    <3>3. left[i] = jobs[k + 1] /\ k + 1 \in DOMAIN jobs
      BY <1>2, <1>5, <3>2
    <3> QED
      BY <3>3
  <2> QED
    BY <2>2, <2>3
<1>7. Head(jobs) = jobs[1] /\ 1 \in DOMAIN jobs /\ jobs[1] \in Jobs
  BY <1>2, <1>5, HeadTailProperties
<1> QED
  BY <1>4, <1>6, <1>7

LEMMA SameParent ==
    ASSUME op'.dst = op.dst, op'.made = op.made
    PROVE  NewParent' = NewParent
BY DEF NewParent, DestParent

\* What the copying of a tree keeps whatever it does with the next entry.
LEMMA CopyGoesOn ==
    ASSUME BrokerInv, Doing("CopyTree"), op.pending # <<>>, NEW more \in Seq(Jobs), NEW effects,
           effects \subseteq op.effects \cup {"create"},
           op' = [op EXCEPT !.pending = more \o Tail(@), !.effects = effects], moves' = moves,
           FileSystem(fs)', \A x, p : Stands(x, p) => Stands(x, p)',
           \A x, p : Stands(x, p) /\ IsDir(x) => fs'.kind[x] = "dir",
           \A k \in DOMAIN more : fs'.kind[more[k].to] = "dir" /\ \E p : Stands(more[k].to, p)' /\ IsPrefix(op.dst.path, p)
    PROVE  BrokerInv'
<1>1. CallInv /\ "CopyTree" \in op.todo /\ FileSystem(fs) /\ Shaped(op) /\ moves \in Nat
  BY DEF BrokerInv, Running, Doing
<1>2. TreeCopy /\ ~op.dst.exists /\ HasDest /\ ~Writes /\ op.effects \subseteq {"mkdir", "create"}
  BY <1>1 DEF CallInv, Plan, EffectsRight, TreeCopy, HasDest, Writes
<1>3. PICK left : left = more \o Tail(op.pending)
  OBVIOUS
<1>4. op' = [op EXCEPT !.pending = left, !.effects = effects]
  BY <1>3
<1>5. /\ op'.req = op.req /\ op'.src = op.src /\ op'.dst = op.dst /\ op'.result = op.result /\ op'.made = op.made
      /\ op'.h1 = op.h1 /\ op'.p2 = op.p2 /\ op'.h2 = op.h2 /\ op'.todo = op.todo /\ op'.pending = left
      /\ op'.effects = effects /\ Shaped(op')
  BY <1>1, <1>4, ZenonT(30) DEF Shaped
<1>6. "CopyTree" \in Late
  BY DEF Late
<1>7. Plan' /\ DirsMade' /\ HandlesRight' /\ EffectsRight'
  BY <1>1, <1>2, <1>5, <1>6, LateKeeps
<1>16. op'.dst = op.dst /\ op'.made = op.made
  BY <1>5
<1>8. NewParent' = NewParent
  BY <1>16, SameParent
<1>9. ParentHeld'
  <2>1. PICK d, np : d = op.p2.node /\ np = NewParent
    OBVIOUS
  <2>2. "VerifyDestParent" \notin op.todo => Stands(d, np) /\ (op.made > 0 => IsDir(d))
    BY <1>1, <1>2, <2>1 DEF CallInv, ParentHeld, TreeCopy
  <2>3. "VerifyDestParent" \notin op.todo => Stands(d, np)' /\ (op.made > 0 => fs'.kind[d] = "dir")
    BY <2>2
  <2> QED
    BY <1>5, <1>8, <2>1, <2>3 DEF ParentHeld, Stands, Paths, IsDir
<1>10. NewHeld'
  BY <1>2, <1>5 DEF NewHeld, Writes, TreeCopy
<1>11. op.pending \in Seq(Jobs) /\ \A i \in DOMAIN op.pending :
           IsDir(op.pending[i].to) /\ \E p \in Paths : Stands(op.pending[i].to, p) /\ IsPrefix(op.dst.path, p)
  BY <1>1 DEF CallInv, FillingHeld
<1>12. /\ left \in Seq(Jobs)
       /\ \A i \in DOMAIN left : (\E k \in DOMAIN more : left[i] = more[k]) \/ (\E k \in DOMAIN op.pending : left[i] = op.pending[k])
  <2>1. PICK jobs, rest : jobs = op.pending /\ rest = Tail(jobs)
    OBVIOUS
  <2>2. jobs \in Seq(Jobs) /\ jobs # <<>> /\ Joined(more, Tail(jobs), left)
    BY <1>3, <1>11, <2>1 DEF Joined
  <2>3. /\ left \in Seq(Jobs)
        /\ \A i \in DOMAIN left : (\E k \in DOMAIN more : left[i] = more[k]) \/ (\E k \in DOMAIN jobs : left[i] = jobs[k])
    BY <2>2, JobsLeft
  <2> QED
    BY <2>1, <2>3
<1>13. ASSUME NEW i \in DOMAIN left
       PROVE  fs'.kind[left[i].to] = "dir" /\ \E p : Stands(left[i].to, p)' /\ IsPrefix(op.dst.path, p)
  <2>1. CASE \E k \in DOMAIN more : left[i] = more[k]
    BY <2>1
  <2>2. CASE \E k \in DOMAIN op.pending : left[i] = op.pending[k]
    <3>1. PICK k \in DOMAIN op.pending : left[i] = op.pending[k]
      BY <2>2
    <3>2. PICK d : d = left[i].to
      OBVIOUS
    <3>3. PICK p : Stands(d, p) /\ IsPrefix(op.dst.path, p) /\ IsDir(d)
      BY <1>11, <3>1, <3>2
    <3> QED
      BY <3>2, <3>3
  <2> QED
    BY <1>12, <1>13, <2>1, <2>2
<1>14. FillingHeld'
  BY <1>5, <1>12, <1>13, ZenonT(30) DEF FillingHeld, Jobs, Stands, Paths, IsDir
<1>15. RefusalIsClean' /\ (moves \in Nat)' /\ Shaped(op)'
  BY <1>1, <1>5 DEF CallInv, Plan, RefusalIsClean, Shaped
<1> QED
  BY <1>7, <1>9, <1>10, <1>14, <1>15 DEF BrokerInv, CallInv

\* The next entry of the tree.
LEMMA NextJob ==
    ASSUME BrokerInv, Doing("CopyTree"), op.pending # <<>>, NEW e, e = Head(op.pending), NEW slot, slot = <<e.to, e.name>>
    PROVE  /\ e \in Jobs
           /\ \E q, p : SlotOf(slot, q, p) /\ IsPrefix(op.dst.path, q)
           /\ \A s : At(s) # None => At(s) \in Nodes
<1>1. CallInv /\ FileSystem(fs)
  BY DEF BrokerInv, Running, Doing
<1>2. op.pending \in Seq(Jobs) /\ \A i \in DOMAIN op.pending :
           IsDir(op.pending[i].to) /\ \E p \in Paths : Stands(op.pending[i].to, p) /\ IsPrefix(op.dst.path, p)
  BY <1>1 DEF CallInv, FillingHeld
<1>5. e \in Jobs /\ 1 \in DOMAIN op.pending /\ e = op.pending[1]
  <2>1. PICK jobs, none : jobs = op.pending /\ none = <<>>
    OBVIOUS
  <2>2. jobs \in Seq(Jobs) /\ jobs # <<>> /\ none \in Seq(Jobs) /\ e = Head(jobs)
    BY <1>2, <2>1
  <2>3. PICK left : Joined(none, Tail(jobs), left)
    BY DEF Joined
  <2>4. Head(jobs) \in Jobs /\ 1 \in DOMAIN jobs /\ Head(jobs) = jobs[1]
    BY <2>2, <2>3, JobsLeft
  <2> QED
    BY <2>1, <2>2, <2>4
<1>6. PICK d, name : d = e.to /\ name = e.name
  OBVIOUS
<1>7. name \in Names /\ slot = <<d, name>> /\ IsDir(d)
  BY <1>2, <1>5, <1>6 DEF Jobs
<1>8. PICK p \in Paths : Stands(d, p) /\ IsPrefix(op.dst.path, p)
  BY <1>2, <1>5, <1>6
<1>9. PICK q : q = Append(p, name)
  OBVIOUS
<1>10. SlotOf(slot, q, p)
  BY <1>1, <1>7, <1>8, <1>9, SlotIs
<1>11. IsPrefix(op.dst.path, q)
  <2>1. p \in Seq(Names) /\ q \in Seq(Names) /\ Len(q) = Len(p) + 1 /\ Len(p) \in Nat
    BY <1>1, <1>7, <1>8, <1>9, PathsTyped, AppendIs, LenProperties
  <2>2. First(q, Len(p)) = First(p, Len(p)) /\ First(p, Len(p)) = p /\ Len(p) \in 0 .. Len(q)
    <3>1. Len(p) \in 0 .. Len(p) /\ Len(p) \in 0 .. Len(q)
      BY <2>1
    <3>2. \A n \in 0 .. Len(p) : First(Append(p, name), n) = First(p, n)
      BY <1>7, <2>1, AppendIs
    <3> QED
      BY <1>9, <2>1, <3>1, <3>2, FirstAll
  <2>3. IsPrefix(p, q)
    BY <2>1, <2>2, FirstIsPrefix
  <2>4. op.dst.path \in Seq(Names)
    <3>1. HasDest
      BY <1>1 DEF CallInv, Plan, TreeCopy, HasDest, Doing
    <3> QED
      BY <1>1, <3>1, NewParentIs
  <2> QED
    BY <1>8, <2>1, <2>3, <2>4, PrefixTrans
<1>12. \A s : At(s) # None => At(s) \in Nodes
  BY <1>1, PathsTyped DEF At
<1> QED
  BY <1>5, <1>10, <1>11, <1>12

LEMMA MadeIn ==
    ASSUME FileSystem(fs), Free # {}, NEW slot, NEW q, NEW p, SlotOf(slot, q, p), At(slot) = None,
           NEW kind \in {"dir", "file"}, NEW data \in Contents \cup {None}, fs' = Make(SlotPath(slot), kind, data)
    PROVE  /\ FileSystem(fs)'
           /\ \A x, r : Stands(x, r) => Stands(x, r)'
           /\ \A y : y = Fresh => Stands(y, q)' /\ fs'.kind[y] = kind
           /\ \A x, r : Stands(x, r) /\ IsDir(x) => fs'.kind[x] = "dir"
<1>1. /\ q \in Seq(Names) /\ q # <<>> /\ q \notin Paths /\ Front(q) \in Paths /\ IsDir(fs.tree[Front(q)])
      /\ SlotPath(slot) = q
  BY DEF SlotOf
<1>2. kind \in Kinds /\ kind # "free" /\ fs' = Make(q, kind, data)
  BY <1>1 DEF Kinds
<1> QED
  BY <1>1, <1>2, MadeHere

\* An entry is copied: a directory, whose entries follow, or a file.
LEMMA CopyMakes ==
    ASSUME BrokerInv, Doing("CopyTree"), op.pending # <<>>, NEW e, e = Head(op.pending), NEW slot, slot = <<e.to, e.name>>,
           At(slot) = None, Free # {}, NEW kind \in {"dir", "file"}, NEW data \in Contents \cup {None},
           fs' = Make(SlotPath(slot), kind, data), NEW more \in Seq(Jobs),
           \A k \in DOMAIN more : kind = "dir" /\ more[k].to = Fresh,
           op' = [op EXCEPT !.pending = more \o Tail(@), !.effects = @ \cup {"create"}], moves' = moves
    PROVE  BrokerInv'
<1>1. FileSystem(fs)
  BY DEF BrokerInv
<1>2. PICK q, p : SlotOf(slot, q, p) /\ IsPrefix(op.dst.path, q)
  BY NextJob
<1>5. /\ FileSystem(fs)'
      /\ \A x, r : Stands(x, r) => Stands(x, r)'
      /\ \A y : y = Fresh => Stands(y, q)' /\ fs'.kind[y] = kind
      /\ \A x, r : Stands(x, r) /\ IsDir(x) => fs'.kind[x] = "dir"
  BY <1>1, <1>2, MadeIn
<1>6. PICK effects : effects = op.effects \cup {"create"}
  OBVIOUS
<1>7. op' = [op EXCEPT !.pending = more \o Tail(@), !.effects = effects] /\ effects \subseteq op.effects \cup {"create"}
  BY <1>6
<1>8. \A k \in DOMAIN more : fs'.kind[more[k].to] = "dir" /\ \E r : Stands(more[k].to, r)' /\ IsPrefix(op.dst.path, r)
  <2>1. TAKE k \in DOMAIN more
  <2>2. PICK y : y = more[k].to
    OBVIOUS
  <2>3. y = Fresh /\ kind = "dir"
    BY <2>2
  <2>4. fs'.kind[y] = "dir" /\ Stands(y, q)'
    BY <1>5, <2>3
  <2> QED
    BY <1>2, <2>2, <2>4
<1> QED
  BY <1>5, <1>7, <1>8, CopyGoesOn

\* A link is passed over.
LEMMA CopyPasses ==
    ASSUME BrokerInv, Doing("CopyTree"), op.pending # <<>>, op' = [op EXCEPT !.pending = Tail(@)], fs' = fs, moves' = moves
    PROVE  BrokerInv'
<1>1. CallInv /\ FileSystem(fs) /\ Shaped(op)
  BY DEF BrokerInv, Running, Doing
<1>2. PICK more, effects : more = <<>> /\ effects = op.effects
  OBVIOUS
<1>3. more \in Seq(Jobs) /\ DOMAIN more = {} /\ effects \subseteq op.effects \cup {"create"}
  BY <1>2
<1>4. PICK left : left = more \o Tail(op.pending)
  OBVIOUS
<1>5. left = Tail(op.pending)
  <2>1. op.pending \in Seq(Jobs)
    BY <1>1 DEF CallInv, FillingHeld
  <2>2. Tail(op.pending) \in Seq(Jobs)
    BY <2>1, HeadTailProperties
  <2> QED
    BY <1>2, <1>4, <2>2, ConcatEmptySeq
<1>6. op' = [op EXCEPT !.pending = left, !.effects = effects]
  BY <1>1, <1>2, <1>5 DEF Shaped
<1>7. op' = [op EXCEPT !.pending = more \o Tail(@), !.effects = effects]
  BY <1>4, <1>6
<1>8. FileSystem(fs)' /\ \A x, p : Stands(x, p) => Stands(x, p)'
  BY <1>1 DEF FileSystem, IsTree, Stands, Paths
<1>9. \A x, p : Stands(x, p) /\ IsDir(x) => fs'.kind[x] = "dir"
  BY DEF IsDir
<1> QED
  BY <1>3, <1>7, <1>8, <1>9, CopyGoesOn

LEMMA CopyTreeKeeps ==
    ASSUME BrokerInv, CopyTree
    PROVE  BrokerInv'
<1>1. Doing("CopyTree")
  BY DEF CopyTree
<1>2. CallInv /\ "CopyTree" \in op.todo /\ FileSystem(fs) /\ Shaped(op)
  BY <1>1 DEF BrokerInv, Running, Doing
<1>3. TreeCopy /\ op.req.kind = "copy" /\ op.effects \subseteq {"mkdir", "create"}
  BY <1>2 DEF CallInv, Plan, EffectsRight, TreeCopy
<1>4. CASE Continue("CopyTree", op)
  <2>1. op' = Advance("CopyTree", op) /\ fs' = fs
    BY <1>4 DEF Continue
  <2>2. op'.dst = op.dst /\ (op'.pending = op.pending \/ op'.pending = <<>>)
    BY <1>2, <2>1, AdvanceIs
  <2>3. FillingHeld'
    BY <1>2, <2>1, <2>2, FillingSame
  <2> QED
    BY <1>1, <1>2, <1>4, <2>3, Advances
<1>5. CASE \E result \in {"io_error", "denied"} : Stop(result)
  BY <1>3, <1>5, Stops
<1>6. CASE op.pending # <<>> /\ ~(\E result \in {"io_error", "denied"} : Stop(result))
  <2>1. PICK e, slot, x : e = Head(op.pending) /\ slot = <<e.to, e.name>> /\ x = At(<<e.from, e.name>>)
    OBVIOUS
  <2>2. e \in Jobs /\ (x # None => x \in Nodes)
    BY <1>1, <1>6, <2>1, NextJob
  <2> DEFINE Copied(kind, data, more) ==
                 /\ At(slot) = None /\ Free # {}
                 /\ fs' = Make(SlotPath(slot), kind, data)
                 /\ op' = [op EXCEPT !.pending = more \o Tail(@), !.effects = @ \cup {"create"}]
                 /\ UNCHANGED moves
  <2>3. /\ x # None
        /\ \/ op' = [op EXCEPT !.pending = Tail(@)] /\ UNCHANGED <<fs, moves>>
           \/ Copied("dir", None, Entries(x, Fresh, e.path))
           \/ Copied("file", fs.data[x], <<>>)
    BY <1>6, <2>1 DEF CopyTree
  <2>4. CASE op' = [op EXCEPT !.pending = Tail(@)] /\ UNCHANGED <<fs, moves>>
    BY <1>1, <1>6, <2>4, CopyPasses
  <2>5. ASSUME NEW kind \in {"dir", "file"}, NEW data \in Contents \cup {None}, NEW more \in Seq(Jobs),
               \A k \in DOMAIN more : kind = "dir" /\ more[k].to = Fresh, Copied(kind, data, more)
        PROVE  BrokerInv'
    BY <1>1, <1>6, <2>1, <2>5, CopyMakes
  <2>6. CASE Copied("dir", None, Entries(x, Fresh, e.path))
    <3>1. PICK more, y, path : more = Entries(x, y, path) /\ y = Fresh /\ path = e.path
      OBVIOUS
    <3>2. y \in Nodes /\ x \in Nodes /\ path \in Seq(Names)
      BY <1>2, <2>2, <2>3, <2>6, <3>1, FreshIs DEF Jobs
    <3>3. more \in Seq(Jobs) /\ \A i \in DOMAIN more : more[i].to = y
      BY <1>2, <3>1, <3>2, EntriesAre
    <3>4. Copied("dir", None, more)
      BY <2>6, <3>1
    <3> HIDE DEF Copied
    <3> QED
      BY <2>5, <3>1, <3>3, <3>4
  <2>7. CASE Copied("file", fs.data[x], <<>>)
    <3>1. PICK data, more : data = fs.data[x] /\ more = <<>>
      OBVIOUS
    <3>2. data \in Contents \cup {None} /\ more \in Seq(Jobs) /\ DOMAIN more = {}
      BY <1>2, <2>2, <2>3, <3>1 DEF FileSystem
    <3>3. Copied("file", data, more)
      BY <2>7, <3>1
    <3> HIDE DEF Copied
    <3> QED
      BY <2>5, <3>2, <3>3
  <2> HIDE DEF Copied
  <2> QED
    BY <2>3, <2>4, <2>6, <2>7
<1>7. Continue("CopyTree", op) \/ op.pending # <<>>
  BY DEF CopyTree
<1> QED
  BY <1>4, <1>5, <1>6, <1>7

LEMMA StepKeeps ==
    ASSUME BrokerInv, Step
    PROVE  BrokerInv'
<1>1. Opens \/ Checks \/ Looks \/ Fills \/ MakeDirs \/ CreateDest \/ Unlink \/ DeleteTree \/ Rename \/ CopyTree
  BY DEF Step, Opens, Checks, Looks, Fills
<1> QED
  BY <1>1, OpensKeep, ChecksKeep, LooksKeep, FillsKeep, MakeDirsKeeps, CreateDestKeeps, UnlinkKeeps,
     DeleteTreeKeeps, RenameKeeps, CopyTreeKeeps

-----------------------------------------------------------------------------
\* Other programs

\* What the call's handles hold in its place.
Held == IF Running THEN {op.p2.node, op.h2.node} \cup Filling ELSE {}

\* Other programs keep the invariant if they leave those objects in place.
LEMMA HeldStays ==
    ASSUME BrokerInv, op' = op, moves' = moves + 1, FileSystem(fs)',
           \A x \in Held : \A p : Stands(x, p) => Stands(x, p)',
           \A x, p : Stands(x, p) => fs'.kind[x] = fs.kind[x]
    PROVE  BrokerInv'
<1>1. Shaped(op)' /\ (moves \in Nat)' /\ RefusalIsClean'
  BY DEF BrokerInv, Shaped, RefusalIsClean
<1>2. ASSUME Running
      PROVE  CallInv'
  <2>1. CallInv
    BY <1>2 DEF BrokerInv
  <2>2. (HasDest <=> HasDest') /\ (TreeCopy <=> TreeCopy') /\ (Writes <=> Writes') /\ (Identified <=> Identified')
    BY DEF HasDest, TreeCopy, Writes, Identified
  <2>3. Missing' = Missing /\ NewParent' = NewParent
    BY SameParent DEF Missing
  <2>4. (CanonicalPath(op.src) <=> CanonicalPath(op.src)') /\ (CanonicalPath(op.dst) <=> CanonicalPath(op.dst)')
    BY DEF CanonicalPath, Joined
  <2>5. Plan'
    BY <2>1, <2>2, <2>4 DEF CallInv, Plan
  <2>6. DirsMade' /\ HandlesRight' /\ EffectsRight'
    BY <2>1, <2>2, <2>3 DEF CallInv, DirsMade, HandlesRight, EffectsRight
  <2>7. PICK p2, h2, np, dp : p2 = op.p2.node /\ h2 = op.h2.node /\ np = NewParent /\ dp = op.dst.path
    OBVIOUS
  <2>8. p2 \in Held /\ h2 \in Held /\ Filling \subseteq Held
    BY <1>2, <2>7 DEF Held
  <2>9. ParentHeld'
    <3>1. HasDest /\ "VerifyDestParent" \notin op.todo /\ (op.req.kind = "move" => "Rename" \in op.todo) =>
              Stands(p2, np) /\ (op.made > 0 => IsDir(p2))
      BY <2>1, <2>7 DEF CallInv, ParentHeld
    <3>2. HasDest /\ "VerifyDestParent" \notin op.todo /\ (op.req.kind = "move" => "Rename" \in op.todo) =>
              Stands(p2, np)' /\ (op.made > 0 => fs'.kind[p2] = "dir")
      BY <2>8, <3>1 DEF IsDir
    <3> QED
      BY <2>2, <2>3, <2>7, <3>2 DEF ParentHeld, Stands, Paths, IsDir
  <2>10. NewHeld'
    <3>1. Writes /\ ~op.dst.exists /\ "CreateDest" \notin op.todo => Stands(h2, dp) /\ IsDir(p2)
      BY <2>1, <2>7 DEF CallInv, NewHeld
    <3>2. Writes /\ ~op.dst.exists /\ "CreateDest" \notin op.todo => \E p : Stands(p2, p)
      <4>1. ASSUME Writes, ~op.dst.exists, "CreateDest" \notin op.todo
            PROVE  Stands(p2, np)
        <5>1. HasDest /\ op.req.kind # "move"
          BY <4>1 DEF Writes, HasDest
        <5>2. "MakeDirs" \notin op.todo /\ "VerifyDestParent" \notin op.todo
          BY <2>1, <4>1 DEF CallInv, Plan
        <5> QED
          BY <2>1, <2>7, <5>1, <5>2 DEF CallInv, ParentHeld
      <4> QED
        BY <4>1
    <3>3. Writes /\ ~op.dst.exists /\ "CreateDest" \notin op.todo => Stands(h2, dp)' /\ fs'.kind[p2] = "dir"
      BY <2>8, <3>1, <3>2 DEF IsDir
    <3> QED
      BY <2>2, <2>7, <3>3 DEF NewHeld, Stands, Paths, IsDir
  <2>11. FillingHeld'
    <3>1. op.pending \in Seq(Jobs) /\ \A i \in DOMAIN op.pending :
              IsDir(op.pending[i].to) /\ \E p \in Paths : Stands(op.pending[i].to, p) /\ IsPrefix(op.dst.path, p)
      BY <2>1 DEF CallInv, FillingHeld
    <3>2. ASSUME NEW i \in DOMAIN op.pending
          PROVE  fs'.kind[op.pending[i].to] = "dir" /\ \E p : Stands(op.pending[i].to, p)' /\ IsPrefix(op.dst.path, p)
      <4>1. PICK d : d = op.pending[i].to
        OBVIOUS
      <4>2. PICK p \in Paths : Stands(d, p) /\ IsPrefix(op.dst.path, p) /\ IsDir(d)
        BY <3>1, <3>2, <4>1
      <4>3. d \in Held
        BY <2>8, <3>2, <4>1 DEF Filling
      <4>4. Stands(d, p)' /\ fs'.kind[d] = "dir"
        BY <4>2, <4>3 DEF IsDir
      <4> QED
        BY <4>1, <4>2, <4>4
    <3> QED
      BY <3>1, <3>2 DEF FillingHeld, Jobs, Stands, Paths, IsDir
  <2> QED
    BY <2>5, <2>6, <2>9, <2>10, <2>11 DEF CallInv
<1> QED
  BY <1>1, <1>2 DEF BrokerInv, Running

\* A handle that does not share deletion keeps its object, and what is above it.
LEMMA PinnedStays ==
    ASSUME BrokerInv, NEW p \in Paths, Movable(fs.tree[p]), NEW x \in Held, NEW q, Stands(x, q)
    PROVE  p # q /\ ~IsPrefix(p, q)
<1>1. FileSystem(fs)
  BY DEF BrokerInv
<1>2. x \in Pinned
  BY DEF Held, Pinned
<1>3. x # None
  BY <1>1, PathsTyped, NoneAssumption DEF Stands
<1>4. x \in OpenNodes
  BY <1>3 DEF Held, OpenNodes
<1>5. fs.tree[p] # x /\ ~Below(x, fs.tree[p])
  BY <1>2, <1>4 DEF Movable
<1>6. p # q
  BY <1>5 DEF Stands
<1>7. ~IsStrictPrefix(p, q)
  BY <1>5 DEF Stands, Below, Under, NamesOf
<1> QED
  BY <1>6, <1>7 DEF IsStrictPrefix

LEMMA MoveEntryKeeps ==
    ASSUME BrokerInv, NEW t \in Vacant, NEW p \in Paths \ {<<>>}, MoveEntry(p, t)
    PROVE  BrokerInv'
<1>1. FileSystem(fs) /\ p \in Seq(Names) /\ IsTree(fs.tree, fs.kind)
  BY PathsTyped DEF BrokerInv, FileSystem
<1>2. t \in Seq(Names) /\ t # <<>> /\ t \notin Paths /\ Front(t) \in Paths /\ IsDir(fs.tree[Front(t)])
  BY <1>1, VacantIs
<1>3. Movable(fs.tree[p]) /\ ~IsPrefix(p, t) /\ op' = op /\ moves' = moves + 1 /\ fs' = [fs EXCEPT !.tree = Moved(@, p, t)]
  BY DEF MoveEntry, Intervene
<1>4. FileSystem(fs') /\ fs'.tree = Moved(fs.tree, p, t) /\ fs'.kind = fs.kind
  BY <1>1, <1>2, <1>3, MoveKeeps
<1>5. ASSUME NEW x \in Held, NEW q, Stands(x, q)
      PROVE  Stands(x, q)'
  <2>1. ~IsPrefix(p, q) /\ q \in DOMAIN fs.tree /\ fs.tree[q] = x
    BY <1>3, <1>5, PinnedStays DEF Stands, Paths
  <2>2. PICK tr, k, u : tr = fs.tree /\ k = fs.kind /\ u = Moved(tr, p, t)
    OBVIOUS
  <2>3. t \notin DOMAIN tr /\ IsTree(tr, k)
    BY <1>1, <1>2, <2>2 DEF Paths
  <2>4. \A r \in DOMAIN tr : ~IsPrefix(p, r) => r \in DOMAIN u /\ u[r] = tr[r]
    BY <1>1, <1>2, <2>2, <2>3, MovedIs
  <2>5. fs'.tree = u
    BY <1>4, <2>2
  <2> QED
    BY <2>1, <2>2, <2>4, <2>5 DEF Stands, Paths
<1>6. FileSystem(fs)'
  BY <1>4 DEF FileSystem, IsTree
<1> QED
  BY <1>3, <1>4, <1>5, <1>6, HeldStays

LEMMA RemoveEntryKeeps ==
    ASSUME BrokerInv, NEW p \in Paths \ {<<>>}, RemoveEntry(p)
    PROVE  BrokerInv'
<1>1. FileSystem(fs)
  BY DEF BrokerInv
<1>2. Movable(fs.tree[p]) /\ Children(fs.tree[p]) = {} /\ op' = op /\ moves' = moves + 1 /\ fs' = Erase(p)
  BY DEF RemoveEntry, Intervene
<1>3. /\ FileSystem(fs') /\ (\A q : q \in DOMAIN fs'.tree <=> q \in Paths /\ q # p)
      /\ \A q \in Paths \ {p} : fs'.tree[q] = fs.tree[q]
      /\ fs'.kind = fs.kind
  BY <1>1, <1>2, EraseKeeps
<1>4. \A x \in Held : \A q : Stands(x, q) => Stands(x, q)'
  BY <1>2, <1>3, PinnedStays DEF Stands, Paths
<1>5. FileSystem(fs)'
  BY <1>3 DEF FileSystem, IsTree
<1> QED
  BY <1>2, <1>3, <1>4, <1>5, HeldStays

LEMMA PlantLinkKeeps ==
    ASSUME BrokerInv, NEW t \in Vacant, NEW path \in LinkTargets, PlantLink(t, path)
    PROVE  BrokerInv'
<1>1. FileSystem(fs) /\ path \in Seq(Names)
  BY OthersAssumption DEF BrokerInv
<1>2. t \in Seq(Names) /\ t # <<>> /\ t \notin Paths /\ Front(t) \in Paths /\ IsDir(fs.tree[Front(t)])
  BY <1>1, VacantIs
<1>3. PICK kind, data, x : kind = "link" /\ data = None /\ x = Fresh
  OBVIOUS
<1>4. PICK f : f = Make(t, kind, data)
  OBVIOUS
<1>5. Free # {} /\ op' = op /\ moves' = moves + 1 /\ fs' = [f EXCEPT !.target[x] = path]
  BY <1>3, <1>4 DEF PlantLink, Intervene
<1>6. kind \in Kinds /\ kind # "free" /\ data \in Contents \cup {None}
  BY <1>3 DEF Kinds
<1>7. /\ FileSystem(f) /\ (\A q : q \in DOMAIN f.tree <=> q \in Paths \/ q = t)
      /\ \A q \in Paths : f.tree[q] = fs.tree[q]
      /\ \A y \in Nodes : f.kind[y] = IF y = Fresh THEN kind ELSE fs.kind[y]
  BY <1>1, <1>2, <1>4, <1>5, <1>6, MakeKeeps
<1>8. f = [tree |-> f.tree, kind |-> f.kind, target |-> f.target, data |-> f.data] /\ f.target \in [Nodes -> Seq(Names)]
  BY <1>7 DEF FileSystem
<1>9. /\ fs' = [tree |-> fs'.tree, kind |-> fs'.kind, target |-> fs'.target, data |-> fs'.data]
      /\ fs'.tree = f.tree /\ fs'.kind = f.kind /\ fs'.data = f.data /\ fs'.target = [f.target EXCEPT ![x] = path]
  BY <1>5, <1>8
<1>10. fs'.target \in [Nodes -> Seq(Names)]
  BY <1>1, <1>8, <1>9
<1>11. FileSystem(fs')
  BY <1>7, <1>9, <1>10 DEF FileSystem
<1>12. FileSystem(fs)'
  BY <1>11 DEF FileSystem, IsTree
<1>13. \A y, q : Stands(y, q) => Stands(y, q)'
  BY <1>7, <1>9 DEF Stands, Paths
<1>14. \A y, q : Stands(y, q) => fs'.kind[y] = fs.kind[y]
  BY <1>1, <1>3, <1>5, <1>7, <1>9, FreshIs, PathsTyped DEF Stands
<1> QED
  BY <1>5, <1>12, <1>13, <1>14, HeldStays

LEMMA PlantFileKeeps ==
    ASSUME BrokerInv, NEW t \in Vacant, PlantFile(t)
    PROVE  BrokerInv'
<1>1. FileSystem(fs)
  BY DEF BrokerInv
<1>2. t \in Seq(Names) /\ t # <<>> /\ t \notin Paths /\ Front(t) \in Paths /\ IsDir(fs.tree[Front(t)])
  BY <1>1, VacantIs
<1>3. PICK kind, data : kind = "file" /\ data = "other"
  OBVIOUS
<1>4. Free # {} /\ op' = op /\ moves' = moves + 1 /\ fs' = Make(t, kind, data)
  BY <1>3 DEF PlantFile, Intervene
<1>5. kind \in Kinds /\ kind # "free" /\ data \in Contents \cup {None}
  BY <1>3 DEF Kinds, Contents
<1>6. /\ FileSystem(fs') /\ (\A q : q \in DOMAIN fs'.tree <=> q \in Paths \/ q = t)
      /\ \A q \in Paths : fs'.tree[q] = fs.tree[q]
      /\ \A y \in Nodes : fs'.kind[y] = IF y = Fresh THEN kind ELSE fs.kind[y]
  BY <1>1, <1>2, <1>4, <1>5, MakeKeeps
<1>7. FileSystem(fs)'
  BY <1>6 DEF FileSystem, IsTree
<1>8. \A y, q : Stands(y, q) => Stands(y, q)'
  BY <1>6 DEF Stands, Paths
<1>9. \A y, q : Stands(y, q) => fs'.kind[y] = fs.kind[y]
  BY <1>1, <1>4, <1>6, FreshIs, PathsTyped DEF Stands
<1> QED
  BY <1>4, <1>7, <1>8, <1>9, HeldStays

LEMMA HardLinkStays ==
    ASSUME BrokerInv, NEW t \in Vacant, NEW p \in Paths \ {<<>>}, HardLink(p, t)
    PROVE  BrokerInv'
<1>1. FileSystem(fs) /\ p \in Paths
  BY DEF BrokerInv
<1>2. /\ FileSystem(fs') /\ (\A q : q \in DOMAIN fs'.tree <=> q \in Paths \/ q = t)
      /\ \A q \in Paths : fs'.tree[q] = fs.tree[q]
      /\ fs'.kind = fs.kind
  BY <1>1, HardLinkKeeps
<1>3. op' = op /\ moves' = moves + 1
  BY DEF HardLink, Intervene
<1>4. FileSystem(fs)'
  BY <1>2 DEF FileSystem, IsTree
<1>5. \A y, q : Stands(y, q) => Stands(y, q)'
  BY <1>2 DEF Stands, Paths
<1> QED
  BY <1>2, <1>3, <1>4, <1>5, HeldStays

LEMMA OthersKeep ==
    ASSUME BrokerInv, Others
    PROVE  BrokerInv'
<1>1. CASE \E t \in Vacant : \E p \in Paths \ {<<>>} : MoveEntry(p, t)
  BY <1>1, MoveEntryKeeps
<1>2. CASE \E t \in Vacant : \E p \in Paths \ {<<>>} : HardLink(p, t)
  BY <1>2, HardLinkStays
<1>3. CASE \E t \in Vacant : \E path \in LinkTargets : PlantLink(t, path)
  BY <1>3, PlantLinkKeeps
<1>4. CASE \E t \in Vacant : PlantFile(t)
  BY <1>4, PlantFileKeeps
<1>5. CASE \E p \in Paths \ {<<>>} : RemoveEntry(p)
  BY <1>5, RemoveEntryKeeps
<1> QED
  BY <1>1, <1>2, <1>3, <1>4, <1>5 DEF Others

-----------------------------------------------------------------------------
\* The start of a call

\* A canonical path is that of an object that exists, and names below it.
LEMMA CanonicalIs ==
    ASSUME FileSystem(fs), NEW input, Normalize(input) = Gone \/ Normalize(input) \in Seq(Names), NEW follow,
           NEW c, c = Canonical(input, follow), c.ok
    PROVE  CanonicalPath(c) /\ (c.path = <<>> => c.exists /\ c.kind = "dir")
<1>1. PICK path, w : path = Normalize(input) /\ w = Lookup(path, follow)
  OBVIOUS
<1>2. w.ok /\ c = [ok |-> TRUE, existing |-> FinalPath(w.h), tail |-> w.rest, path |-> FinalPath(w.h) \o w.rest,
                   id |-> w.h.node, exists |-> w.rest = <<>>, kind |-> fs.kind[w.h.node]]
  BY <1>1 DEF Canonical, Error
<1>3. PICK q \in Paths, rest \in Seq(Names) : w = Found(HandleAt(q), rest)
  BY <1>1, <1>2, LookupFound
<1>4. q \in Seq(Names) /\ HandleAt(q).node = fs.tree[q] /\ FinalPath(HandleAt(q)) = q /\ fs.tree[q] \in Nodes
      /\ fs.tree[<<>>] = Root /\ fs.kind[Root] = "dir" /\ <<>> \in Paths
  BY HandleAtIs, PathsTyped DEF IsDir
<1>5. w.h = HandleAt(q) /\ w.rest = rest
  BY <1>3 DEF Found
<1>6. /\ c.existing = q /\ c.tail = rest /\ c.path = q \o rest /\ c.id = fs.tree[q]
      /\ (c.exists <=> rest = <<>>) /\ c.kind = fs.kind[fs.tree[q]]
  <2>1. c.existing = q /\ c.tail = rest /\ c.path = q \o rest /\ c.id = fs.tree[q] /\ c.kind = fs.kind[fs.tree[q]]
    BY <1>2, <1>4, <1>5
  <2>2. c.exists <=> rest = <<>>
    <3>1. c.exists = (w.rest = <<>>)
      BY <1>2
    <3>2. c.exists <=> w.rest = <<>>
      BY <3>1
    <3> QED
      BY <1>5, <3>2
  <2> QED
    BY <2>1, <2>2
<1>7. q # <<>> => fs.tree[q] # Root
  BY <1>4 DEF FileSystem, IsTree, Paths
<1>8. rest = <<>> => c.path = q
  BY <1>4, <1>6, ConcatEmptySeq
<1>9. c.path = <<>> => q = <<>> /\ rest = <<>>
  <2>1. PICK p : p = q \o rest
    OBVIOUS
  <2>2. Len(p) = Len(q) + Len(rest) /\ Len(q) \in Nat /\ Len(rest) \in Nat
    BY <1>4, <2>1, ConcatComponents
  <2>3. p = <<>> => Len(p) = 0
    OBVIOUS
  <2>4. p = <<>> => Len(q) = 0 /\ Len(rest) = 0
    BY <2>2, <2>3
  <2>5. p = <<>> => q = <<>> /\ rest = <<>>
    BY <1>4, <2>4, EmptySeq
  <2> QED
    BY <1>6, <2>1, <2>5
<1>10. CanonicalPath(c)
  BY <1>4, <1>6, <1>7, <1>8 DEF CanonicalPath, Joined
<1> QED
  BY <1>4, <1>6, <1>9, <1>10

LEMMA OrderHas ==
    \A s \in {"OpenSource", "PinSourceParent", "VerifySourceParent", "OpenChild", "VerifySource", "CheckSource",
              "CheckSourceLinks", "Read", "List", "Inspect", "CheckMoved", "ScanSource",
              "PinDestParent", "VerifyDestParent", "OpenDest", "CheckDest", "CheckDestLinks",
              "MakeDirs", "VerifyNewParent", "CreateDest", "VerifyDest",
              "ReadDest", "Truncate", "WriteData", "CopyData", "Rename", "VerifyMoved", "ReadTree", "CopyTree"} :
        s \in {Order[i] : i \in DOMAIN Order}
<1>1. DOMAIN Order = 1 .. 31
  BY DEF Order
<1>2. /\ Order[1] = "OpenSource" /\ Order[2] = "PinSourceParent" /\ Order[3] = "VerifySourceParent" /\ Order[4] = "OpenChild"
      /\ Order[5] = "VerifySource" /\ Order[6] = "CheckSource" /\ Order[7] = "CheckSourceLinks" /\ Order[8] = "Read"
      /\ Order[9] = "List" /\ Order[10] = "Inspect" /\ Order[11] = "CheckMoved" /\ Order[12] = "ScanSource"
      /\ Order[13] = "PinDestParent" /\ Order[14] = "VerifyDestParent" /\ Order[15] = "OpenDest" /\ Order[16] = "CheckDest"
      /\ Order[17] = "CheckDestLinks" /\ Order[18] = "MakeDirs" /\ Order[19] = "VerifyNewParent" /\ Order[20] = "CreateDest"
      /\ Order[21] = "VerifyDest" /\ Order[22] = "ReadDest" /\ Order[23] = "Truncate" /\ Order[24] = "WriteData"
      /\ Order[25] = "CopyData" /\ Order[28] = "Rename" /\ Order[29] = "VerifyMoved" /\ Order[30] = "ReadTree"
      /\ Order[31] = "CopyTree"
  BY DEF Order
<1>3. PICK o : o = Order
  OBVIOUS
<1>4. PICK all : all = {o[i] : i \in DOMAIN o}
  OBVIOUS
<1>5. \A i \in 1 .. 31 : o[i] \in all
  BY <1>1, <1>3, <1>4
<1>6. /\ o[1] \in all /\ o[2] \in all /\ o[3] \in all /\ o[4] \in all /\ o[5] \in all /\ o[6] \in all
      /\ o[7] \in all /\ o[8] \in all /\ o[9] \in all /\ o[10] \in all /\ o[11] \in all /\ o[12] \in all
      /\ o[13] \in all /\ o[14] \in all /\ o[15] \in all /\ o[16] \in all /\ o[17] \in all /\ o[18] \in all
      /\ o[19] \in all /\ o[20] \in all /\ o[21] \in all /\ o[22] \in all /\ o[23] \in all /\ o[24] \in all
      /\ o[25] \in all /\ o[28] \in all /\ o[29] \in all /\ o[30] \in all /\ o[31] \in all
  BY <1>5
<1>7. \A s \in {"OpenSource", "PinSourceParent", "VerifySourceParent", "OpenChild", "VerifySource", "CheckSource",
              "CheckSourceLinks", "Read", "List", "Inspect", "CheckMoved", "ScanSource",
              "PinDestParent", "VerifyDestParent", "OpenDest", "CheckDest", "CheckDestLinks",
              "MakeDirs", "VerifyNewParent", "CreateDest", "VerifyDest",
              "ReadDest", "Truncate", "WriteData", "CopyData", "Rename", "VerifyMoved", "ReadTree", "CopyTree"} : s \in all
  BY <1>2, <1>3, <1>6
<1> QED
  BY <1>3, <1>4, <1>7

\* A call that goes on: what was resolved, decided and planned.
Starts(r, src, dst) ==
    /\ CanonicalPath(src) /\ CanonicalPath(dst) /\ (dst.path = <<>> => dst.exists /\ dst.kind = "dir")
    /\ "Deny" \notin Tool(r, src, dst).decisions /\ ~Tool(r, src, dst).op.refused
    /\ op'.req = r /\ op'.src = src /\ op'.dst = dst /\ op'.result = "none" /\ op'.pending = <<>>
    /\ op'.todo = Tool(r, src, dst).op.steps /\ op'.todo # {}

\* Every handle is still to be checked, every directory still to be made.
Ready ==
    /\ Identified => "CheckSource" \in op.todo
    /\ TreeCopy => "OpenSource" \in op.todo
    /\ Writes /\ op.dst.exists => "CheckDest" \in op.todo
    /\ Writes /\ ~op.dst.exists => "CreateDest" \in op.todo
    /\ HasDest => "VerifyDestParent" \in op.todo
    /\ HasDest /\ ~op.dst.exists => "MakeDirs" \in op.todo

\* The tools that only read have no destination.
LEMMA ReadersStart ==
    ASSUME NEW r \in Requests, NEW src, NEW dst, Starts(r, src, dst), r.kind \in {"stat", "list", "read"}
    PROVE  Plan' /\ Ready'
<1>1. /\ r.kind = "stat" => op'.todo \subseteq {"OpenSource", "VerifySource"}
      /\ r.kind = "list" => op'.todo \subseteq {"OpenSource", "VerifySource", "List"}
      /\ r.kind = "read" => /\ op'.todo \subseteq {"OpenSource", "VerifySource", "CheckSource", "CheckSourceLinks", "Read"}
                            /\ "CheckSource" \in op'.todo
  BY DEF Starts, Tool, StatTool, ListTool, ReadTool, StatOp, ListOp, ReadOp, SourceFile
<1>2. op'.todo \subseteq {Order[i] : i \in DOMAIN Order}
  BY <1>1, OrderHas
<1>3. CanonicalPath(op.src)' /\ CanonicalPath(op.dst)' /\ op'.req = r /\ op'.req \in Requests /\ op'.result = "none" /\ op'.pending = <<>>
  BY DEF Starts, CanonicalPath, Joined
<1>4. ~HasDest' /\ ~Writes' /\ ~TreeCopy' /\ (Identified' <=> r.kind = "read")
  BY <1>3 DEF HasDest, Writes, TreeCopy, Identified
<1>5. Plan'
  BY <1>1, <1>2, <1>3, <1>4 DEF Plan
<1>6. Ready'
  BY <1>1, <1>4 DEF Ready
<1> QED
  BY <1>5, <1>6

LEMMA WriteStarts ==
    ASSUME NEW r \in Requests, NEW src, NEW dst, Starts(r, src, dst), r.kind = "write"
    PROVE  Plan' /\ Ready'
<1>1. /\ dst.exists => dst.kind # "dir"
      /\ dst.exists => op'.todo \subseteq {"PinDestParent", "VerifyDestParent", "OpenDest", "CheckDest", "CheckDestLinks", "VerifyDest",
                                           "Truncate", "WriteData"}
      /\ dst.exists => {"PinDestParent", "VerifyDestParent", "OpenDest", "CheckDest"} \subseteq op'.todo
      /\ ~dst.exists => op'.todo \subseteq {"PinDestParent", "VerifyDestParent", "MakeDirs", "VerifyNewParent", "CreateDest",
                                            "VerifyDest", "Truncate", "WriteData"}
      /\ ~dst.exists => {"PinDestParent", "VerifyDestParent", "MakeDirs", "CreateDest"} \subseteq op'.todo
  BY DEF Starts, Tool, WriteTool, WriteOp, WriteRefused, OpenForWrite, ExistingDest, EnsureDirs
<1>2. op'.todo \subseteq {Order[i] : i \in DOMAIN Order}
  BY <1>1, OrderHas
<1>3. /\ CanonicalPath(op.src)' /\ CanonicalPath(op.dst)' /\ op'.req = r /\ op'.req \in Requests /\ op'.result = "none"
      /\ op'.pending = <<>> /\ op'.dst = dst
  BY DEF Starts, CanonicalPath, Joined
<1>4. HasDest' /\ Writes' /\ ~TreeCopy' /\ ~Identified'
  BY <1>3 DEF HasDest, Writes, TreeCopy, Identified
<1>5. dst.path # <<>>
  BY <1>1 DEF Starts
<1>6. Plan'
  BY <1>1, <1>2, <1>3, <1>4, <1>5 DEF Plan
<1>7. Ready'
  BY <1>1, <1>3, <1>4 DEF Ready
<1> QED
  BY <1>6, <1>7

LEMMA PatchStarts ==
    ASSUME NEW r \in Requests, NEW src, NEW dst, Starts(r, src, dst), r.kind = "patch"
    PROVE  Plan' /\ Ready'
<1>1. /\ dst.exists /\ dst.kind # "dir"
      /\ op'.todo = {"PinDestParent", "VerifyDestParent", "OpenDest", "CheckDest", "CheckDestLinks", "VerifyDest",
                     "ReadDest", "Truncate", "WriteData"}
  BY DEF Starts, Tool, PatchTool, PatchOp, ExistingDest
<1>2. op'.todo \subseteq {Order[i] : i \in DOMAIN Order}
  BY <1>1, OrderHas
<1>3. /\ CanonicalPath(op.src)' /\ CanonicalPath(op.dst)' /\ op'.req = r /\ op'.req \in Requests /\ op'.result = "none"
      /\ op'.pending = <<>> /\ op'.dst = dst
  BY DEF Starts, CanonicalPath, Joined
<1>4. HasDest' /\ Writes' /\ ~TreeCopy' /\ ~Identified'
  BY <1>3 DEF HasDest, Writes, TreeCopy, Identified
<1>5. dst.path # <<>>
  BY <1>1 DEF Starts
<1>6. Plan'
  BY <1>1, <1>2, <1>3, <1>4, <1>5 DEF Plan
<1>7. Ready'
  BY <1>1, <1>3, <1>4 DEF Ready
<1> QED
  BY <1>6, <1>7

LEMMA MkdirStarts ==
    ASSUME NEW r \in Requests, NEW src, NEW dst, Starts(r, src, dst), r.kind = "mkdir"
    PROVE  Plan' /\ Ready'
<1>1. ~dst.exists /\ op'.todo = {"PinDestParent", "VerifyDestParent", "MakeDirs", "VerifyNewParent"}
  BY DEF Starts, Tool, MkdirTool, MkdirOp, EnsureDirs
<1>2. op'.todo \subseteq {Order[i] : i \in DOMAIN Order}
  BY <1>1, OrderHas
<1>3. /\ CanonicalPath(op.src)' /\ CanonicalPath(op.dst)' /\ op'.req = r /\ op'.req \in Requests /\ op'.result = "none"
      /\ op'.pending = <<>> /\ op'.dst = dst
  BY DEF Starts, CanonicalPath, Joined
<1>4. HasDest' /\ ~Writes' /\ ~TreeCopy' /\ ~Identified'
  BY <1>3 DEF HasDest, Writes, TreeCopy, Identified
<1>5. dst.path # <<>>
  BY <1>1 DEF Starts
<1>6. Plan'
  BY <1>1, <1>2, <1>3, <1>4, <1>5 DEF Plan
<1>7. Ready'
  BY <1>1, <1>3, <1>4 DEF Ready
<1> QED
  BY <1>6, <1>7

LEMMA CopyFileStarts ==
    ASSUME NEW r \in Requests, NEW src, NEW dst, Starts(r, src, dst), r.kind = "copy", src.kind # "dir"
    PROVE  Plan' /\ Ready'
<1>1. /\ dst.exists => dst.kind # "dir"
      /\ dst.exists => op'.todo = {"OpenSource", "VerifySource", "CheckSource", "CheckSourceLinks",
                                   "PinDestParent", "VerifyDestParent", "OpenDest", "CheckDest", "CheckDestLinks", "VerifyDest",
                                   "Truncate", "CopyData"}
      /\ ~dst.exists => op'.todo = {"OpenSource", "VerifySource", "CheckSource", "CheckSourceLinks",
                                    "PinDestParent", "VerifyDestParent", "MakeDirs", "VerifyNewParent", "CreateDest",
                                    "VerifyDest", "Truncate", "CopyData"}
  BY DEF Starts, Tool, CopyTool, CopyOp, CopyFileOp, WriteRefused, OpenForWrite, ExistingDest, EnsureDirs, SourceFile
<1>2. op'.todo \subseteq {Order[i] : i \in DOMAIN Order}
  BY <1>1, OrderHas
<1>3. /\ CanonicalPath(op.src)' /\ CanonicalPath(op.dst)' /\ op'.req = r /\ op'.req \in Requests /\ op'.result = "none"
      /\ op'.pending = <<>> /\ op'.dst = dst /\ op'.src = src
  BY DEF Starts, CanonicalPath, Joined
<1>4. HasDest' /\ Writes' /\ ~TreeCopy' /\ Identified'
  BY <1>3 DEF HasDest, Writes, TreeCopy, Identified
<1>5. dst.path # <<>>
  BY <1>1 DEF Starts
<1>6. Plan'
  BY <1>1, <1>2, <1>3, <1>4, <1>5 DEF Plan
<1>7. Ready'
  BY <1>1, <1>3, <1>4 DEF Ready
<1> QED
  BY <1>6, <1>7

LEMMA CopyTreeStarts ==
    ASSUME NEW r \in Requests, NEW src, NEW dst, Starts(r, src, dst), r.kind = "copy", src.kind = "dir"
    PROVE  Plan' /\ Ready'
<1>1. /\ ~dst.exists
      /\ op'.todo = {"OpenSource", "VerifySource", "ScanSource", "PinDestParent", "VerifyDestParent", "MakeDirs",
                     "VerifyNewParent", "ReadTree", "CopyTree"}
  BY DEF Starts, Tool, CopyTool, CopyOp, CopyTreeOp, EnsureDirs
<1>2. op'.todo \subseteq {Order[i] : i \in DOMAIN Order}
  BY <1>1, OrderHas
<1>3. /\ CanonicalPath(op.src)' /\ CanonicalPath(op.dst)' /\ op'.req = r /\ op'.req \in Requests /\ op'.result = "none"
      /\ op'.pending = <<>> /\ op'.dst = dst /\ op'.src = src
  BY DEF Starts, CanonicalPath, Joined
<1>4. HasDest' /\ ~Writes' /\ TreeCopy' /\ ~Identified'
  BY <1>3 DEF HasDest, Writes, TreeCopy, Identified
<1>5. dst.path # <<>>
  BY <1>1 DEF Starts
<1>6. Plan'
  BY <1>1, <1>2, <1>3, <1>4, <1>5 DEF Plan
<1>7. Ready'
  BY <1>1, <1>3, <1>4 DEF Ready
<1> QED
  BY <1>6, <1>7

LEMMA MoveStarts ==
    ASSUME NEW r \in Requests, NEW src, NEW dst, Starts(r, src, dst), r.kind = "move"
    PROVE  Plan' /\ Ready'
<1>1. /\ src.exists /\ src.path # <<>> /\ (dst.exists => dst.kind # "dir")
      /\ dst.exists => op'.todo = {"PinSourceParent", "VerifySourceParent", "OpenChild", "CheckSource", "CheckMoved",
                                   "PinDestParent", "VerifyDestParent", "Rename", "VerifyMoved"}
      /\ ~dst.exists => op'.todo = {"PinSourceParent", "VerifySourceParent", "OpenChild", "CheckSource", "CheckMoved",
                                    "PinDestParent", "VerifyDestParent", "MakeDirs", "VerifyNewParent", "Rename", "VerifyMoved"}
  BY DEF Starts, Tool, MoveTool, MoveOp, EnsureDirs, SourceEntry
<1>2. op'.todo \subseteq {Order[i] : i \in DOMAIN Order}
  BY <1>1, OrderHas
<1>3. /\ CanonicalPath(op.src)' /\ CanonicalPath(op.dst)' /\ op'.req = r /\ op'.req \in Requests /\ op'.result = "none"
      /\ op'.pending = <<>> /\ op'.dst = dst /\ op'.src = src
  BY DEF Starts, CanonicalPath, Joined
<1>4. HasDest' /\ ~Writes' /\ ~TreeCopy' /\ Identified'
  BY <1>3 DEF HasDest, Writes, TreeCopy, Identified
<1>5. dst.path # <<>>
  BY <1>1 DEF Starts
<1>6. Plan'
  BY <1>1, <1>2, <1>3, <1>4, <1>5 DEF Plan
<1>7. Ready'
  BY <1>1, <1>3, <1>4 DEF Ready
<1> QED
  BY <1>6, <1>7

LEMMA DeleteStarts ==
    ASSUME NEW r \in Requests, NEW src, NEW dst, Starts(r, src, dst), r.kind = "delete"
    PROVE  Plan' /\ Ready'
<1>1. /\ src.exists /\ src.path # <<>>
      /\ op'.todo = {"PinSourceParent", "VerifySourceParent", "OpenChild", "CheckSource", "Inspect"}
  BY DEF Starts, Tool, DeleteTool, DeleteOp, SourceEntry
<1>2. op'.todo \subseteq {Order[i] : i \in DOMAIN Order}
  BY <1>1, OrderHas
<1>3. /\ CanonicalPath(op.src)' /\ CanonicalPath(op.dst)' /\ op'.req = r /\ op'.req \in Requests /\ op'.result = "none"
      /\ op'.pending = <<>> /\ op'.dst = dst /\ op'.src = src
  BY DEF Starts, CanonicalPath, Joined
<1>4. ~HasDest' /\ ~Writes' /\ ~TreeCopy' /\ Identified'
  BY <1>3 DEF HasDest, Writes, TreeCopy, Identified
<1>6. Plan'
  BY <1>1, <1>2, <1>3, <1>4 DEF Plan
<1>7. Ready'
  BY <1>1, <1>3, <1>4 DEF Ready
<1> QED
  BY <1>6, <1>7

\* A call begins with nothing done.
LEMMA CallKeeps ==
    ASSUME BrokerInv, NEW r \in Requests, Call(r)
    PROVE  BrokerInv'
<1>1. PICK follow : follow = (r.kind \notin {"delete", "move"})
  OBVIOUS
<1>2. PICK src, dst : src = Canonical(r.source, follow) /\ dst = Canonical(r.dest, follow)
  OBVIOUS
<1>3. PICK o, answer : o = [Idle EXCEPT !.req = r, !.src = src, !.dst = dst] /\ answer = Answered(r, src, dst)
  OBVIOUS
<1>4. /\ op = Idle /\ fs' = fs /\ moves' = moves
      /\ op' = IF answer = "none" THEN [o EXCEPT !.todo = Tool(r, src, dst).op.steps] ELSE Ended(o, answer)
  BY <1>1, <1>2, <1>3 DEF Call
<1>5. Shaped(o) /\ o.effects = {} /\ o.pending = <<>> /\ o.made = 0 /\ o.result = "none" /\ o.req = r /\ o.src = src /\ o.dst = dst
  BY <1>3 DEF Shaped, Idle
<1>6. FileSystem(fs)' /\ (moves \in Nat)'
  BY <1>4 DEF BrokerInv, FileSystem, IsTree
<1>7. CASE answer # "none"
  <2>1. Shaped(op') /\ op'.todo = {} /\ op'.effects = {}
    BY <1>4, <1>5, <1>7, EndedIs
  <2>2. Shaped(op)'
    BY <2>1 DEF Shaped
  <2> QED
    BY <1>6, <2>1, <2>2 DEF BrokerInv, Running, RefusalIsClean
<1>8. CASE answer = "none"
  <2>1. /\ Shaped(op') /\ op'.effects = {} /\ op'.pending = <<>> /\ op'.made = 0 /\ op'.result = "none"
        /\ op'.req = r /\ op'.src = src /\ op'.dst = dst /\ op'.todo = Tool(r, src, dst).op.steps
    BY <1>4, <1>5, <1>8 DEF Shaped
  <2>2. /\ src.ok /\ dst.ok /\ "Deny" \notin Tool(r, src, dst).decisions /\ ~Tool(r, src, dst).op.refused
        /\ Tool(r, src, dst).op.steps # {}
    BY <1>3, <1>8 DEF Answered
  <2>3. /\ Normalize(r.source) = Gone \/ Normalize(r.source) \in Seq(Names)
        /\ Normalize(r.dest) = Gone \/ Normalize(r.dest) \in Seq(Names)
    BY RequestsAssumption
  <2>4. CanonicalPath(src) /\ CanonicalPath(dst) /\ (dst.path = <<>> => dst.exists /\ dst.kind = "dir")
    BY <1>2, <2>2, <2>3, CanonicalIs DEF BrokerInv
  <2>5. Starts(r, src, dst)
    BY <2>1, <2>2, <2>4 DEF Starts
  <2>6. Plan' /\ Ready'
    <3>1. r.kind \in ToolKinds
      BY RequestsAssumption
    <3> QED
      BY <2>5, <3>1, ReadersStart, WriteStarts, PatchStarts, MkdirStarts, CopyFileStarts, CopyTreeStarts, MoveStarts, DeleteStarts
         DEF ToolKinds
  <2>7. DirsMade'
    <3>1. HasDest' /\ ~dst.exists => Missing' \in Nat
      <4>1. ~dst.exists => dst.tail \in Seq(Names) /\ dst.tail # <<>>
        BY <2>4 DEF CanonicalPath
      <4>2. ~dst.exists => Len(dst.tail) \in Nat /\ Len(dst.tail) > 0
        BY <4>1, LenProperties, EmptySeq
      <4> QED
        BY <2>1, <4>2 DEF Missing
    <3> QED
      BY <2>1, <2>6, <3>1 DEF DirsMade, Ready
  <2>8. HandlesRight'
    BY <2>6 DEF HandlesRight, Ready
  <2>9. EffectsRight' /\ RefusalIsClean'
    BY <2>1 DEF EffectsRight, RefusalIsClean
  <2>10. ParentHeld' /\ NewHeld'
    BY <2>6 DEF ParentHeld, NewHeld, Ready
  <2>11. FillingHeld'
    <3>1. op'.pending \in Seq(Jobs) /\ DOMAIN op'.pending = {}
      BY <2>1
    <3> QED
      BY <3>1 DEF FillingHeld, Jobs
  <2>12. Shaped(op)'
    BY <2>1 DEF Shaped
  <2> QED
    BY <1>6, <2>6, <2>7, <2>8, <2>9, <2>10, <2>11, <2>12 DEF BrokerInv, CallInv
<1> QED
  BY <1>7, <1>8

LEMMA BrokerStarts == Init => BrokerInv
<1>1. SUFFICES ASSUME Init PROVE BrokerInv
  OBVIOUS
<1>2. FileSystem(fs) /\ moves \in Nat
  BY <1>1, FsAssumption DEF Init
<1>3. Shaped(op) /\ op.todo = {} /\ op.result = "none"
  BY <1>1 DEF Init, Idle, Shaped
<1> QED
  BY <1>2, <1>3 DEF BrokerInv, Running, RefusalIsClean

LEMMA BrokerInduction == BrokerInv /\ [Next]_vars => BrokerInv'
<1>1. SUFFICES ASSUME BrokerInv, [Next]_vars PROVE BrokerInv'
  OBVIOUS
<1>2. CASE vars' = vars
  <2>1. fs' = fs /\ op' = op /\ moves' = moves
    BY <1>2 DEF vars
  <2>2. FileSystem(fs)' /\ Shaped(op)' /\ (moves \in Nat)' /\ RefusalIsClean'
    BY <1>1, <2>1 DEF BrokerInv, FileSystem, IsTree, Shaped, RefusalIsClean
  <2>3. Running => CallInv'
    BY <1>1, <2>1, ZenonT(30) DEF BrokerInv, CallInv, Plan, CanonicalPath, Joined, DirsMade, HandlesRight, EffectsRight, ParentHeld, NewHeld,
       FillingHeld, HasDest, TreeCopy, Writes, Identified, Missing, NewParent, DestParent, Stands, Paths, IsDir
  <2> QED
    BY <2>1, <2>2, <2>3 DEF BrokerInv, Running
<1>3. CASE \E r \in Requests : Call(r)
  BY <1>1, <1>3, CallKeeps
<1>4. CASE Step
  BY <1>1, <1>4, StepKeeps
<1>5. CASE Others
  BY <1>1, <1>5, OthersKeep
<1> QED
  BY <1>1, <1>2, <1>3, <1>4, <1>5 DEF Next

LEMMA BrokerInvariant == Spec => []BrokerInv
BY BrokerStarts, BrokerInduction, PTL DEF Spec

\* A call that the broker answers with changed, denied or refused has had no
\* effect but the directories it made (ensure_dirs) and, for a denied copy of a
\* tree, the files before the one that was denied: every verify_final,
\* check_links and scan comes before the first step that changes something.
THEOREM RefusalsAreClean == Spec => []RefusalIsClean
<1>1. BrokerInv => RefusalIsClean
  BY DEF BrokerInv
<1> QED
  BY BrokerInvariant, <1>1, PTL

-----------------------------------------------------------------------------
\* What a step touches

LEMMA Untouched ==
    ASSUME fs' = fs, op'.out = op.out \/ op.h1.node = op.src.id
    PROVE  OnEvaluated
BY DEF OnEvaluated, Paths

LEMMA GoesOn ==
    ASSUME NEW step, NEW o, Shaped(o), o.out = op.out, Continue(step, o)
    PROVE  OnEvaluated
<1>1. PICK a : a = Advance(step, o)
  OBVIOUS
<1>2. a.out = o.out
  BY <1>1, AdvanceIs
<1>3. fs' = fs /\ op' = a
  BY <1>1 DEF Continue
<1> QED
  BY <1>2, <1>3, Untouched

LEMMA EndsHere ==
    ASSUME Shaped(op), NEW result, Stop(result)
    PROVE  OnEvaluated
<1>1. PICK a : a = Ended(op, result)
  OBVIOUS
<1>2. a.out = op.out
  BY <1>1, EndedIs
<1>3. fs' = fs /\ op' = a
  BY <1>1 DEF Stop
<1> QED
  BY <1>2, <1>3, Untouched

LEMMA ChecksTouchNothing ==
    ASSUME Shaped(op), Checks
    PROVE  OnEvaluated
<1>1. ASSUME NEW step, NEW c, NEW result, Check(step, c, result)
      PROVE  OnEvaluated
  <2>1. Continue(step, op) \/ Stop(result)
    BY <1>1 DEF Check
  <2> QED
    BY <2>1, GoesOn, EndsHere
<1> QED
  BY <1>1 DEF Checks, VerifySource, VerifySourceParent, VerifyDest, VerifyDestParent, VerifyNewParent,
     CheckSource, CheckDest, CheckSourceLinks, CheckDestLinks, CheckMoved, List, VerifyMoved

LEMMA LooksTouchNothing ==
    ASSUME Shaped(op), Opens \/ Looks, "Read" \in op.todo /\ Doing("Read") => op.h1.node = op.src.id
    PROVE  OnEvaluated
<1>1. ASSUME NEW step, NEW o, o.out = op.out, Shaped(o), Continue(step, o)
      PROVE  OnEvaluated
  BY <1>1, GoesOn
<1>2. ASSUME NEW result, Stop(result)
      PROVE  OnEvaluated
  BY <1>2, EndsHere
<1>3. ASSUME NEW h PROVE LET o == [op EXCEPT !.h1 = h] IN Shaped(o) /\ o.out = op.out
  BY DEF Shaped
<1>4. ASSUME NEW h PROVE LET o == [op EXCEPT !.p1 = h] IN Shaped(o) /\ o.out = op.out
  BY DEF Shaped
<1>5. ASSUME NEW h PROVE LET o == [op EXCEPT !.p2 = h] IN Shaped(o) /\ o.out = op.out
  BY DEF Shaped
<1>6. ASSUME NEW h PROVE LET o == [op EXCEPT !.h2 = h] IN Shaped(o) /\ o.out = op.out
  BY DEF Shaped
<1>7. CASE OpenSource
  BY <1>1, <1>2, <1>3, <1>7 DEF OpenSource
<1>8. CASE PinSourceParent
  BY <1>1, <1>2, <1>4, <1>8 DEF PinSourceParent
<1>9. CASE PinDestParent
  BY <1>1, <1>2, <1>5, <1>9 DEF PinDestParent
<1>10. CASE OpenChild
  BY <1>1, <1>2, <1>3, <1>10 DEF OpenChild
<1>11. CASE OpenDest
  BY <1>1, <1>2, <1>6, <1>11 DEF OpenDest
<1>12. CASE Read
  <2>1. op.h1.node = op.src.id /\ fs' = fs
    BY <1>12 DEF Read, Doing, Continue
  <2> QED
    BY <2>1, Untouched
<1>13. CASE ScanSource
  <2>1. Continue("ScanSource", op) \/ \E result : Stop(result)
    BY <1>13 DEF ScanSource
  <2> QED
    BY <1>1, <1>2, <2>1
<1>14. CASE ReadDest
  BY <1>1, <1>2, <1>14 DEF ReadDest
<1>15. CASE Inspect
  <2>1. PICK more : Continue("Inspect", [op EXCEPT !.todo = @ \cup more]) \/ \E result : Stop(result)
    BY <1>15 DEF Inspect
  <2>2. PICK o : o = [op EXCEPT !.todo = @ \cup more]
    OBVIOUS
  <2>3. Shaped(o) /\ o.out = op.out
    BY <2>2 DEF Shaped
  <2> QED
    BY <1>1, <1>2, <2>1, <2>2, <2>3
<1>16. CASE ReadTree
  <2>1. PICK jobs : jobs = Entries(op.h1.node, op.p2.node, op.src.path)
    OBVIOUS
  <2>2. PICK o : o = [op EXCEPT !.pending = jobs]
    OBVIOUS
  <2>3. Shaped(o) /\ o.out = op.out
    BY <2>2 DEF Shaped
  <2>4. Continue("ReadTree", o)
    BY <1>16, <2>1, <2>2 DEF ReadTree
  <2> QED
    BY <1>1, <2>3, <2>4
<1> QED
  BY <1>7, <1>8, <1>9, <1>10, <1>11, <1>12, <1>13, <1>14, <1>15, <1>16 DEF Opens, Looks

\* A new entry where the call may put one.
LEMMA Creates ==
    ASSUME FileSystem(fs), Free # {}, ~op.dst.exists, op'.out = op.out, NEW slot, NEW q, NEW p, SlotOf(slot, q, p), At(slot) = None,
           NEW kind \in {"dir", "file"}, NEW data \in Contents \cup {None}, fs' = Make(SlotPath(slot), kind, data),
           MayCreate(q)
    PROVE  OnEvaluated
<1>1. /\ q \in Seq(Names) /\ q # <<>> /\ q \notin Paths /\ Front(q) \in Paths /\ IsDir(fs.tree[Front(q)])
      /\ SlotPath(slot) = q
  BY DEF SlotOf
<1>2. kind \in Kinds /\ kind # "free" /\ fs' = Make(q, kind, data)
  BY <1>1 DEF Kinds
<1>3. /\ (\A r : r \in DOMAIN fs'.tree <=> r \in Paths \/ r = q)
      /\ \A r \in Paths : fs'.tree[r] = fs.tree[r]
      /\ \A x \in Nodes : fs'.data[x] = IF x = Fresh THEN data ELSE fs.data[x]
  BY <1>1, <1>2, MakeKeeps
<1>4. fs.kind[Fresh] = "free"
  BY FreshIs
<1>5. \A x \in Nodes : fs'.data[x] # fs.data[x] => fs.kind[x] = "free"
  BY <1>3, <1>4
<1>6. \A r \in Paths : r \in Paths' /\ fs'.tree[r] = fs.tree[r]
  BY <1>3 DEF Paths
<1>7. \A r \in Paths' : ~(r \in Paths /\ fs'.tree[r] = fs.tree[r]) => r = q
  BY <1>3 DEF Paths
<1>8. \A r \in Paths' : ~(r \in Paths /\ fs'.tree[r] = fs.tree[r]) => MayCreate(r)
  BY <1>7
<1> QED
  BY <1>5, <1>6, <1>8 DEF OnEvaluated

LEMMA DirsAreOnTheWay ==
    ASSUME BrokerInv, MakeDirs
    PROVE  OnEvaluated
<1>1. Doing("MakeDirs") /\ Shaped(op) /\ FileSystem(fs)
  BY DEF MakeDirs, BrokerInv
<1> DEFINE slot == <<op.p2.node, op.dst.tail[op.made + 1]>>
           x == At(slot)
           Entered(y) == [op EXCEPT !.p2 = Handle(y, slot), !.made = @ + 1]
<1>2. \/ Continue("MakeDirs", op)
      \/ \E result : Stop(result)
      \/ /\ op.made < Missing /\ IsDir(op.p2.node) /\ x = None /\ Free # {} /\ fs' = Make(SlotPath(slot), "dir", None)
         /\ op' = [Entered(Fresh) EXCEPT !.effects = @ \cup {"mkdir"}] /\ UNCHANGED moves
      \/ op' = Entered(x) /\ UNCHANGED <<fs, moves>>
  BY DEF MakeDirs
<1>3. CASE Continue("MakeDirs", op)
  BY <1>1, <1>3, GoesOn
<1>4. CASE \E result : Stop(result)
  BY <1>1, <1>4, EndsHere
<1>5. CASE op' = Entered(x) /\ UNCHANGED <<fs, moves>>
  <2>1. op'.out = op.out
    BY <1>1, <1>5 DEF Shaped
  <2> QED
    BY <1>5, <2>1, Untouched
<1>6. ASSUME op.made < Missing, IsDir(op.p2.node), x = None, Free # {}, fs' = Make(SlotPath(slot), "dir", None),
             op' = [Entered(Fresh) EXCEPT !.effects = @ \cup {"mkdir"}]
      PROVE  OnEvaluated
  <2>1. PICK s, q, r, np, kind : /\ s = slot /\ q = First(op.dst.path, Len(op.dst.existing) + op.made + 1) /\ np = NewParent
                                 /\ r = op.dst.existing \o First(op.dst.tail, op.made + 1) /\ kind = "dir"
    OBVIOUS
  <2>2. ~op.dst.exists /\ IsPrefix(q, op.dst.path) /\ Len(q) > Len(op.dst.existing) /\ SlotOf(s, q, np)
    BY <1>1, <1>6, <2>1, NextDir
  <2>3. MayCreate(q)
    BY <2>2 DEF MayCreate, DestParent
  <2>4. op'.out = op.out
    BY <1>1, <1>6 DEF Shaped
  <2>5. At(s) = None /\ fs' = Make(SlotPath(s), kind, None) /\ kind \in {"dir", "file"}
    BY <1>6, <2>1
  <2> HIDE DEF slot, x, Entered
  <2> QED
    BY <1>1, <1>6, <2>2, <2>3, <2>4, <2>5, Creates
<1> HIDE DEF slot, x, Entered
<1> QED
  BY <1>2, <1>3, <1>4, <1>5, <1>6

LEMMA FileIsNew ==
    ASSUME BrokerInv, CreateDest
    PROVE  OnEvaluated
<1>1. Doing("CreateDest") /\ Shaped(op) /\ FileSystem(fs) /\ CallInv /\ "CreateDest" \in op.todo
  BY DEF CreateDest, BrokerInv, Running, Doing
<1>2. /\ Writes /\ HasDest /\ ~op.dst.exists /\ ~TreeCopy /\ op.req.kind \notin {"move", "mkdir"}
      /\ "VerifyDestParent" \notin op.todo /\ "MakeDirs" \notin op.todo /\ CanonicalPath(op.dst)
  <2>1. Writes /\ ~op.dst.exists /\ CanonicalPath(op.dst)
    BY <1>1 DEF CallInv, Plan
  <2>2. "VerifyDestParent" \notin op.todo /\ "MakeDirs" \notin op.todo
    BY <1>1, Earlier
  <2> QED
    BY <2>1, <2>2 DEF Writes, TreeCopy, HasDest
<1>3. NewParent = Front(op.dst.path) /\ op.dst.path \in Seq(Names) /\ op.dst.path # <<>> /\ Last(op.dst.tail) = Last(op.dst.path)
  BY <1>1, <1>2, ParentOfDest, LastOfTail
<1>4. Stands(op.p2.node, Front(op.dst.path))
  BY <1>1, <1>2, <1>3 DEF CallInv, ParentHeld
<1> DEFINE slot == <<op.p2.node, Last(op.dst.tail)>>
<1>5. \/ \E result : Stop(result)
      \/ /\ IsDir(op.p2.node) /\ At(slot) = None /\ Free # {}
         /\ Change("CreateDest", Make(SlotPath(slot), "file", "empty"), [op EXCEPT !.h2 = Handle(Fresh, slot)], "create")
  BY DEF CreateDest
<1>6. ASSUME IsDir(op.p2.node), At(slot) = None, Free # {},
             Change("CreateDest", Make(SlotPath(slot), "file", "empty"), [op EXCEPT !.h2 = Handle(Fresh, slot)], "create")
      PROVE  OnEvaluated
  <2>1. PICK s, q, d, np, name : s = slot /\ q = op.dst.path /\ d = op.p2.node /\ np = Front(q) /\ name = Last(q)
    OBVIOUS
  <2>2. q \in Seq(Names) /\ q # <<>> /\ name \in Names /\ q = Append(np, name) /\ s = <<d, name>> /\ Stands(d, np) /\ IsDir(d)
    BY <1>3, <1>4, <1>6, <2>1, FrontIs
  <2>3. SlotOf(s, q, np)
    BY <1>1, <2>2, SlotIs
  <2>4. MayCreate(q)
    <3>1. Len(op.dst.path) = Len(op.dst.existing) + Len(op.dst.tail) /\ Len(op.dst.existing) \in Nat
          /\ Len(op.dst.tail) \in Nat /\ Len(op.dst.tail) > 0
      BY <1>1, <1>2, NewParentIs, MissingIs
    <3>2. PICK l, e, t : l = Len(q) /\ e = Len(op.dst.existing) /\ t = Len(op.dst.tail)
      OBVIOUS
    <3>5. l = e + t /\ e \in Nat /\ t \in Nat /\ t > 0
      BY <2>1, <3>1, <3>2
    <3>6. l > e /\ l \in 0 .. l
      BY <3>5
    <3>4. Len(q) > Len(op.dst.existing) /\ Len(q) \in 0 .. Len(q)
      BY <3>2, <3>6
    <3>3. IsPrefix(q, op.dst.path)
      BY <2>1, <2>2, <3>4, FirstIsPrefix, FirstAll, ZenonT(30)
    <3> QED
      BY <1>2, <2>1, <3>3, <3>4 DEF MayCreate, DestParent
  <2>5. PICK kind, data : kind = "file" /\ data = "empty"
    OBVIOUS
  <2>6. At(s) = None /\ fs' = Make(SlotPath(s), kind, data) /\ kind \in {"dir", "file"} /\ data \in Contents \cup {None}
    BY <1>6, <2>1, <2>5 DEF Change, Contents
  <2>7. op'.out = op.out
    <3>1. PICK h : h = Handle(Fresh, slot)
      OBVIOUS
    <3>2. PICK o : o = [[op EXCEPT !.h2 = h] EXCEPT !.effects = @ \cup {"create"}]
      OBVIOUS
    <3>3. Shaped(o) /\ o.out = op.out
      BY <1>1, <3>2 DEF Shaped
    <3>4. op' = Advance("CreateDest", o)
      BY <1>6, <3>1, <3>2 DEF Change
    <3> QED
      BY <3>3, <3>4, AdvanceIs
  <2> HIDE DEF slot
  <2> QED
    BY <1>1, <1>2, <1>6, <2>3, <2>4, <2>6, <2>7, Creates
<1> HIDE DEF slot
<1> QED
  BY <1>1, <1>5, <1>6, EndsHere

\* A late step that changes the file system returns nothing.
LEMMA ChangeReturnsNothing ==
    ASSUME Shaped(op), NEW step, NEW f, NEW effect, Change(step, f, op, effect)
    PROVE  fs' = f /\ op'.out = op.out
<1>1. PICK o : o = [op EXCEPT !.effects = @ \cup {effect}]
  OBVIOUS
<1>2. Shaped(o) /\ o.out = op.out
  BY <1>1 DEF Shaped
<1>3. op' = Advance(step, o) /\ fs' = f
  BY <1>1 DEF Change
<1> QED
  BY <1>2, <1>3, AdvanceIs

LEMMA FillsOnlyTheFile ==
    ASSUME BrokerInv, Fills
    PROVE  OnEvaluated
<1>1. PICK step \in {"Truncate", "WriteData", "CopyData"} : Doing(step)
  BY DEF Fills, Truncate, WriteData, CopyData, WriteFails
<1>2. CallInv /\ step \in op.todo /\ FileSystem(fs) /\ Shaped(op)
  BY <1>1 DEF BrokerInv, Running, Doing
<1>3. Writes /\ "CheckDest" \notin op.todo
  BY <1>1, <1>2, Earlier DEF CallInv, Plan
<1>4. op.dst.exists => op.h2.node = op.dst.id
  BY <1>2, <1>3 DEF CallInv, HandlesRight
<1>5. ASSUME NEW d, fs' = Filled(op.h2.node, d), op'.out = op.out
      PROVE  OnEvaluated
  <2>1. PICK y : y = op.h2.node
    OBVIOUS
  <2>2. fs = [tree |-> fs.tree, kind |-> fs.kind, target |-> fs.target, data |-> fs.data] /\ fs.data \in [Nodes -> Contents \cup {None}]
    BY <1>2 DEF FileSystem
  <2>3. fs'.tree = fs.tree /\ fs'.data = [fs.data EXCEPT ![y] = d]
    BY <1>5, <2>1, <2>2 DEF Filled
  <2>4. \A x \in Nodes : fs'.data[x] # fs.data[x] => x = y
    BY <2>2, <2>3
  <2>5. (\A p \in Paths : p \in Paths' /\ fs'.tree[p] = fs.tree[p]) /\ \A p \in Paths' : p \in Paths /\ fs'.tree[p] = fs.tree[p]
    BY <2>3 DEF Paths
  <2> QED
    BY <1>4, <1>5, <2>1, <2>4, <2>5 DEF OnEvaluated
<1>6. ASSUME NEW s, NEW d, Change(s, [fs EXCEPT !.data[op.h2.node] = d], op, "write")
      PROVE  OnEvaluated
  <2>1. PICK f : f = Filled(op.h2.node, d)
    OBVIOUS
  <2>2. Change(s, f, op, "write")
    BY <1>6, <2>1 DEF Filled
  <2>3. fs' = f /\ op'.out = op.out
    BY <1>2, <2>2, ChangeReturnsNothing
  <2> QED
    BY <1>5, <2>1, <2>3
<1>7. CASE Truncate \/ WriteData \/ CopyData
  BY <1>6, <1>7 DEF Truncate, WriteData, CopyData
<1>8. CASE WriteFails
  <2>1. PICK a : a = Ended(op, "io_error")
    OBVIOUS
  <2>2. Shaped(a) /\ a.out = op.out
    BY <1>2, <2>1, EndedIs
  <2>3. fs' = Filled(op.h2.node, "partial") /\ op' = [a EXCEPT !.effects = @ \cup {"write"}]
    BY <1>8, <2>1 DEF WriteFails, Filled
  <2>4. op'.out = op.out
    BY <2>2, <2>3 DEF Shaped
  <2> QED
    BY <1>5, <2>3, <2>4
<1> QED
  BY <1>7, <1>8 DEF Fills

\* Removing an entry that the call may remove.
LEMMA Erases ==
    ASSUME FileSystem(fs), NEW p \in Paths, p # <<>>, Children(fs.tree[p]) = {}, fs' = Erase(p), op'.out = op.out,
           MayRemove(p)
    PROVE  OnEvaluated
<1>1. /\ (\A q : q \in DOMAIN fs'.tree <=> q \in Paths /\ q # p)
      /\ \A q \in Paths \ {p} : fs'.tree[q] = fs.tree[q]
      /\ fs'.data = fs.data
  BY EraseKeeps
<1>2. \A q \in Paths : ~(q \in Paths' /\ fs'.tree[q] = fs.tree[q]) => q = p
  BY <1>1 DEF Paths
<1>3. \A q \in Paths : ~(q \in Paths' /\ fs'.tree[q] = fs.tree[q]) => MayRemove(q)
  BY <1>2
<1>4. \A q \in Paths' : q \in Paths /\ fs'.tree[q] = fs.tree[q]
  BY <1>1 DEF Paths
<1>5. \A x \in Nodes : fs'.data[x] = fs.data[x]
  BY <1>1
<1> QED
  BY <1>3, <1>4, <1>5 DEF OnEvaluated

LEMMA UnlinksTheEntry ==
    ASSUME BrokerInv, Unlink
    PROVE  OnEvaluated
<1>1. Doing("Unlink")
  BY DEF Unlink
<1>2. CallInv /\ "Unlink" \in op.todo /\ FileSystem(fs) /\ Shaped(op)
  BY <1>1 DEF BrokerInv, Running, Doing
<1>3. op.req.kind = "delete" /\ op.src.exists /\ op.src.path # <<>> /\ CanonicalPath(op.src) /\ "CheckSource" \notin op.todo
  BY <1>1, <1>2, Earlier DEF CallInv, Plan
<1>4. op.h1.node = op.src.id /\ op.src.id # Root
  BY <1>2, <1>3 DEF CallInv, HandlesRight, Identified, CanonicalPath
<1>5. CASE Stop("io_error")
  BY <1>2, <1>5, EndsHere
<1>6. CASE /\ NamesOf(op.h1.node) # {} /\ Children(op.h1.node) = {}
           /\ Change("Unlink", Erase(FinalPath(op.h1)), op, "unlink")
  <2>1. PICK p, f : p = FinalPath(op.h1) /\ f = Erase(p)
    OBVIOUS
  <2>2. Stands(op.h1.node, p)
    BY <1>2, <1>6, <2>1, FinalPathIs
  <2>3. p \in Paths /\ fs.tree[p] = op.h1.node /\ p # <<>> /\ p \in Seq(Names)
    BY <1>2, <1>4, <2>2, PathsTyped DEF Stands
  <2>4. fs' = f /\ op'.out = op.out
    BY <1>2, <1>6, <2>1, ChangeReturnsNothing
  <2>5. MayRemove(p)
    <3>1. p \in NamesOf(op.src.id)
      BY <1>4, <2>3 DEF NamesOf
    <3>2. IsPrefix(p, p)
      BY <2>3, PrefixComponents, LenProperties
    <3> QED
      BY <3>1, <3>2 DEF MayRemove
  <2> QED
    BY <1>2, <1>6, <2>1, <2>3, <2>4, <2>5, Erases
<1> QED
  BY <1>5, <1>6 DEF Unlink

LEMMA DeletesBelowTheEntry ==
    ASSUME BrokerInv, DeleteTree
    PROVE  OnEvaluated
<1>1. Doing("DeleteTree")
  BY DEF DeleteTree
<1>2. CallInv /\ "DeleteTree" \in op.todo /\ FileSystem(fs) /\ Shaped(op)
  BY <1>1 DEF BrokerInv, Running, Doing
<1>3. op.req.kind = "delete" /\ "CheckSource" \notin op.todo
  BY <1>1, <1>2, Earlier DEF CallInv, Plan
<1>4. op.h1.node = op.src.id
  BY <1>2, <1>3 DEF CallInv, HandlesRight, Identified
<1>5. CASE Continue("DeleteTree", op)
  BY <1>2, <1>5, GoesOn
<1>6. ASSUME NEW p \in Under(op.h1.node), Children(fs.tree[p]) = {}, fs' = Erase(p),
             op' = [op EXCEPT !.effects = @ \cup {"unlink"}]
      PROVE  OnEvaluated
  <2>1. PICK q \in NamesOf(op.h1.node) : IsStrictPrefix(q, p) /\ p \in Paths
    BY <1>6 DEF Under
  <2>2. q \in Seq(Names) /\ p \in Seq(Names) /\ IsPrefix(q, p) /\ q # p
    BY <1>2, <2>1, PathsTyped DEF IsStrictPrefix, NamesOf
  <2>3. p # <<>>
    <3>1. SUFFICES ASSUME p = <<>> PROVE FALSE
      OBVIOUS
    <3>2. Len(q) <= Len(p) /\ Len(q) \in Nat
      BY <2>2, PrefixComponents, LenProperties
    <3>3. Len(q) = 0
      BY <3>1, <3>2
    <3> QED
      BY <2>2, <3>1, <3>3, EmptySeq
  <2>4. op'.out = op.out
    BY <1>2, <1>6 DEF Shaped
  <2>5. MayRemove(p)
    BY <1>4, <2>1, <2>2 DEF MayRemove
  <2> QED
    BY <1>2, <1>6, <2>1, <2>3, <2>4, <2>5, Erases
<1> QED
  BY <1>5, <1>6 DEF DeleteTree

LEMMA RenamesTheEntry ==
    ASSUME BrokerInv, Rename
    PROVE  OnEvaluated
<1>1. Doing("Rename")
  BY DEF Rename
<1>2. CallInv /\ "Rename" \in op.todo /\ FileSystem(fs) /\ Shaped(op)
  BY <1>1 DEF BrokerInv, Running, Doing
<1>3. CASE Stop("io_error")
  BY <1>2, <1>3, EndsHere
<1> DEFINE slot == <<op.p2.node, Last(op.dst.path)>>
<1>4. ASSUME IsDir(op.p2.node), NamesOf(op.h1.node) # {}, ~Below(op.p2.node, op.h1.node),
             At(slot) = None \/ (~IsDir(At(slot)) /\ At(slot) # op.h1.node),
             Change("Rename", [fs EXCEPT !.tree = Moved(Without(@, SlotPath(slot)), FinalPath(op.h1), SlotPath(slot))], op, "rename")
      PROVE  OnEvaluated
  <2>1. PICK s, from, q : s = slot /\ from = FinalPath(op.h1) /\ q = op.dst.path
    OBVIOUS
  <2>2. /\ SlotPath(s) = q /\ q \in Seq(Names) /\ q # <<>> /\ from \in Paths /\ from # <<>> /\ from # q
        /\ q \in Paths => ~IsDir(fs.tree[q])
        /\ Front(q) \in Paths /\ IsDir(fs.tree[Front(q)]) /\ ~IsPrefix(from, q)
        /\ fs.tree[from] = op.src.id /\ op.req.kind = "move"
    BY <1>1, <1>4, <2>1, RenameIs
  <2>3. PICK t : t = Without(fs.tree, q)
    OBVIOUS
  <2>4. PICK f : f = [fs EXCEPT !.tree = Moved(t, from, q)]
    OBVIOUS
  <2>5. Change("Rename", f, op, "rename")
    BY <1>4, <2>1, <2>2, <2>3, <2>4
  <2>6. fs' = f /\ op'.out = op.out
    BY <1>2, <2>5, ChangeReturnsNothing
  <2>7. /\ f.tree = Moved(t, from, q) /\ f.data = fs.data /\ IsTree(t, fs.kind)
        /\ (\A r : r \in DOMAIN t <=> r \in Paths /\ r # q) /\ \A r \in DOMAIN t : t[r] = fs.tree[r]
    BY <1>2, <2>2, <2>3, <2>4, ReplaceKeeps
  <2>8. PICK u : u = Moved(t, from, q)
    OBVIOUS
  <2>9. /\ \A r \in DOMAIN t : ~IsPrefix(from, r) => r \in DOMAIN u /\ u[r] = t[r]
        /\ \A r \in DOMAIN u : (r \in DOMAIN t /\ u[r] = t[r]) \/ IsPrefix(q, r)
    <3>1. from \in Seq(Names) /\ q \notin DOMAIN t
      BY <1>2, <2>2, <2>7, PathsTyped
    <3> QED
      BY <2>2, <2>7, <2>8, <3>1, MovedIs
  <2>10. fs'.tree = u /\ fs'.data = fs.data
    BY <2>6, <2>7, <2>8
  <2>11. ASSUME NEW r \in Paths, ~(r \in Paths' /\ fs'.tree[r] = fs.tree[r]) PROVE MayRemove(r)
    <3>1. r = q \/ IsPrefix(from, r)
      BY <2>7, <2>9, <2>10, <2>11 DEF Paths
    <3>2. from \in NamesOf(op.src.id)
      BY <2>2 DEF NamesOf
    <3> QED
      BY <2>1, <3>1, <3>2 DEF MayRemove
  <2>12. ASSUME NEW r \in Paths', ~(r \in Paths /\ fs'.tree[r] = fs.tree[r]) PROVE MayCreate(r)
    <3>1. IsPrefix(q, r)
      BY <2>7, <2>9, <2>10, <2>12 DEF Paths
    <3> QED
      BY <2>1, <2>2, <3>1 DEF MayCreate
  <2> HIDE DEF slot
  <2> QED
    BY <2>6, <2>10, <2>11, <2>12 DEF OnEvaluated
<1>5. Stop("io_error") \/
      (/\ IsDir(op.p2.node) /\ NamesOf(op.h1.node) # {} /\ ~Below(op.p2.node, op.h1.node)
       /\ At(slot) = None \/ (~IsDir(At(slot)) /\ At(slot) # op.h1.node)
       /\ Change("Rename", [fs EXCEPT !.tree = Moved(Without(@, SlotPath(slot)), FinalPath(op.h1), SlotPath(slot))], op, "rename"))
  BY DEF Rename
<1> HIDE DEF slot
<1> QED
  BY <1>3, <1>4, <1>5

LEMMA CopiesBelowTheDestination ==
    ASSUME BrokerInv, CopyTree
    PROVE  OnEvaluated
<1>1. Doing("CopyTree")
  BY DEF CopyTree
<1>2. CallInv /\ "CopyTree" \in op.todo /\ FileSystem(fs) /\ Shaped(op)
  BY <1>1 DEF BrokerInv, Running, Doing
<1>3. op.req.kind = "copy" /\ ~op.dst.exists
  BY <1>2 DEF CallInv, Plan, TreeCopy
<1>4. CASE Continue("CopyTree", op)
  BY <1>2, <1>4, GoesOn
<1>5. CASE \E result \in {"io_error", "denied"} : Stop(result)
  BY <1>2, <1>5, EndsHere
<1>6. CASE op.pending # <<>> /\ ~(\E result \in {"io_error", "denied"} : Stop(result))
  <2>1. PICK e, slot, x : e = Head(op.pending) /\ slot = <<e.to, e.name>> /\ x = At(<<e.from, e.name>>)
    OBVIOUS
  <2>2. (x # None => x \in Nodes) /\ \E q, p : SlotOf(slot, q, p) /\ IsPrefix(op.dst.path, q)
    BY <1>1, <1>6, <2>1, NextJob
  <2> DEFINE Copied(kind, data, more) ==
                 /\ At(slot) = None /\ Free # {}
                 /\ fs' = Make(SlotPath(slot), kind, data)
                 /\ op' = [op EXCEPT !.pending = more \o Tail(@), !.effects = @ \cup {"create"}]
                 /\ UNCHANGED moves
  <2>3. /\ x # None
        /\ \/ op' = [op EXCEPT !.pending = Tail(@)] /\ UNCHANGED <<fs, moves>>
           \/ Copied("dir", None, Entries(x, Fresh, e.path))
           \/ Copied("file", fs.data[x], <<>>)
    BY <1>6, <2>1 DEF CopyTree
  <2>4. CASE op' = [op EXCEPT !.pending = Tail(@)] /\ UNCHANGED <<fs, moves>>
    <3>1. op'.out = op.out
      BY <1>2, <2>4 DEF Shaped
    <3> QED
      BY <2>4, <3>1, Untouched
  <2>5. ASSUME NEW kind \in {"dir", "file"}, NEW data \in Contents \cup {None}, NEW more, Copied(kind, data, more)
        PROVE  OnEvaluated
    <3>1. PICK q, p : SlotOf(slot, q, p) /\ IsPrefix(op.dst.path, q)
      BY <2>2
    <3>2. op'.out = op.out
      BY <1>2, <2>5 DEF Shaped
    <3>3. MayCreate(q)
      BY <1>3, <3>1 DEF MayCreate
    <3> QED
      BY <1>2, <1>3, <2>5, <3>1, <3>2, <3>3, Creates
  <2>6. CASE Copied("dir", None, Entries(x, Fresh, e.path))
    <3>1. PICK kind, more : kind = "dir" /\ more = Entries(x, Fresh, e.path)
      OBVIOUS
    <3>2. Copied(kind, None, more) /\ kind \in {"dir", "file"}
      BY <2>6, <3>1
    <3> HIDE DEF Copied
    <3> QED
      BY <2>5, <3>2
  <2>7. CASE Copied("file", fs.data[x], <<>>)
    <3>1. PICK kind, data, more : kind = "file" /\ data = fs.data[x] /\ more = <<>>
      OBVIOUS
    <3>2. data \in Contents \cup {None} /\ kind \in {"dir", "file"}
      BY <1>2, <2>2, <2>3, <3>1 DEF FileSystem
    <3>3. Copied(kind, data, more)
      BY <2>7, <3>1
    <3> HIDE DEF Copied
    <3> QED
      BY <2>5, <3>2, <3>3
  <2> HIDE DEF Copied
  <2> QED
    BY <2>3, <2>4, <2>6, <2>7
<1>7. Continue("CopyTree", op) \/ op.pending # <<>>
  BY DEF CopyTree
<1> QED
  BY <1>4, <1>5, <1>6, <1>7

\* No step of a call touches anything but what was evaluated.
LEMMA StepsOnEvaluated ==
    ASSUME BrokerInv, Step
    PROVE  OnEvaluated
<1>1. Opens \/ Checks \/ Looks \/ Fills \/ MakeDirs \/ CreateDest \/ Unlink \/ DeleteTree \/ Rename \/ CopyTree
  BY DEF Step, Opens, Checks, Looks, Fills
<1>2. Shaped(op)
  BY DEF BrokerInv
<1>3. ASSUME "Read" \in op.todo, Doing("Read") PROVE op.h1.node = op.src.id
  <2>1. CallInv
    BY <1>3 DEF BrokerInv, Running
  <2>2. op.req.kind = "read" /\ "CheckSource" \notin op.todo
    BY <1>3, <2>1, Earlier DEF CallInv, Plan
  <2> QED
    BY <2>1, <2>2 DEF CallInv, HandlesRight, Identified
<1> QED
  BY <1>1, <1>2, <1>3, ChecksTouchNothing, LooksTouchNothing, FillsOnlyTheFile, DirsAreOnTheWay, FileIsNew,
     UnlinksTheEntry, DeletesBelowTheEntry, RenamesTheEntry, CopiesBelowTheDestination

\* A step of a call reads and changes only the object that the policy judged,
\* or makes the missing one at the judged path: the handles opened with
\* SHARE_PIN and compared by verify_final keep the path in place for as long
\* as the call runs, whatever other programs do between two steps.
THEOREM CallsActOnEvaluated == Spec => ActsOnEvaluated
<1>1. ASSUME BrokerInv, [Next]_vars
      PROVE  [Running /\ moves' = moves => OnEvaluated]_vars
  <2>1. CASE \E r \in Requests : Call(r)
    <3>1. ~Running
      BY <2>1 DEF Call, Idle, Running
    <3> QED
      BY <3>1
  <2>2. CASE Step
    BY <1>1, <2>2, StepsOnEvaluated
  <2>3. CASE Others
    <3>1. moves' = moves + 1
      BY <2>3 DEF Others, MoveEntry, HardLink, PlantLink, PlantFile, RemoveEntry, Intervene
    <3>2. moves' # moves
      BY <1>1, <3>1 DEF BrokerInv
    <3> QED
      BY <3>2
  <2> QED
    BY <1>1, <2>1, <2>2, <2>3 DEF Next
<1> QED
  BY BrokerInvariant, <1>1, PTL DEF Spec, ActsOnEvaluated
=============================================================================
