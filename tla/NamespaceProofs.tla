-------------------------- MODULE NamespaceProofs --------------------------
(***************************************************************************)
(* Proofs about Metadata, continued, for every set of calls, paths and     *)
(* times, and every bound: the shape of the namespace, what calls know of  *)
(* it while others run, the reference counts, and that recovery comes to   *)
(* what is in memory.                                                      *)
(*                                                                         *)
(* They assume PlainTargets: Create, Rename and Snapshot are not asked to  *)
(* make hidden names.  Master::Remove makes a hidden name that it has not  *)
(* locked; if another call could make the same name, or files below it,    *)
(* neither the shape nor the checks would hold.                            *)
(*                                                                         *)
(* The argument.  A call that has a path locked keeps all others from it   *)
(* and from what is below it (Apart).  So a change of the files is known   *)
(* by where it is (Changed): below paths that the caller has locked to     *)
(* write, or at a hidden name beside a file; and a call whose locks are    *)
(* clear of those paths still finds what it found (CheckKept).  Hidden     *)
(* names need the shape: only the last name of a path is hidden, so        *)
(* nothing is ever below one, and no call makes one except Remove (Shape). *)
(*                                                                         *)
(* Every Apply function does the same to the state in memory and to the    *)
(* one that replay comes to, which differ in counts and pending chunks     *)
(* (Effect): the counts in memory remain those of the files (Counted), and *)
(* replay of the records up to any of them gives a state without a file    *)
(* in a file and without a missing chunk, at the end of them the one in    *)
(* memory (LogInv).  A crash cuts the records anywhere, so LogInv is about *)
(* all their prefixes.                                                     *)
(*                                                                         *)
(* A lease is granted on a chunk that is in one place (LeaseOK).  It stays *)
(* there alone since the call has the file locked to read, and a snapshot  *)
(* locks what it copies to write; and CopyOnWrite may find, when it has    *)
(* cow_mutex_, that the chunk was replaced by one that is in that place    *)
(* only (CowOK).                                                           *)
(***************************************************************************)
EXTENDS MetadataProofs

-----------------------------------------------------------------------------
(* Paths and their prefixes.                                               *)

\* The length and the indexes of a sequence.
LEMMA SeqFact ==
  ASSUME NEW p, IsSeq(p)
  PROVE  Len(p) \in Nat /\ DOMAIN p = 1..Len(p)
BY LenProperties DEF IsSeq

\* Two paths with the same names are the same.
LEMMA SamePath ==
  ASSUME NEW p, IsSeq(p), NEW q, IsSeq(q), Len(p) = Len(q), \A i \in 1..Len(p) : p[i] = q[i]
  PROVE  p = q
<1>1. PICK S : S = Range(p) \cup Range(q)
  OBVIOUS
<1>2. p \in Seq(S) /\ q \in Seq(S)
  BY <1>1, SeqMonotonic DEF IsSeq
<1> QED
  BY <1>2, SeqEqual

\* A prefix, name by name.
LEMMA PrefixIs ==
  ASSUME NEW p, IsSeq(p), NEW q, IsSeq(q)
  PROVE  IsPrefix(p, q) <=> Len(p) <= Len(q) /\ \A i \in 1..Len(p) : p[i] = q[i]
<1>1. PICK S : S = Range(p) \cup Range(q)
  OBVIOUS
<1>2. p \in Seq(S) /\ q \in Seq(S)
  BY <1>1, SeqMonotonic DEF IsSeq
<1>3. Len(p) \in Nat /\ Len(q) \in Nat
  BY SeqFact
<1>4. SubSeq(p, 1, Len(p)) = p
  BY <1>2, SubSeqFull
<1>5. ASSUME Len(p) <= Len(q)
      PROVE  SubSeq(q, 1, Len(p)) = p <=> \A i \in 1..Len(p) : p[i] = q[i]
  <2>1. PICK v : v = SubSeq(q, 1, Len(p))
    OBVIOUS
  <2>2. \A i \in 1..Len(p) : q[i] \in S
    <3>1. \A i \in 1..Len(q) : q[i] \in S
      BY <1>2, LenProperties
    <3> QED
      BY <1>3, <1>5, <3>1
  <2>3. 1 \in Int /\ Len(p) \in Int
    BY <1>3
  <2>4. /\ v \in Seq(S) /\ Len(v) = IF 1 <= Len(p) THEN Len(p) - 1 + 1 ELSE 0
        /\ \A i \in 1..(Len(p) - 1 + 1) : v[i] = q[1 + i - 1]
    BY <2>1, <2>2, <2>3, SubSeqProperties
  <2>5. Len(v) = Len(p)
    BY <1>3, <2>4
  <2>6. \A i \in 1..Len(p) : v[i] = q[i]
    <3>1. ASSUME NEW i \in 1..Len(p) PROVE v[i] = q[i]
      <4>1. i \in 1..(Len(p) - 1 + 1) /\ 1 + i - 1 = i
        BY <1>3
      <4> QED
        BY <2>4, <4>1
    <3> QED
      BY <3>1
  <2>7. (\A i \in 1..Len(p) : p[i] = v[i]) => v = p
    BY <1>2, <2>4, <2>5, SeqEqual
  <2> QED
    BY <2>1, <2>6, <2>7
<1> QED
  BY <1>4, <1>5 DEF IsPrefix

\* The prefixes of a path are in a line.
LEMMA PrefixOrder ==
  ASSUME NEW p, IsSeq(p), NEW q, IsSeq(q)
  PROVE  /\ IsPrefix(p, p)
         /\ IsPrefix(p, q) /\ IsPrefix(q, p) => p = q
<1>1. Len(p) \in Nat /\ Len(q) \in Nat
  BY SeqFact
<1>2. IsPrefix(p, p)
  BY <1>1, PrefixIs
<1>3. ASSUME IsPrefix(p, q), IsPrefix(q, p) PROVE p = q
  <2>1. Len(p) = Len(q) /\ \A i \in 1..Len(p) : p[i] = q[i]
    BY <1>1, <1>3, PrefixIs
  <2> QED
    BY <2>1, SamePath
<1> QED
  BY <1>2, <1>3

\* A path above another is above all that is below that one.
LEMMA PrefixTrans ==
  ASSUME NEW p, IsSeq(p), NEW q, IsSeq(q), NEW r, IsSeq(r), IsPrefix(p, q), IsPrefix(q, r)
  PROVE  IsPrefix(p, r)
<1>1. Len(p) \in Nat /\ Len(q) \in Nat /\ Len(r) \in Nat
  BY SeqFact
<1>2. /\ Len(p) <= Len(q) /\ \A i \in 1..Len(p) : p[i] = q[i]
      /\ Len(q) <= Len(r) /\ \A i \in 1..Len(q) : q[i] = r[i]
  BY PrefixIs
<1>3. Len(p) <= Len(r) /\ \A i \in 1..Len(p) : p[i] = r[i]
  BY <1>1, <1>2
<1> QED
  BY <1>3, PrefixIs

\* Of two paths above a third, one is above the other.
LEMMA PrefixChain ==
  ASSUME NEW p, IsSeq(p), NEW q, IsSeq(q), NEW r, IsSeq(r), IsPrefix(p, r), IsPrefix(q, r)
  PROVE  IsPrefix(p, q) \/ IsPrefix(q, p)
<1>1. Len(p) \in Nat /\ Len(q) \in Nat /\ Len(r) \in Nat
  BY SeqFact
<1>2. /\ Len(p) <= Len(r) /\ \A i \in 1..Len(p) : p[i] = r[i]
      /\ Len(q) <= Len(r) /\ \A i \in 1..Len(q) : q[i] = r[i]
  BY PrefixIs
<1>3. CASE Len(p) <= Len(q)
  <2>1. \A i \in 1..Len(p) : p[i] = q[i]
    BY <1>1, <1>2, <1>3
  <2> QED
    BY <1>3, <2>1, PrefixIs
<1>4. CASE Len(q) <= Len(p)
  <2>1. \A i \in 1..Len(q) : q[i] = p[i]
    BY <1>1, <1>2, <1>4
  <2> QED
    BY <1>4, <2>1, PrefixIs
<1> QED
  BY <1>1, <1>3, <1>4

\* The root is above all paths, and nothing else is above it.
LEMMA PrefixRoot ==
  ASSUME NEW p, IsSeq(p)
  PROVE  /\ IsPrefix(<<>>, p) /\ (IsPrefix(p, <<>>) => p = <<>>)
         /\ Len(p) = 0 <=> p = <<>>
<1>1. IsSeq(<<>>) /\ Len(<<>>) = 0 /\ Len(p) \in Nat
  BY PathSeq, SeqFact
<1>2. Len(p) = 0 => p = <<>>
  BY <1>1, SamePath
<1>3. IsPrefix(<<>>, p)
  BY <1>1, PrefixIs
<1>4. IsPrefix(p, <<>>) => Len(p) = 0
  BY <1>1, PrefixIs
<1> QED
  BY <1>1, <1>2, <1>3, <1>4

\* The names of m are those of target, and of p below source.
MoveOf(m, p, source, target) ==
  /\ Len(m) = Len(target) + (Len(p) - Len(source))
  /\ \A i \in 1..Len(m) : m[i] = IF i <= Len(target) THEN target[i]
                                 ELSE p[(i - Len(target)) + Len(source)]

\* What is moved, name by name.
LEMMA MovedIs ==
  ASSUME NEW p, IsSeq(p), NEW source, IsSeq(source), NEW target, IsSeq(target),
         IsPrefix(source, p), NEW m, m = Moved(p, source, target)
  PROVE  MoveOf(m, p, source, target)
<1>1. PICK S : S = Range(p) \cup Range(target)
  OBVIOUS
<1>2. p \in Seq(S) /\ target \in Seq(S)
  BY <1>1, SeqMonotonic DEF IsSeq
<1>3. Len(p) \in Nat /\ Len(source) \in Nat /\ Len(target) \in Nat /\ Len(source) <= Len(p)
  BY SeqFact, PrefixIs
<1>4. PICK u : u = SubSeq(p, Len(source) + 1, Len(p))
  OBVIOUS
<1>5. /\ u \in Seq(S) /\ Len(u) = Len(p) - Len(source) /\ Len(u) \in Nat
      /\ \A i \in 1..Len(u) : u[i] = p[i + Len(source)]
  <2>1. \A i \in (Len(source) + 1)..Len(p) : p[i] \in S
    <3>1. \A i \in 1..Len(p) : p[i] \in S
      BY <1>2, LenProperties
    <3> QED
      BY <1>3, <3>1
  <2>2. Len(source) + 1 \in Int /\ Len(p) \in Int
    BY <1>3
  <2>3. /\ u \in Seq(S)
        /\ Len(u) = IF Len(source) + 1 <= Len(p) THEN Len(p) - (Len(source) + 1) + 1 ELSE 0
        /\ \A i \in 1..(Len(p) - (Len(source) + 1) + 1) : u[i] = p[(Len(source) + 1) + i - 1]
    BY <1>4, <2>1, <2>2, SubSeqProperties
  <2>4. Len(u) = Len(p) - Len(source)
    BY <1>3, <2>3
  <2>5. ASSUME NEW i \in 1..Len(u) PROVE u[i] = p[i + Len(source)]
    <3>1. i \in 1..(Len(p) - (Len(source) + 1) + 1) /\ (Len(source) + 1) + i - 1 = i + Len(source)
      BY <1>3, <2>4
    <3> QED
      BY <2>3, <3>1
  <2>6. Len(p) - Len(source) \in Nat
    BY <1>3
  <2> QED
    BY <2>3, <2>4, <2>5, <2>6
<1>6. m = target \o u
  BY <1>4 DEF Moved
<1>7. /\ Len(m) = Len(target) + Len(u)
      /\ \A i \in 1..(Len(target) + Len(u)) :
            m[i] = IF i <= Len(target) THEN target[i] ELSE u[i - Len(target)]
  <2>1. PICK w : w = target \o u
    OBVIOUS
  <2>2. /\ w \in Seq(S) /\ Len(w) = Len(target) + Len(u) /\ Len(u) \in Nat
        /\ \A i \in 1..(Len(target) + Len(u)) :
              w[i] = IF i <= Len(target) THEN target[i] ELSE u[i - Len(target)]
    <3>1. target \in Seq(S) /\ u \in Seq(S) /\ Len(u) \in Nat
      BY <1>2, <1>5
    <3> QED
      BY <2>1, <3>1, ConcatProperties
  <2> QED
    BY <1>6, <2>1, <2>2
<1>8. ASSUME NEW i \in 1..Len(m), ~(i <= Len(target))
      PROVE  u[i - Len(target)] = p[(i - Len(target)) + Len(source)]
  <2>1. i - Len(target) \in 1..Len(u)
    BY <1>3, <1>5, <1>7, <1>8
  <2> QED
    BY <1>5, <2>1
<1> QED
  BY <1>5, <1>7, <1>8 DEF MoveOf

\* Moving keeps paths below one another apart.
LEMMA MovedPrefix ==
  ASSUME NEW p, IsSeq(p), NEW q, IsSeq(q), NEW source, IsSeq(source), NEW target, IsSeq(target),
         IsPrefix(source, p), IsPrefix(source, q),
         IsPrefix(Moved(p, source, target), Moved(q, source, target))
  PROVE  IsPrefix(p, q)
<1>1. PICK m : m = Moved(p, source, target)
  OBVIOUS
<1>2. PICK n : n = Moved(q, source, target)
  OBVIOUS
<1>3. /\ Len(p) \in Nat /\ Len(q) \in Nat /\ Len(source) \in Nat /\ Len(target) \in Nat
      /\ Len(source) <= Len(p) /\ \A i \in 1..Len(source) : source[i] = p[i]
      /\ Len(source) <= Len(q) /\ \A i \in 1..Len(source) : source[i] = q[i]
  BY SeqFact, PrefixIs
<1>4. /\ Len(m) = Len(target) + (Len(p) - Len(source))
      /\ \A i \in 1..Len(m) : m[i] = IF i <= Len(target) THEN target[i]
                                     ELSE p[(i - Len(target)) + Len(source)]
  <2>1. MoveOf(m, p, source, target)
    BY <1>1, MovedIs, Zenon
  <2> QED
    BY <2>1 DEF MoveOf
<1>5. /\ Len(n) = Len(target) + (Len(q) - Len(source))
      /\ \A i \in 1..Len(n) : n[i] = IF i <= Len(target) THEN target[i]
                                     ELSE q[(i - Len(target)) + Len(source)]
  <2>1. MoveOf(n, q, source, target)
    BY <1>2, MovedIs, Zenon
  <2> QED
    BY <2>1 DEF MoveOf
<1>6. IsSeq(m) /\ IsSeq(n)
  BY <1>1, <1>2, MovedBack
<1>7. Len(m) <= Len(n) /\ \A i \in 1..Len(m) : m[i] = n[i]
  BY <1>1, <1>2, <1>6, PrefixIs
<1>8. Len(p) <= Len(q)
  BY <1>3, <1>4, <1>5, <1>7
<1>9. ASSUME NEW i \in 1..Len(p) PROVE p[i] = q[i]
  <2>1. CASE i <= Len(source)
    BY <1>3, <2>1
  <2>2. CASE ~(i <= Len(source))
    <3>1. PICK j : j = (i - Len(source)) + Len(target)
      OBVIOUS
    <3>2. /\ j \in 1..Len(m) /\ j \in 1..Len(n) /\ ~(j <= Len(target))
          /\ (j - Len(target)) + Len(source) = i
      BY <1>3, <1>4, <1>5, <1>8, <2>2, <3>1
    <3>3. m[j] = p[i] /\ n[j] = q[i] /\ m[j] = n[j]
      BY <1>4, <1>5, <1>7, <3>2
    <3> QED
      BY <3>3
  <2> QED
    BY <2>1, <2>2
<1> QED
  BY <1>8, <1>9, PrefixIs

\* The length of what is left without the last name.
LEMMA OneLess ==
  \A n \in Nat : n >= 1 => (IF 1 <= n - 1 THEN (n - 1) - 1 + 1 ELSE 0) = n - 1
OBVIOUS

\* A hidden name has the names of the path but for the last, which is longer.
LEMMA HiddenIs ==
  ASSUME NEW p, IsSeq(p), Len(p) # 0, NEW stamp, NEW m, m = HiddenNameFor(p, stamp)
  PROVE  /\ Len(p) \in Nat /\ Len(p) >= 1 /\ Len(m) = Len(p)
         /\ \A i \in 1..(Len(p) - 1) : m[i] = p[i]
         /\ m[Len(p)] = Append(p[Len(p)], stamp)
<1>1. Len(p) \in Nat /\ Len(p) >= 1
  BY SeqFact, PrefixRoot
<1>2. PICK x : x = Append(Last(p), stamp)
  OBVIOUS
<1>3. PICK S : S = Range(p) \cup {x}
  OBVIOUS
<1>4. p \in Seq(S) /\ x \in S
  BY <1>3, SeqMonotonic DEF IsSeq
<1>5. PICK u : u = Front(p)
  OBVIOUS
<1>6. /\ u \in Seq(S) /\ Len(u) = Len(p) - 1 /\ \A i \in 1..(Len(p) - 1) : u[i] = p[i]
  <2>1. \A i \in 1..(Len(p) - 1) : p[i] \in S
    <3>1. \A i \in 1..Len(p) : p[i] \in S
      BY <1>4, LenProperties
    <3> QED
      BY <1>1, <3>1
  <2>2. 1 \in Int /\ Len(p) - 1 \in Int
    BY <1>1
  <2>3. u = SubSeq(p, 1, Len(p) - 1)
    BY <1>5 DEF Front
  <2>4. /\ u \in Seq(S) /\ Len(u) = IF 1 <= Len(p) - 1 THEN (Len(p) - 1) - 1 + 1 ELSE 0
        /\ \A i \in 1..((Len(p) - 1) - 1 + 1) : u[i] = p[1 + i - 1]
    BY <2>1, <2>2, <2>3, SubSeqProperties
  <2>5. ASSUME NEW i \in 1..(Len(p) - 1) PROVE u[i] = p[i]
    <3>1. i \in 1..((Len(p) - 1) - 1 + 1) /\ 1 + i - 1 = i
      BY <1>1
    <3> QED
      BY <2>4, <3>1
  <2>6. Len(u) = Len(p) - 1
    <3>1. Len(u) = IF 1 <= Len(p) - 1 THEN (Len(p) - 1) - 1 + 1 ELSE 0
      BY <2>4
    <3> QED
      BY <1>1, <3>1, OneLess, Zenon
  <2> QED
    BY <2>4, <2>5, <2>6
<1>7. m = Append(u, x)
  BY <1>2, <1>5 DEF HiddenNameFor
<1>8. /\ Len(m) = Len(u) + 1 /\ \A i \in 1..Len(u) : m[i] = u[i] /\ m[Len(u) + 1] = x
  BY <1>4, <1>6, <1>7, AppendProperties
<1>9. Last(p) = p[Len(p)]
  BY DEF Last
<1>10. Len(u) + 1 = Len(p)
  BY <1>1, <1>6
<1>11. m[Len(p)] = x
  <2>1. m[Len(u) + 1] = x
    BY <1>4, <1>6, <1>7, AppendProperties
  <2> QED
    BY <1>10, <2>1
<1> QED
  BY <1>1, <1>2, <1>6, <1>8, <1>9, <1>10, <1>11

-----------------------------------------------------------------------------
(* The shape of the namespace.                                             *)

\* Names that are not hidden.
Plain(p) == \A i \in 1..Len(p) : IsSeq(p[i]) /\ Len(p[i]) = 1

\* Create, Rename and Snapshot are not asked to make hidden names.
PlainTargets == \A p \in Target : Plain(p)

\* Names of a file: only the last one may be hidden.
Named(p) ==
  /\ Len(p) >= 1
  /\ \A i \in 1..Len(p) : IsSeq(p[i]) /\ Len(p[i]) >= 1
  /\ \A i \in 1..(Len(p) - 1) : Len(p[i]) = 1

\* No file is below a file, nor below a hidden name.
Shape(fs) ==
  /\ \A p \in DOMAIN fs : Named(p)
  /\ \A p, q \in DOMAIN fs : IsPrefix(p, q) => p = q

\* Nothing is at the path, below it, or above it except directories.
FreeIn(fs, path) ==
  ~Exists(fs, path) /\ ~IsDirectory(fs, path) /\ ~HasFileAncestor(fs, path)

\* A file is there, or files are below.
Present(fs, path) == Exists(fs, path) \/ IsDirectory(fs, path)

\* Files are not above themselves.
LEMMA ShapeTree ==
  ASSUME NEW fs, Shape(fs), NEW p \in DOMAIN fs
  PROVE  ~HasFileAncestor(fs, p)
BY DEF Shape, HasFileAncestor, IsStrictPrefix

\* No file is on the way to a free path, and none below it.
LEMMA FreeApart ==
  ASSUME NEW fs, IsFiles(fs), Shape(fs), NEW path, IsSeq(path), FreeIn(fs, path), NEW q \in DOMAIN fs
  PROVE  path # <<>> /\ ~IsPrefix(path, q) /\ ~IsPrefix(q, path)
<1>1. path # <<>> /\ q # path
  BY DEF FreeIn, IsDirectory, Exists
<1>2. q # <<>>
  <2>1. IsSeq(q) /\ Len(q) >= 1
    BY DEF IsFiles, Shape, Named
  <2>2. Len(q) # 0
    BY <2>1, SeqFact
  <2> QED
    BY <2>1, <2>2, PrefixRoot
<1>3. ~IsPrefix(path, q)
  BY <1>1 DEF FreeIn, IsDirectory, IsStrictPrefix
<1>4. ~IsPrefix(q, path)
  BY <1>1, <1>2 DEF FreeIn, HasFileAncestor, IsStrictPrefix
<1> QED
  BY <1>1, <1>3, <1>4

\* The other way round.
LEMMA ApartFree ==
  ASSUME NEW fs, NEW path, path # <<>>,
         \A q \in DOMAIN fs : ~IsPrefix(path, q) /\ ~IsPrefix(q, path),
         IsSeq(path)
  PROVE  FreeIn(fs, path)
<1>1. ~Exists(fs, path)
  BY PrefixOrder DEF Exists
<1> QED
  BY <1>1 DEF FreeIn, IsDirectory, HasFileAncestor, IsStrictPrefix

\* What is below a free path is as far from other files.
LEMMA FreeBelow ==
  ASSUME NEW fs, IsFiles(fs), Shape(fs), NEW path, IsSeq(path), FreeIn(fs, path),
         NEW q \in DOMAIN fs, NEW n, IsSeq(n), IsPrefix(path, n)
  PROVE  ~IsPrefix(n, q) /\ ~IsPrefix(q, n)
<1>1. ~IsPrefix(path, q) /\ ~IsPrefix(q, path) /\ IsSeq(q)
  BY FreeApart DEF IsFiles
<1>2. ~IsPrefix(n, q)
  BY <1>1, PrefixTrans
<1>3. ~IsPrefix(q, n)
  BY <1>1, PrefixChain
<1> QED
  BY <1>2, <1>3

\* Files come, apart from those that stay and from each other.
LEMMA ShapeGrows ==
  ASSUME NEW fs, Shape(fs), NEW gs, NEW N, DOMAIN gs \subseteq DOMAIN fs \cup N,
         \A n \in N : Named(n),
         \A n, m \in N : IsPrefix(n, m) => n = m,
         \A n \in N : \A q \in DOMAIN gs \cap DOMAIN fs :
           (IsPrefix(n, q) => n = q) /\ (IsPrefix(q, n) => q = n)
  PROVE  Shape(gs)
<1>1. \A p \in DOMAIN gs : Named(p)
  BY DEF Shape
<1>2. ASSUME NEW p \in DOMAIN gs, NEW q \in DOMAIN gs, IsPrefix(p, q) PROVE p = q
  <2>1. CASE p \in DOMAIN fs /\ q \in DOMAIN fs
    BY <1>2, <2>1 DEF Shape
  <2>2. CASE p \in DOMAIN fs /\ q \in N
    BY <1>2, <2>2
  <2>3. CASE p \in N /\ q \in DOMAIN fs
    BY <1>2, <2>3
  <2>4. CASE p \in N /\ q \in N
    BY <1>2, <2>4
  <2> QED
    BY <2>1, <2>2, <2>3, <2>4
<1> QED
  BY <1>1, <1>2 DEF Shape

\* A path that may be made is named like a file.
LEMMA PlainNamed ==
  ASSUME NEW p, IsSeq(p), Plain(p), p # <<>>
  PROVE  Named(p) /\ Len(p) >= 1
<1>1. Len(p) \in Nat /\ Len(p) # 0
  BY SeqFact, PrefixRoot
<1>2. \A i \in 1..Len(p) : IsSeq(p[i]) /\ Len(p[i]) = 1
  BY DEF Plain
<1>3. \A i \in 1..(Len(p) - 1) : i \in 1..Len(p)
  BY <1>1
<1>4. Len(p) >= 1
  BY <1>1
<1>5. \A i \in 1..Len(p) : IsSeq(p[i]) /\ Len(p[i]) >= 1
  BY <1>2, SeqFact
<1>6. \A i \in 1..(Len(p) - 1) : Len(p[i]) = 1
  BY <1>2, <1>3
<1> QED
  BY <1>4, <1>5, <1>6, Zenon DEF Named

\* What is moved to such a path keeps a hidden name only at its end.
LEMMA MovedNamed ==
  ASSUME NEW p, IsSeq(p), Named(p), NEW source, IsSeq(source), IsPrefix(source, p),
         NEW target, IsSeq(target), Plain(target), Len(target) >= 1,
         NEW m, m = Moved(p, source, target)
  PROVE  Named(m)
<1>1. /\ Len(m) = Len(target) + (Len(p) - Len(source))
      /\ \A i \in 1..Len(m) : m[i] = IF i <= Len(target) THEN target[i]
                                     ELSE p[(i - Len(target)) + Len(source)]
  <2>1. MoveOf(m, p, source, target)
    BY MovedIs, Zenon
  <2> QED
    BY <2>1 DEF MoveOf
<1>2. /\ Len(p) \in Nat /\ Len(source) \in Nat /\ Len(target) \in Nat /\ Len(source) <= Len(p)
      /\ Len(m) \in Nat
  <2>1. Len(p) \in Nat /\ Len(source) \in Nat /\ Len(target) \in Nat /\ Len(source) <= Len(p)
    BY SeqFact, PrefixIs
  <2> QED
    BY <1>1, <2>1
<1>3. ASSUME NEW i \in 1..Len(m), i <= Len(target)
      PROVE  IsSeq(m[i]) /\ Len(m[i]) = 1
  <2>1. i \in 1..Len(target) /\ m[i] = target[i]
    BY <1>1, <1>2, <1>3
  <2> QED
    BY <2>1 DEF Plain
<1>4. ASSUME NEW i \in 1..Len(m), ~(i <= Len(target))
      PROVE  IsSeq(m[i]) /\ Len(m[i]) >= 1 /\ (i # Len(m) => Len(m[i]) = 1)
  <2>1. PICK j : j = (i - Len(target)) + Len(source)
    OBVIOUS
  <2>2. j \in 1..Len(p) /\ (i # Len(m) => j \in 1..(Len(p) - 1))
    <3>1. i \in Int /\ i >= 1 /\ i <= Len(m) /\ i > Len(target)
      BY <1>2, <1>4
    <3>2. Len(m) = Len(target) + (Len(p) - Len(source))
      BY <1>1
    <3> QED
      BY <1>2, <2>1, <3>1, <3>2
  <2>3. m[i] = p[j]
    BY <1>1, <1>4, <2>1
  <2> QED
    BY <2>2, <2>3 DEF Named
<1>5. \A i \in 1..Len(m) : IsSeq(m[i]) /\ Len(m[i]) >= 1
  BY <1>3, <1>4
<1>6. ASSUME NEW i \in 1..(Len(m) - 1) PROVE Len(m[i]) = 1
  <2>1. i \in 1..Len(m) /\ i # Len(m)
    BY <1>2
  <2> QED
    BY <1>3, <1>4, <2>1
<1>7. Len(m) >= 1
  BY <1>1, <1>2
<1> QED
  BY <1>5, <1>6, <1>7 DEF Named

\* x is a name beside a file that is there, and hidden.
Beside(fs, x) ==
  /\ x \notin DOMAIN fs /\ IsSeq(x) /\ Named(x) /\ Len(x[Len(x)]) # 1
  /\ \E p \in DOMAIN fs : Len(p) = Len(x) /\ \A i \in 1..(Len(x) - 1) : p[i] = x[i]

\* HiddenNameFor makes such a name.
LEMMA HiddenBeside ==
  ASSUME NEW fs, IsFiles(fs), Shape(fs), NEW p \in DOMAIN fs, NEW stamp,
         NEW x, x = HiddenNameFor(p, stamp), x \notin DOMAIN fs
  PROVE  Beside(fs, x)
<1>1. IsSeq(p) /\ Named(p) /\ Len(p) \in Nat /\ Len(p) # 0
  <2>1. IsSeq(p) /\ Named(p) /\ Len(p) >= 1
    BY DEF IsFiles, Shape, Named
  <2> QED
    BY <2>1, SeqFact
<1>2. /\ Len(p) >= 1 /\ Len(x) = Len(p)
      /\ \A i \in 1..(Len(p) - 1) : x[i] = p[i]
      /\ x[Len(p)] = Append(p[Len(p)], stamp)
  BY <1>1, HiddenIs
<1>3. IsSeq(x)
  BY <1>1, HiddenSeq
<1>4. \A i \in 1..Len(p) : IsSeq(p[i]) /\ Len(p[i]) >= 1
  BY <1>1 DEF Named
<1>5. IsSeq(x[Len(p)]) /\ Len(x[Len(p)]) = Len(p[Len(p)]) + 1
  <2>1. PICK l : l = p[Len(p)]
    OBVIOUS
  <2>2. PICK S : S = Range(l) \cup {stamp}
    OBVIOUS
  <2>3. IsSeq(l)
    BY <1>1, <1>4, <2>1
  <2>4. l \in Seq(S) /\ stamp \in S
    BY <2>2, <2>3, SeqMonotonic DEF IsSeq
  <2>5. Append(l, stamp) \in Seq(S) /\ Len(Append(l, stamp)) = Len(l) + 1
    BY <2>4, AppendProperties
  <2> QED
    BY <1>2, <2>1, <2>5, SeqIsSeq
<1>6. IsSeq(x[Len(x)]) /\ Len(x[Len(x)]) >= 1 /\ Len(x[Len(x)]) # 1
  <2>1. Len(p) \in 1..Len(p)
    BY <1>1
  <2>2. Len(p[Len(p)]) >= 1 /\ Len(p[Len(p)]) \in Nat
    BY <1>4, <2>1, SeqFact
  <2>3. Len(p[Len(p)]) + 1 >= 1 /\ Len(p[Len(p)]) + 1 # 1
    BY <2>2
  <2> QED
    BY <1>2, <1>5, <2>3
<1>7. \A i \in 1..(Len(p) - 1) : i \in 1..Len(p) /\ Len(p[i]) = 1
  BY <1>1 DEF Named
<1>8. Named(x)
  <2>1. \A i \in 1..(Len(x) - 1) : IsSeq(x[i]) /\ Len(x[i]) = 1 /\ Len(x[i]) >= 1
    BY <1>2, <1>4, <1>7
  <2>2. ASSUME NEW i \in 1..Len(x) PROVE IsSeq(x[i]) /\ Len(x[i]) >= 1
    <3>1. i = Len(x) \/ i \in 1..(Len(x) - 1)
      BY <1>1, <1>2
    <3> QED
      BY <1>6, <2>1, <3>1
  <2> QED
    BY <1>2, <2>1, <2>2 DEF Named
<1> QED
  BY <1>2, <1>3, <1>6, <1>8 DEF Beside

\* A hidden name beside a file is not below or above other files.
LEMMA BesideApart ==
  ASSUME NEW fs, IsFiles(fs), Shape(fs), NEW x, Beside(fs, x), NEW q \in DOMAIN fs
  PROVE  ~IsPrefix(x, q) /\ ~IsPrefix(q, x)
<1>1. /\ IsSeq(x) /\ Len(x) >= 1 /\ Len(x) \in Nat /\ Len(x[Len(x)]) # 1 /\ x \notin DOMAIN fs
      /\ IsSeq(q) /\ Len(q) \in Nat
  BY SeqFact DEF Beside, Named, IsFiles
<1>2. PICK p \in DOMAIN fs : Len(p) = Len(x) /\ \A i \in 1..(Len(x) - 1) : p[i] = x[i]
  BY DEF Beside
<1>3. IsSeq(p)
  BY DEF IsFiles
<1>4. ~IsPrefix(x, q)
  <2> SUFFICES ASSUME IsPrefix(x, q) PROVE FALSE
    OBVIOUS
  <2>1. Len(x) <= Len(q) /\ \A i \in 1..Len(x) : x[i] = q[i]
    BY <1>1, PrefixIs
  <2>2. Len(x) # Len(q)
    BY <1>1, <2>1, SamePath
  <2>3. Len(x) \in 1..(Len(q) - 1) /\ Len(x) \in 1..Len(x)
    BY <1>1, <2>1, <2>2
  <2>4. Len(q[Len(x)]) = 1
    BY <2>3 DEF Shape, Named
  <2>5. x[Len(x)] = q[Len(x)]
    BY <2>1, <2>3
  <2> QED
    BY <1>1, <2>4, <2>5
<1>5. ~IsPrefix(q, x)
  <2> SUFFICES ASSUME IsPrefix(q, x) PROVE FALSE
    OBVIOUS
  <2>1. Len(q) <= Len(x) /\ \A i \in 1..Len(q) : q[i] = x[i]
    BY <1>1, PrefixIs
  <2>2. Len(x) # Len(q)
    BY <1>1, <2>1, SamePath
  <2>3. \A i \in 1..Len(q) : q[i] = p[i]
    BY <1>1, <1>2, <2>1, <2>2
  <2>4. IsPrefix(q, p)
    BY <1>1, <1>2, <1>3, <2>1, <2>3, PrefixIs
  <2>5. q = p
    BY <2>4 DEF Shape
  <2> QED
    BY <1>2, <2>2, <2>5
<1> QED
  BY <1>4, <1>5

-----------------------------------------------------------------------------
(* What calls know of the namespace, and what others do to it.             *)

\* Chunk h is in no file but in this place of this file.
OnlyAt(fs, h, path, index) ==
  \A p \in DOMAIN fs : \A i \in DOMAIN fs[p] : fs[p][i] = h => p = path /\ i = index + 1

\* Rename and Snapshot between their checks and their last part.
TwoPathsOK(k, fs) ==
  k.pc \in {"rename", "snapshot"} =>
    /\ k.op = k.pc /\ k.target \in Target /\ ~IsPrefix(k.path, k.target)
    /\ Present(fs, k.path) /\ FreeIn(fs, k.target)

\* AddChunk knows the end of the file.
AddOK(k, fs) ==
  k.op = "add" /\ k.pc \in {"alloc", "create", "created"} =>
    k.path \in DOMAIN fs /\ k.index = Len(fs[k.path])

\* A lease is granted, or was, on a chunk that no other file has.
LeaseOK(k, fs) ==
  k.op = "lease" /\ k.pc \in {"replaced", "grant", "round"} =>
    OnlyAt(fs, k.handle, k.path, k.index)

\* Before CopyOnWrite has cow_mutex_ another call may have replaced the chunk.
CowOK(k, fs) ==
  k.pc = "cow" =>
    /\ k.op = "lease" /\ k.path \in DOMAIN fs /\ k.index + 1 \in DOMAIN fs[k.path]
    /\ \/ fs[k.path][k.index + 1] = k.handle
       \/ OnlyAt(fs, fs[k.path][k.index + 1], k.path, k.index)

\* CopyOnWrite makes the copy for a chunk that the file has.
CopyOK(k, fs) ==
  k.op = "lease" /\ k.pc \in {"alloc", "create", "created"} =>
    k.path \in DOMAIN fs /\ k.index + 1 \in DOMAIN fs[k.path]

\* What a call knows of files stays so until it acts on it.
CheckOK(k, fs) ==
  /\ TwoPathsOK(k, fs) /\ AddOK(k, fs) /\ LeaseOK(k, fs) /\ CowOK(k, fs) /\ CopyOK(k, fs)
  /\ k.pc \in {"alloc", "create", "created", "failed"} => k.op \in {"add", "lease"}

\* A writer with the paths W locked turns files fs into gs: others stay, but for
\* hidden names X beside files, and the chunks new come into files.
Changed(fs, gs, W, X, new) ==
  /\ \A p \in DOMAIN fs : (\A w \in W : ~IsPrefix(w, p)) => p \in DOMAIN gs /\ gs[p] = fs[p]
  /\ \A q \in DOMAIN gs : q \in DOMAIN fs \/ q \in X \/ \E w \in W : IsPrefix(w, q)
  /\ \A q \in DOMAIN gs : \A i \in DOMAIN gs[q] :
       \/ gs[q][i] \in new
       \/ q \in DOMAIN fs /\ i \in DOMAIN fs[q] /\ fs[q][i] = gs[q][i]
       \/ \E p \in DOMAIN fs, w \in W : IsPrefix(w, p) /\ \E j \in DOMAIN fs[p] : fs[p][j] = gs[q][i]
  /\ \A x \in X : Beside(fs, x)

\* None of the paths W is in the way of what call k has locked, or the other
\* way round.
Clear(k, W) ==
  \A w \in W : /\ IsSeq(w)
               /\ \A q \in Locks(k) : ~IsPrefix(w, q)
               /\ \A p \in WriteLocks(k) : ~IsPrefix(p, w)

\* What the operations lock.
LEMMA LocksOf ==
  ASSUME NEW k
  PROVE  /\ k.op \in {"rename", "snapshot"} =>
              WriteLocks(k) = {k.path, k.target} /\ Locks(k) = {k.path, k.target}
         /\ k.op \in {"create", "remove", "add"} => WriteLocks(k) = {k.path} /\ Locks(k) = {k.path}
         /\ k.op = "lease" => WriteLocks(k) = {} /\ Locks(k) = {k.path}
         /\ k.op \in {"none", "regrant"} => WriteLocks(k) = {} /\ Locks(k) = {}
<1>1. k.op \in {"rename", "snapshot"} => WriteLocks(k) = {k.path, k.target}
  BY DEF WriteLocks
<1>2. k.op \in {"create", "remove", "add"} => WriteLocks(k) = {k.path}
  BY DEF WriteLocks
<1>3. k.op \in {"lease", "none", "regrant"} => WriteLocks(k) = {}
  BY DEF WriteLocks
<1>4. k.op \in {"rename", "snapshot", "create", "remove", "add", "none", "regrant"} =>
        Locks(k) = WriteLocks(k)
  BY DEF Locks
<1>5. k.op = "lease" => Locks(k) = WriteLocks(k) \cup {k.path}
  BY DEF Locks
<1> QED
  BY <1>1, <1>2, <1>3, <1>4, <1>5

\* A free target stays free.
LEMMA FreeKept ==
  ASSUME NEW fs, IsFiles(fs), Shape(fs), NEW gs, IsFiles(gs), NEW W, NEW X, NEW new,
         Changed(fs, gs, W, X, new), NEW target, IsSeq(target), Plain(target),
         FreeIn(fs, target),
         \A w \in W : IsSeq(w) /\ ~IsPrefix(w, target) /\ ~IsPrefix(target, w)
  PROVE  FreeIn(gs, target)
<1>2. target # <<>>
  BY DEF FreeIn, IsDirectory
<1>3. ASSUME NEW q \in DOMAIN gs PROVE ~IsPrefix(target, q) /\ ~IsPrefix(q, target)
  <2>1. IsSeq(q)
    BY DEF IsFiles
  <2>2. CASE q \in DOMAIN fs
    BY <2>2, FreeApart
  <2>3. CASE q \in X
    <3>1. Beside(fs, q)
      BY <2>3 DEF Changed
    <3>2. PICK p \in DOMAIN fs : Len(p) = Len(q) /\ \A i \in 1..(Len(q) - 1) : p[i] = q[i]
      BY <3>1 DEF Beside
    <3>3. IsSeq(p) /\ Len(q) \in Nat /\ Len(target) \in Nat /\ Len(q) >= 1 /\ Len(q[Len(q)]) # 1
      BY <2>1, <3>1, SeqFact DEF Beside, Named, IsFiles
    <3>4. ~IsPrefix(target, p)
      BY FreeApart
    <3>5. ~IsPrefix(q, target)
      <4> SUFFICES ASSUME IsPrefix(q, target) PROVE FALSE
        OBVIOUS
      <4>1. Len(q) <= Len(target) /\ \A i \in 1..Len(q) : q[i] = target[i]
        BY <2>1, PrefixIs
      <4>2. Len(q) \in 1..Len(q) /\ Len(q) \in 1..Len(target)
        BY <3>3, <4>1
      <4> QED
        BY <3>3, <4>1, <4>2 DEF Plain
    <3>6. ~IsPrefix(target, q)
      <4> SUFFICES ASSUME IsPrefix(target, q) PROVE FALSE
        OBVIOUS
      <4>1. Len(target) <= Len(q) /\ \A i \in 1..Len(target) : target[i] = q[i]
        BY <2>1, PrefixIs
      <4>2. Len(target) # Len(q)
        BY <2>1, <3>5, <4>1, SamePath
      <4>3. \A i \in 1..Len(target) : target[i] = p[i]
        BY <3>2, <3>3, <4>1, <4>2
      <4> QED
        BY <3>2, <3>3, <3>4, <4>1, <4>3, PrefixIs
    <3> QED
      BY <3>5, <3>6
  <2>4. CASE \E w \in W : IsPrefix(w, q)
    <3>1. PICK w \in W : IsPrefix(w, q)
      BY <2>4
    <3>2. IsSeq(w) /\ ~IsPrefix(w, target) /\ ~IsPrefix(target, w)
      OBVIOUS
    <3> QED
      BY <2>1, <3>1, <3>2, PrefixChain, PrefixTrans
  <2> QED
    BY <2>2, <2>3, <2>4 DEF Changed
<1> QED
  BY <1>2, <1>3, ApartFree

\* A source stays where it is.
LEMMA PresentKept ==
  ASSUME NEW fs, IsFiles(fs), NEW gs, NEW W, NEW X, NEW new, Changed(fs, gs, W, X, new),
         NEW path, IsSeq(path), Present(fs, path),
         \A w \in W : IsSeq(w) /\ ~IsPrefix(w, path) /\ ~IsPrefix(path, w)
  PROVE  Present(gs, path)
<1>1. CASE path = <<>>
  BY <1>1 DEF Present, IsDirectory
<1>2. CASE path # <<>>
  <2>1. PICK p \in DOMAIN fs : IsPrefix(path, p)
    BY <1>2, PrefixOrder DEF Present, Exists, IsDirectory, IsStrictPrefix
  <2>2. IsSeq(p)
    BY DEF IsFiles
  <2>3. \A w \in W : ~IsPrefix(w, p)
    BY <2>1, <2>2, PrefixChain
  <2>4. p \in DOMAIN gs
    BY <2>3 DEF Changed
  <2> QED
    BY <2>1, <2>4 DEF Present, Exists, IsDirectory, IsStrictPrefix
<1> QED
  BY <1>1, <1>2

\* A chunk that one file has comes into no other file.
LEMMA OnlyKept ==
  ASSUME NEW fs, NEW gs, NEW W, NEW X, NEW new, Changed(fs, gs, W, X, new),
         NEW h, h \notin new, NEW path, NEW index, OnlyAt(fs, h, path, index),
         \A w \in W : ~IsPrefix(w, path)
  PROVE  OnlyAt(gs, h, path, index)
<1>1. ASSUME NEW q \in DOMAIN gs, NEW i \in DOMAIN gs[q], gs[q][i] = h
      PROVE  q = path /\ i = index + 1
  <2>1. CASE q \in DOMAIN fs /\ i \in DOMAIN fs[q] /\ fs[q][i] = gs[q][i]
    BY <1>1, <2>1 DEF OnlyAt
  <2>2. CASE \E p \in DOMAIN fs, w \in W : IsPrefix(w, p) /\ \E j \in DOMAIN fs[p] : fs[p][j] = gs[q][i]
    <3>1. PICK p \in DOMAIN fs, w \in W : IsPrefix(w, p) /\ \E j \in DOMAIN fs[p] : fs[p][j] = gs[q][i]
      BY <2>2
    <3>2. p = path
      BY <1>1, <3>1 DEF OnlyAt
    <3> QED
      BY <3>1, <3>2
  <2> QED
    BY <1>1, <2>1, <2>2 DEF Changed
<1> QED
  BY <1>1 DEF OnlyAt

\* What a call knows stays so when another one writes elsewhere.
LEMMA CheckKept ==
  ASSUME PlainTargets,
         NEW fs, IsFiles(fs), Shape(fs), NEW gs, IsFiles(gs), NEW W, NEW X, NEW new,
         Changed(fs, gs, W, X, new), NEW k, CallType(k), CheckOK(k, fs), Clear(k, W),
         k.op = "lease" /\ k.pc \in {"replaced", "grant", "round"} => k.handle \notin new,
         \A h \in Used(fs) : h \notin new
  PROVE  CheckOK(k, gs)
<1>1. TwoPathsOK(k, gs)
  <2> SUFFICES ASSUME k.pc \in {"rename", "snapshot"}
               PROVE  Present(gs, k.path) /\ FreeIn(gs, k.target)
    BY DEF CheckOK, TwoPathsOK
  <2>1. /\ k.op \in {"rename", "snapshot"} /\ k.target \in Target
        /\ Present(fs, k.path) /\ FreeIn(fs, k.target) /\ IsSeq(k.path) /\ IsSeq(k.target)
    BY DEF CheckOK, TwoPathsOK, CallType
  <2>2. \A w \in W : /\ IsSeq(w) /\ ~IsPrefix(w, k.path) /\ ~IsPrefix(k.path, w)
                     /\ ~IsPrefix(w, k.target) /\ ~IsPrefix(k.target, w)
    BY <2>1, LocksOf DEF Clear
  <2>3. Present(gs, k.path)
    BY <2>1, <2>2, PresentKept
  <2>4. FreeIn(gs, k.target)
    BY <2>1, <2>2, FreeKept DEF PlainTargets
  <2> QED
    BY <2>3, <2>4
<1>2. AddOK(k, gs)
  <2> SUFFICES ASSUME k.op = "add", k.pc \in {"alloc", "create", "created"}
               PROVE  k.path \in DOMAIN gs /\ k.index = Len(gs[k.path])
    BY DEF AddOK
  <2>1. k.path \in DOMAIN fs /\ k.index = Len(fs[k.path])
    BY DEF CheckOK, AddOK
  <2>2. \A w \in W : ~IsPrefix(w, k.path)
    BY LocksOf DEF Clear
  <2> QED
    BY <2>1, <2>2 DEF Changed
<1>3. LeaseOK(k, gs)
  <2> SUFFICES ASSUME k.op = "lease", k.pc \in {"replaced", "grant", "round"}
               PROVE  OnlyAt(gs, k.handle, k.path, k.index)
    BY DEF LeaseOK
  <2>1. OnlyAt(fs, k.handle, k.path, k.index) /\ k.handle \notin new
    BY DEF CheckOK, LeaseOK
  <2>2. \A w \in W : ~IsPrefix(w, k.path)
    BY LocksOf DEF Clear
  <2> QED
    BY <2>1, <2>2, OnlyKept
<1>4. CowOK(k, gs)
  <2> SUFFICES ASSUME k.pc = "cow"
               PROVE  /\ k.path \in DOMAIN gs /\ k.index + 1 \in DOMAIN gs[k.path]
                      /\ \/ gs[k.path][k.index + 1] = k.handle
                         \/ OnlyAt(gs, gs[k.path][k.index + 1], k.path, k.index)
    BY DEF CheckOK, CowOK
  <2>1. /\ k.op = "lease" /\ k.path \in DOMAIN fs /\ k.index + 1 \in DOMAIN fs[k.path]
        /\ \/ fs[k.path][k.index + 1] = k.handle
           \/ OnlyAt(fs, fs[k.path][k.index + 1], k.path, k.index)
    BY DEF CheckOK, CowOK
  <2>2. \A w \in W : ~IsPrefix(w, k.path)
    BY <2>1, LocksOf DEF Clear
  <2>3. k.path \in DOMAIN gs /\ gs[k.path] = fs[k.path]
    BY <2>1, <2>2 DEF Changed
  <2>4. PICK h : h = fs[k.path][k.index + 1]
    OBVIOUS
  <2>5. h \notin new
    BY <2>1, <2>4 DEF Used, Range
  <2>6. OnlyAt(fs, h, k.path, k.index) => OnlyAt(gs, h, k.path, k.index)
    BY <2>2, <2>5, OnlyKept
  <2> QED
    BY <2>1, <2>3, <2>4, <2>6
<1>5. CopyOK(k, gs)
  <2> SUFFICES ASSUME k.op = "lease", k.pc \in {"alloc", "create", "created"}
               PROVE  k.path \in DOMAIN gs /\ k.index + 1 \in DOMAIN gs[k.path]
    BY DEF CopyOK
  <2>1. k.path \in DOMAIN fs /\ k.index + 1 \in DOMAIN fs[k.path]
    BY DEF CheckOK, CopyOK
  <2>2. \A w \in W : ~IsPrefix(w, k.path)
    BY LocksOf DEF Clear
  <2> QED
    BY <2>1, <2>2 DEF Changed
<1> QED
  BY <1>1, <1>2, <1>3, <1>4, <1>5 DEF CheckOK

-----------------------------------------------------------------------------
(* What the records do to the namespace.                                   *)

\* A file is created where nothing is in the way.
LEMMA CreateFiles ==
  ASSUME NEW fs, IsFiles(fs), Shape(fs), NEW path, IsSeq(path), Plain(path), FreeIn(fs, path),
         NEW gs, DOMAIN gs = DOMAIN fs \cup {path}, gs[path] = <<>>,
         \A p \in DOMAIN fs : gs[p] = fs[p]
  PROVE  Shape(gs) /\ Changed(fs, gs, {path}, {}, {})
<1>1. path # <<>> /\ Named(path)
  BY PlainNamed DEF FreeIn, IsDirectory
<1>2. \A q \in DOMAIN fs : ~IsPrefix(path, q) /\ ~IsPrefix(q, path)
  BY FreeApart
<1>3. Shape(gs)
  <2>1. PICK N : N = {path}
    OBVIOUS
  <2>2. DOMAIN gs \subseteq DOMAIN fs \cup N
    BY <2>1
  <2>3. \A n \in N : Named(n)
    BY <1>1, <2>1
  <2>4. \A n, m \in N : IsPrefix(n, m) => n = m
    BY <2>1
  <2>5. \A n \in N : \A q \in DOMAIN gs \cap DOMAIN fs :
          (IsPrefix(n, q) => n = q) /\ (IsPrefix(q, n) => q = n)
    BY <1>2, <2>1
  <2> QED
    BY <2>2, <2>3, <2>4, <2>5, ShapeGrows
<1>4. \A q \in DOMAIN gs : q \in DOMAIN fs \/ \E w \in {path} : IsPrefix(w, q)
  BY PrefixOrder
<1>5. ASSUME NEW q \in DOMAIN gs, NEW i \in DOMAIN gs[q]
      PROVE  q \in DOMAIN fs /\ i \in DOMAIN fs[q] /\ fs[q][i] = gs[q][i]
  <2>1. q # path
    BY <1>5
  <2> QED
    BY <1>5, <2>1
<1>6. \A p \in DOMAIN fs : p \in DOMAIN gs /\ gs[p] = fs[p]
  OBVIOUS
<1> QED
  BY <1>3, <1>4, <1>5, <1>6 DEF Changed

\* The paths N are where the paths P go.
Images(N, P, source, target) == N = {Moved(p, source, target) : p \in P}

\* The paths N below target are apart from the files fs and from each other.
NewBelow(N, target, fs) ==
  /\ \A n \in N : IsSeq(n) /\ Named(n) /\ IsPrefix(target, n)
  /\ \A n, m \in N : IsPrefix(n, m) => n = m
  /\ \A n \in N : \A q \in DOMAIN fs : ~IsPrefix(n, q) /\ ~IsPrefix(q, n)

\* What is moved or copied to a free target is apart from what is there.
LEMMA MovedApart ==
  ASSUME NEW fs, IsFiles(fs), Shape(fs), NEW source, IsSeq(source), NEW target, IsSeq(target),
         Plain(target), FreeIn(fs, target), NEW P, P \subseteq DOMAIN fs,
         \A p \in P : IsPrefix(source, p),
         NEW N, N = {Moved(p, source, target) : p \in P}
  PROVE  NewBelow(N, target, fs)
<1>1. Len(target) >= 1
  <2>1. target # <<>>
    BY DEF FreeIn, IsDirectory
  <2> QED
    BY <2>1, PlainNamed
<1>2. ASSUME NEW p \in P
      PROVE  LET n == Moved(p, source, target) IN
             /\ IsSeq(p) /\ IsSeq(n) /\ Named(n) /\ IsPrefix(target, n)
             /\ Moved(n, target, source) = p
  <2>1. IsSeq(p) /\ Named(p) /\ IsPrefix(source, p)
    BY DEF IsFiles, Shape
  <2>2. PICK n : n = Moved(p, source, target)
    OBVIOUS
  <2>3. Named(n)
    BY <1>1, <2>1, <2>2, MovedNamed
  <2>4. IsSeq(n) /\ IsPrefix(target, n) /\ Moved(n, target, source) = p
    BY <2>1, <2>2, MovedBack
  <2> QED
    BY <2>1, <2>2, <2>3, <2>4
<1>3. \A n \in N : IsSeq(n) /\ Named(n) /\ IsPrefix(target, n)
  BY <1>2
<1>4. ASSUME NEW n \in N, NEW m \in N, IsPrefix(n, m) PROVE n = m
  <2>1. PICK p \in P : n = Moved(p, source, target)
    OBVIOUS
  <2>2. PICK q \in P : m = Moved(q, source, target)
    OBVIOUS
  <2>3. IsSeq(p) /\ IsSeq(q) /\ IsPrefix(source, p) /\ IsPrefix(source, q)
    BY <1>2
  <2>4. IsPrefix(p, q)
    BY <1>4, <2>1, <2>2, <2>3, MovedPrefix
  <2>5. p = q
    BY <2>4 DEF Shape
  <2> QED
    BY <2>1, <2>2, <2>5
<1>5. \A n \in N : \A q \in DOMAIN fs : ~IsPrefix(n, q) /\ ~IsPrefix(q, n)
  BY <1>3, FreeBelow
<1> QED
  BY <1>3, <1>4, <1>5 DEF NewBelow

\* Files gs are fs, with those in sub moved from source to target.
Renamed(fs, gs, sub, moved, source, target) ==
  /\ IsFiles(gs) /\ DOMAIN gs = (DOMAIN fs \ sub) \cup moved
  /\ \A p \in sub : gs[Moved(p, source, target)] = fs[p]
  /\ \A p \in (DOMAIN fs \ sub) \ moved : gs[p] = fs[p]

\* A subtree is moved to a free target.
LEMMA RenameFiles ==
  ASSUME NEW fs, IsFiles(fs), Shape(fs), NEW source, IsSeq(source), NEW target, IsSeq(target),
         Plain(target), FreeIn(fs, target),
         NEW sub, sub = {p \in DOMAIN fs : IsPrefix(source, p)},
         NEW moved, Images(moved, sub, source, target),
         NEW gs, Renamed(fs, gs, sub, moved, source, target)
  PROVE  /\ Shape(gs) /\ Changed(fs, gs, {source, target}, {}, {})
         /\ moved \cap DOMAIN fs = {}
<1>0. /\ moved = {Moved(p, source, target) : p \in sub}
      /\ DOMAIN gs = (DOMAIN fs \ sub) \cup moved
      /\ \A p \in sub : gs[Moved(p, source, target)] = fs[p]
      /\ \A p \in (DOMAIN fs \ sub) \ moved : gs[p] = fs[p]
  BY DEF Images, Renamed
<1>1. /\ \A n \in moved : IsSeq(n) /\ Named(n) /\ IsPrefix(target, n)
      /\ \A n, m \in moved : IsPrefix(n, m) => n = m
      /\ \A n \in moved : \A q \in DOMAIN fs : ~IsPrefix(n, q) /\ ~IsPrefix(q, n)
  <2>1. sub \subseteq DOMAIN fs /\ \A p \in sub : IsPrefix(source, p)
    OBVIOUS
  <2>2. NewBelow(moved, target, fs)
    BY <1>0, <2>1, MovedApart, Zenon
  <2> QED
    BY <2>2 DEF NewBelow
<1>2. moved \cap DOMAIN fs = {}
  BY <1>1, PrefixOrder
<1>3. Shape(gs)
  <2>1. DOMAIN gs \subseteq DOMAIN fs \cup moved
    BY <1>0
  <2> QED
    BY <1>1, <2>1, ShapeGrows
<1>4. \A p \in DOMAIN fs : ~IsPrefix(source, p) => p \in DOMAIN gs /\ gs[p] = fs[p]
  BY <1>0, <1>2
<1>5. \A q \in DOMAIN gs : q \in DOMAIN fs \/ IsPrefix(target, q)
  BY <1>0, <1>1
<1>6. ASSUME NEW q \in DOMAIN gs, NEW i \in DOMAIN gs[q]
      PROVE  \/ q \in DOMAIN fs /\ i \in DOMAIN fs[q] /\ fs[q][i] = gs[q][i]
             \/ \E p \in DOMAIN fs : IsPrefix(source, p) /\ \E j \in DOMAIN fs[p] : fs[p][j] = gs[q][i]
  <2>1. CASE q \in moved
    <3>1. PICK p \in sub : q = Moved(p, source, target)
      BY <1>0, <2>1
    <3>2. gs[q] = fs[p] /\ p \in DOMAIN fs /\ IsPrefix(source, p)
      BY <1>0, <3>1
    <3> QED
      BY <1>6, <3>2
  <2>2. CASE q \notin moved
    BY <1>0, <1>6, <2>2
  <2> QED
    BY <2>1, <2>2
<1> QED
  BY <1>2, <1>3, <1>4, <1>5, <1>6 DEF Changed

\* A file that is moved to a path is there.
LEMMA MovedSelf ==
  ASSUME NEW p, IsSeq(p), NEW target, IsSeq(target)
  PROVE  Moved(p, p, target) = target
<1>1. PICK m : m = Moved(p, p, target)
  OBVIOUS
<1>2. IsPrefix(p, p)
  BY PrefixOrder
<1>3. IsSeq(m)
  BY <1>1, <1>2, MovedBack
<1>4. MoveOf(m, p, p, target)
  BY <1>1, <1>2, MovedIs, Zenon
<1>5. Len(p) \in Nat /\ Len(target) \in Nat
  BY SeqFact
<1>6. Len(m) = Len(target) + (Len(p) - Len(p))
  BY <1>4 DEF MoveOf
<1>7. Len(m) = Len(target)
  BY <1>5, <1>6
<1>8. ASSUME NEW i \in 1..Len(m) PROVE m[i] = target[i]
  <2>1. i <= Len(target)
    BY <1>5, <1>7
  <2> QED
    BY <1>4, <2>1 DEF MoveOf
<1> QED
  BY <1>1, <1>3, <1>7, <1>8, SamePath

\* A file is hidden.
LEMMA HideFiles ==
  ASSUME NEW fs, IsFiles(fs), Shape(fs), NEW path \in DOMAIN fs, NEW x, Beside(fs, x),
         NEW sub, sub = {p \in DOMAIN fs : IsPrefix(path, p)},
         NEW moved, Images(moved, sub, path, x),
         NEW gs, Renamed(fs, gs, sub, moved, path, x)
  PROVE  /\ Shape(gs) /\ Changed(fs, gs, {path}, {x}, {})
         /\ moved \cap DOMAIN fs = {}
<1>0. /\ moved = {Moved(p, path, x) : p \in sub}
      /\ DOMAIN gs = (DOMAIN fs \ sub) \cup moved
      /\ \A p \in sub : gs[Moved(p, path, x)] = fs[p]
      /\ \A p \in (DOMAIN fs \ sub) \ moved : gs[p] = fs[p]
  BY DEF Images, Renamed
<1>1. IsSeq(path) /\ IsSeq(x) /\ x \notin DOMAIN fs /\ Named(x)
  BY DEF IsFiles, Beside
<1>2. sub = {path} /\ IsPrefix(path, path)
  BY <1>1, PrefixOrder DEF Shape
<1>3. moved = {x}
  BY <1>0, <1>1, <1>2, MovedSelf
<1>4. gs[x] = fs[path]
  BY <1>0, <1>1, <1>2, MovedSelf
<1>5. moved \cap DOMAIN fs = {} /\ DOMAIN gs = (DOMAIN fs \ {path}) \cup {x}
  BY <1>0, <1>1, <1>2, <1>3
<1>6. Shape(gs)
  <2>1. DOMAIN gs \subseteq DOMAIN fs \cup moved
    BY <1>3, <1>5
  <2>2. \A n \in moved : Named(n)
    BY <1>1, <1>3
  <2>3. \A n, m \in moved : IsPrefix(n, m) => n = m
    BY <1>3
  <2>4. \A n \in moved : \A q \in DOMAIN gs \cap DOMAIN fs :
          (IsPrefix(n, q) => n = q) /\ (IsPrefix(q, n) => q = n)
    BY <1>3, BesideApart
  <2> QED
    BY <2>1, <2>2, <2>3, <2>4, ShapeGrows
<1>7. \A p \in DOMAIN fs : ~IsPrefix(path, p) => p \in DOMAIN gs /\ gs[p] = fs[p]
  BY <1>0, <1>1, <1>3, <1>2, <1>5
<1>8. \A q \in DOMAIN gs : q \in DOMAIN fs \/ q \in {x}
  BY <1>5
<1>9. ASSUME NEW q \in DOMAIN gs, NEW i \in DOMAIN gs[q]
      PROVE  \/ q \in DOMAIN fs /\ i \in DOMAIN fs[q] /\ fs[q][i] = gs[q][i]
             \/ \E p \in DOMAIN fs : IsPrefix(path, p) /\ \E j \in DOMAIN fs[p] : fs[p][j] = gs[q][i]
  <2>1. CASE q = x
    BY <1>2, <1>4, <1>9, <2>1
  <2>2. CASE q # x
    BY <1>0, <1>2, <1>3, <1>5, <1>9, <2>2
  <2> QED
    BY <2>1, <2>2
<1> QED
  BY <1>5, <1>6, <1>7, <1>8, <1>9 DEF Changed

\* A file is removed.
LEMMA RemoveFiles ==
  ASSUME NEW fs, IsFiles(fs), Shape(fs), NEW path \in DOMAIN fs,
         NEW gs, gs = [p \in DOMAIN fs \ {path} |-> fs[p]]
  PROVE  Shape(gs) /\ Changed(fs, gs, {path}, {}, {})
<1>1. IsPrefix(path, path)
  BY PrefixOrder DEF IsFiles
<1>2. DOMAIN gs = DOMAIN fs \ {path} /\ \A p \in DOMAIN gs : gs[p] = fs[p]
  OBVIOUS
<1>3. Shape(gs)
  BY <1>2 DEF Shape
<1>4. \A p \in DOMAIN fs : ~IsPrefix(path, p) => p \in DOMAIN gs /\ gs[p] = fs[p]
  BY <1>1, <1>2
<1>5. \A q \in DOMAIN gs : q \in DOMAIN fs /\ \A i \in DOMAIN gs[q] : i \in DOMAIN fs[q] /\ fs[q][i] = gs[q][i]
  BY <1>2
<1> QED
  BY <1>3, <1>4, <1>5 DEF Changed

\* The files gs are fs and copies of the files copied, which are at made.
Copies(fs, gs, copied, made, source, target) ==
  /\ IsFiles(gs) /\ DOMAIN gs = DOMAIN fs \cup made
  /\ \A p \in DOMAIN fs : gs[p] = fs[p]
  /\ \A p \in copied : gs[Moved(p, source, target)] = fs[p]

\* Visible files are copied to a free target.
LEMMA SnapshotFiles ==
  ASSUME NEW fs, IsFiles(fs), Shape(fs), NEW source, IsSeq(source), NEW target, IsSeq(target),
         Plain(target), FreeIn(fs, target),
         NEW copied, copied \subseteq DOMAIN fs, \A p \in copied : IsPrefix(source, p),
         NEW made, Images(made, copied, source, target),
         NEW gs, Copies(fs, gs, copied, made, source, target)
  PROVE  /\ Shape(gs) /\ Changed(fs, gs, {source, target}, {}, {})
         /\ made \cap DOMAIN fs = {}
<1> USE DEF Images, Copies
<1>1. /\ \A n \in made : IsSeq(n) /\ Named(n) /\ IsPrefix(target, n)
      /\ \A n, m \in made : IsPrefix(n, m) => n = m
      /\ \A n \in made : \A q \in DOMAIN fs : ~IsPrefix(n, q) /\ ~IsPrefix(q, n)
  <2>1. NewBelow(made, target, fs)
    BY MovedApart, Zenon
  <2> QED
    BY <2>1 DEF NewBelow
<1>2. made \cap DOMAIN fs = {}
  BY <1>1, PrefixOrder
<1>3. Shape(gs)
  BY <1>1, ShapeGrows
<1>4. \A p \in DOMAIN fs : p \in DOMAIN gs /\ gs[p] = fs[p]
  OBVIOUS
<1>5. \A q \in DOMAIN gs : q \in DOMAIN fs \/ IsPrefix(target, q)
  BY <1>1
<1>6. ASSUME NEW q \in DOMAIN gs, NEW i \in DOMAIN gs[q]
      PROVE  \/ q \in DOMAIN fs /\ i \in DOMAIN fs[q] /\ fs[q][i] = gs[q][i]
             \/ \E p \in DOMAIN fs : IsPrefix(source, p) /\ \E j \in DOMAIN fs[p] : fs[p][j] = gs[q][i]
  <2>1. CASE q \in made
    <3>1. PICK p \in copied : q = Moved(p, source, target)
      BY <2>1
    <3>2. gs[q] = fs[p] /\ p \in DOMAIN fs /\ IsPrefix(source, p)
      BY <3>1
    <3> QED
      BY <1>6, <3>2
  <2>2. CASE q \notin made
    BY <1>6, <2>2
  <2> QED
    BY <2>1, <2>2
<1> QED
  BY <1>2, <1>3, <1>4, <1>5, <1>6 DEF Changed

\* A chunk is added to a file.
LEMMA AddFiles ==
  ASSUME NEW fs, IsFiles(fs), Shape(fs), NEW path \in DOMAIN fs, NEW h \in Handle,
         NEW gs, DOMAIN gs = DOMAIN fs, gs[path] = Append(fs[path], h),
         \A p \in DOMAIN fs : p # path => gs[p] = fs[p]
  PROVE  Shape(gs) /\ Changed(fs, gs, {path}, {}, {h})
<1>1. IsSeq(path) /\ fs[path] \in Seq(Handle) /\ IsPrefix(path, path)
  BY PrefixOrder DEF IsFiles
<1>2. Shape(gs)
  BY DEF Shape
<1>3. \A p \in DOMAIN fs : ~IsPrefix(path, p) => p \in DOMAIN gs /\ gs[p] = fs[p]
  BY <1>1
<1>4. PICK t : t = gs[path]
  OBVIOUS
<1>5. /\ Len(fs[path]) \in Nat /\ DOMAIN fs[path] = 1..Len(fs[path])
      /\ DOMAIN t = 1..(Len(fs[path]) + 1) /\ t[Len(fs[path]) + 1] = h
      /\ \A i \in 1..Len(fs[path]) : t[i] = fs[path][i]
  <2>1. t = Append(fs[path], h)
    BY <1>4
  <2>2. /\ t \in Seq(Handle) /\ Len(t) = Len(fs[path]) + 1
        /\ \A i \in 1..Len(fs[path]) : t[i] = fs[path][i]
        /\ t[Len(fs[path]) + 1] = h
    BY <1>1, <2>1, AppendProperties
  <2> QED
    BY <1>1, <2>2, LenProperties
<1>6. ASSUME NEW i \in DOMAIN t
      PROVE  t[i] = h \/ (i \in DOMAIN fs[path] /\ fs[path][i] = t[i])
  <2>1. i = Len(fs[path]) + 1 \/ i \in 1..Len(fs[path])
    BY <1>5
  <2> QED
    BY <1>5, <2>1
<1>7. ASSUME NEW q \in DOMAIN gs, NEW i \in DOMAIN gs[q]
      PROVE  gs[q][i] = h \/ (q \in DOMAIN fs /\ i \in DOMAIN fs[q] /\ fs[q][i] = gs[q][i])
  <2>1. CASE q = path
    BY <1>4, <1>6, <1>7, <2>1
  <2>2. CASE q # path
    BY <1>7, <2>2
  <2> QED
    BY <2>1, <2>2
<1> QED
  BY <1>2, <1>3, <1>7 DEF Changed

\* Another chunk takes a place in a file: what calls know of files stays so.
LEMMA ReplaceKept ==
  ASSUME NEW fs, IsFiles(fs), NEW path \in DOMAIN fs, NEW i \in DOMAIN fs[path],
         NEW h \in Handle, h \notin Used(fs), NEW index \in Nat, i = index + 1,
         NEW gs, IsFiles(gs), DOMAIN gs = DOMAIN fs, gs[path] = [fs[path] EXCEPT ![i] = h],
         \A p \in DOMAIN fs : p # path => gs[p] = fs[p],
         NEW k, CallType(k), CheckOK(k, fs), k.pc \in {"replaced", "grant", "round"} => k.handle # h
  PROVE  CheckOK(k, gs) /\ OnlyAt(gs, h, path, index) /\ (Shape(fs) => Shape(gs))
<1>1. /\ \A p \in DOMAIN fs : DOMAIN gs[p] = DOMAIN fs[p] /\ Len(gs[p]) = Len(fs[p])
      /\ \A p \in DOMAIN fs : \A j \in DOMAIN fs[p] :
           gs[p][j] = IF p = path /\ j = i THEN h ELSE fs[p][j]
  <2>1. fs[path] \in Seq(Handle) /\ gs[path] \in Seq(Handle)
    BY DEF IsFiles
  <2>2. DOMAIN gs[path] = DOMAIN fs[path]
    OBVIOUS
  <2>3. Len(gs[path]) = Len(fs[path])
    BY <2>1, <2>2, LenProperties
  <2>4. \A j \in DOMAIN fs[path] : gs[path][j] = IF j = i THEN h ELSE fs[path][j]
    OBVIOUS
  <2> QED
    BY <2>2, <2>3, <2>4
<1>2. Shape(fs) => Shape(gs)
  BY DEF Shape
<1>3. \A p : (Present(fs, p) => Present(gs, p)) /\ (FreeIn(fs, p) => FreeIn(gs, p))
  BY DEF Present, FreeIn, Exists, IsDirectory, HasFileAncestor
<1>4. \A p \in DOMAIN fs : \A j \in DOMAIN fs[p] : fs[p][j] # h
  BY DEF Used, Range
<1>5. OnlyAt(gs, h, path, index)
  BY <1>1, <1>4 DEF OnlyAt
<1>6. ASSUME NEW g, NEW p, NEW x, OnlyAt(fs, g, p, x), g # h PROVE OnlyAt(gs, g, p, x)
  BY <1>1, <1>6 DEF OnlyAt
<1>7. TwoPathsOK(k, gs)
  BY <1>3 DEF CheckOK, TwoPathsOK
<1>8. AddOK(k, gs)
  BY <1>1 DEF CheckOK, AddOK
<1>9. LeaseOK(k, gs)
  BY <1>6 DEF CheckOK, LeaseOK
<1>10. CowOK(k, gs)
  <2> SUFFICES ASSUME k.pc = "cow"
               PROVE  /\ k.op = "lease" /\ k.path \in DOMAIN gs /\ k.index + 1 \in DOMAIN gs[k.path]
                      /\ \/ gs[k.path][k.index + 1] = k.handle
                         \/ OnlyAt(gs, gs[k.path][k.index + 1], k.path, k.index)
    BY DEF CowOK
  <2>1. /\ k.op = "lease" /\ k.path \in DOMAIN fs /\ k.index + 1 \in DOMAIN fs[k.path]
        /\ \/ fs[k.path][k.index + 1] = k.handle
           \/ OnlyAt(fs, fs[k.path][k.index + 1], k.path, k.index)
    BY DEF CheckOK, CowOK
  <2>2. CASE k.path = path /\ k.index + 1 = i
    <3>1. k.index = index
      BY <2>2 DEF CallType
    <3>2. gs[k.path][k.index + 1] = h
      BY <1>1, <2>2
    <3> QED
      BY <1>1, <1>5, <2>1, <2>2, <3>1, <3>2
  <2>3. CASE ~(k.path = path /\ k.index + 1 = i)
    <3>1. gs[k.path][k.index + 1] = fs[k.path][k.index + 1]
      BY <1>1, <2>1, <2>3
    <3>2. fs[k.path][k.index + 1] # h
      BY <1>4, <2>1
    <3> QED
      BY <1>1, <1>6, <2>1, <3>1, <3>2
  <2> QED
    BY <2>2, <2>3
<1>11. CopyOK(k, gs)
  BY <1>1 DEF CheckOK, CopyOK
<1> QED
  BY <1>2, <1>5, <1>7, <1>8, <1>9, <1>10, <1>11 DEF CheckOK

-----------------------------------------------------------------------------
(* Counting references.                                                    *)

\* A reference is a place in a file.
LEMMA ReferringIs ==
  ASSUME NEW fs, NEW ps, NEW h, NEW x
  PROVE  x \in Referring(fs, ps, h) <=>
           \E p \in ps : \E i \in DOMAIN fs[p] : x = <<p, i>> /\ fs[p][i] = h
BY DEF Referring

\* Files that are the same have the same references.
LEMMA ReferencesSame ==
  ASSUME NEW fs, IsFiles(fs), NEW gs, IsFiles(gs), NEW ps, ps \subseteq DOMAIN fs,
         ps \subseteq DOMAIN gs, \A p \in ps : fs[p] = gs[p], NEW h
  PROVE  References(fs, ps, h) = References(gs, ps, h)
<1>1. \A x : x \in Referring(fs, ps, h) <=> x \in Referring(gs, ps, h)
  BY ReferringIs
<1>2. Referring(fs, ps, h) = Referring(gs, ps, h)
  BY <1>1
<1> QED
  BY <1>2, ReferencesFinite

\* The references of two sets of files add up.
LEMMA ReferencesSplit ==
  ASSUME NEW fs, IsFiles(fs), NEW ps, NEW qs, ps \subseteq DOMAIN fs, qs \subseteq DOMAIN fs,
         ps \cap qs = {}, NEW h
  PROVE  References(fs, ps \cup qs, h) = References(fs, ps, h) + References(fs, qs, h)
<1> DEFINE R == Referring(fs, ps, h)
           S == Referring(fs, qs, h)
           T == Referring(fs, ps \cup qs, h)
<1>1. T = R \cup S
  <2>1. \A x : x \in T <=> x \in R \/ x \in S
    BY ReferringIs
  <2> QED
    BY <2>1
<1>2. R \cap S = {}
  BY ReferringIs
<1>3. /\ IsFiniteSet(R) /\ References(fs, ps, h) = Cardinality(R)
      /\ IsFiniteSet(S) /\ References(fs, qs, h) = Cardinality(S)
      /\ References(fs, ps \cup qs, h) = Cardinality(T)
  <2>1. ps \cup qs \subseteq DOMAIN fs
    OBVIOUS
  <2> QED
    BY <2>1, ReferencesFinite
<1> HIDE DEF R, S, T
<1>4. Cardinality(T) = Cardinality(R) + Cardinality(S) - Cardinality(R \cap S)
  BY <1>1, <1>3, FS_Union
<1>5. Cardinality(R) \in Nat /\ Cardinality(S) \in Nat /\ Cardinality(R \cap S) = 0
  BY <1>2, <1>3, FS_CardinalityType, FS_EmptySet
<1> QED
  BY <1>3, <1>4, <1>5

\* What a one-to-one map keeps apart it does not count twice.
LEMMA CountSame ==
  ASSUME NEW S, IsFiniteSet(S), NEW T, NEW f \in [S -> T],
         \A x, y \in S : f[x] = f[y] => x = y, \A z \in T : \E x \in S : f[x] = z
  PROVE  Cardinality(T) = Cardinality(S)
<1>1. f \in Injection(S, T)
  BY DEF Injection, IsInjective
<1>2. f \in Surjection(S, T)
  BY DEF Surjection
<1>3. f \in Bijection(S, T)
  BY <1>1, <1>2 DEF Bijection
<1> QED
  BY <1>3, FS_Bijection DEF ExistsBijection

\* Files that were moved, or copied, have the references that they had.
LEMMA ReferencesMoved ==
  ASSUME NEW fs, IsFiles(fs), NEW gs, IsFiles(gs), NEW source, IsSeq(source),
         NEW target, IsSeq(target),
         NEW P, P \subseteq DOMAIN fs, \A p \in P : IsPrefix(source, p),
         NEW N, Images(N, P, source, target), N \subseteq DOMAIN gs,
         \A p \in P : gs[Moved(p, source, target)] = fs[p], NEW h
  PROVE  References(gs, N, h) = References(fs, P, h)
<1> DEFINE S == Referring(fs, P, h)
           T == Referring(gs, N, h)
           f == [x \in S |-> <<Moved(x[1], source, target), x[2]>>]
<1> USE DEF Images
<1>1. \A p \in P : Moved(Moved(p, source, target), target, source) = p
  <2>1. \A p \in P : IsSeq(p) /\ IsPrefix(source, p)
    BY DEF IsFiles
  <2> QED
    BY <2>1, MovedBack
<1>2. ASSUME NEW x \in S
      PROVE  \E p \in P : \E i \in DOMAIN fs[p] :
               x = <<p, i>> /\ fs[p][i] = h /\ f[x] = <<Moved(p, source, target), i>>
  <2>1. PICK p \in P : \E i \in DOMAIN fs[p] : x = <<p, i>> /\ fs[p][i] = h
    BY <1>2, ReferringIs
  <2>2. PICK i \in DOMAIN fs[p] : x = <<p, i>> /\ fs[p][i] = h
    BY <2>1
  <2>3. f[x] = <<Moved(p, source, target), i>>
    BY <1>2, <2>2
  <2> QED
    BY <2>2, <2>3
<1>3. f \in [S -> T]
  <2>1. ASSUME NEW x \in S PROVE f[x] \in T
    <3>1. PICK p \in P : \E i \in DOMAIN fs[p] : x = <<p, i>> /\ fs[p][i] = h /\ f[x] = <<Moved(p, source, target), i>>
      BY <1>2, <2>1
    <3>1a. PICK i \in DOMAIN fs[p] : x = <<p, i>> /\ fs[p][i] = h /\ f[x] = <<Moved(p, source, target), i>>
      BY <3>1
    <3>2. PICK n \in N : n = Moved(p, source, target)
      OBVIOUS
    <3>3. i \in DOMAIN gs[n] /\ gs[n][i] = h /\ f[x] = <<n, i>>
      BY <3>1a, <3>2
    <3> HIDE DEF f
    <3> QED
      BY <3>3, ReferringIs
  <2> QED
    BY <2>1
<1>4. ASSUME NEW x \in S, NEW y \in S, f[x] = f[y] PROVE x = y
  <2>1. PICK p \in P : \E i \in DOMAIN fs[p] : x = <<p, i>> /\ fs[p][i] = h /\ f[x] = <<Moved(p, source, target), i>>
    BY <1>2
  <2>1a. PICK i \in DOMAIN fs[p] : x = <<p, i>> /\ fs[p][i] = h /\ f[x] = <<Moved(p, source, target), i>>
    BY <2>1
  <2>2. PICK q \in P : \E j \in DOMAIN fs[q] : y = <<q, j>> /\ fs[q][j] = h /\ f[y] = <<Moved(q, source, target), j>>
    BY <1>2
  <2>2a. PICK j \in DOMAIN fs[q] : y = <<q, j>> /\ fs[q][j] = h /\ f[y] = <<Moved(q, source, target), j>>
    BY <2>2
  <2>3. Moved(p, source, target) = Moved(q, source, target) /\ i = j
    BY <1>4, <2>1a, <2>2a
  <2> QED
    BY <1>1, <2>1a, <2>2a, <2>3
<1>5. ASSUME NEW z \in T PROVE \E x \in S : f[x] = z
  <2>1. PICK n \in N : \E i \in DOMAIN gs[n] : z = <<n, i>> /\ gs[n][i] = h
    BY <1>5, ReferringIs
  <2>2. PICK i \in DOMAIN gs[n] : z = <<n, i>> /\ gs[n][i] = h
    BY <2>1
  <2>3. PICK p \in P : n = Moved(p, source, target)
    OBVIOUS
  <2>4. i \in DOMAIN fs[p] /\ fs[p][i] = h
    BY <2>2, <2>3
  <2>5. <<p, i>> \in S
    BY <2>4, ReferringIs
  <2>6. f[<<p, i>>] = z
    BY <2>2, <2>3, <2>5
  <2> QED
    BY <2>5, <2>6
<1>6. /\ IsFiniteSet(S) /\ References(fs, P, h) = Cardinality(S)
      /\ References(gs, N, h) = Cardinality(T)
  BY ReferencesFinite
<1> HIDE DEF S, T, f
<1>7. Cardinality(T) = Cardinality(S)
  BY <1>3, <1>4, <1>5, <1>6, CountSame
<1> QED
  BY <1>6, <1>7

\* One more reference to chunk h, and to no other.
OneMore(fs, gs, h) ==
  \A g \in Handle :
    References(gs, DOMAIN gs, g) = References(fs, DOMAIN fs, g) + IF g = h THEN 1 ELSE 0

\* A chunk is added to the end of a file.
LEMMA ReferencesAdd ==
  ASSUME NEW fs, IsFiles(fs), NEW path \in DOMAIN fs, NEW h \in Handle,
         NEW gs, IsFiles(gs), DOMAIN gs = DOMAIN fs, gs[path] = Append(fs[path], h),
         \A p \in DOMAIN fs : p # path => gs[p] = fs[p]
  PROVE  OneMore(fs, gs, h)
<1>1. PICK n \in Nat : n = Len(fs[path]) + 1
  BY LenProperties DEF IsFiles
<1>2. /\ DOMAIN gs[path] = DOMAIN fs[path] \cup {n} /\ n \notin DOMAIN fs[path] /\ gs[path][n] = h
      /\ \A i \in DOMAIN fs[path] : gs[path][i] = fs[path][i]
  <2>1. fs[path] \in Seq(Handle)
    BY DEF IsFiles
  <2> QED
    BY <1>1, <2>1, LenProperties, AppendProperties
<1>3. ASSUME NEW g \in Handle
      PROVE  References(gs, DOMAIN gs, g) =
               References(fs, DOMAIN fs, g) + IF g = h THEN 1 ELSE 0
  <2> DEFINE R == Referring(fs, DOMAIN fs, g)
             S == Referring(gs, DOMAIN gs, g)
  <2>1. PICK x : x = <<path, n>>
    OBVIOUS
  <2>2. /\ IsFiniteSet(R) /\ References(fs, DOMAIN fs, g) = Cardinality(R)
        /\ References(gs, DOMAIN gs, g) = Cardinality(S) /\ Cardinality(R) \in Nat
    BY ReferencesFinite, FS_CardinalityType
  <2>3. x \notin R
    BY <1>2, <2>1, ReferringIs
  <2>4. \A y : y \in S <=> y \in R \/ (g = h /\ y = x)
    <3>1. ASSUME NEW y \in S PROVE y \in R \/ (g = h /\ y = x)
      <4>1. PICK p \in DOMAIN gs : \E i \in DOMAIN gs[p] : y = <<p, i>> /\ gs[p][i] = g
        BY <3>1, ReferringIs
      <4>1a. PICK i \in DOMAIN gs[p] : y = <<p, i>> /\ gs[p][i] = g
        BY <4>1
      <4>2. (p = path /\ i = n) \/ (i \in DOMAIN fs[p] /\ fs[p][i] = g)
        BY <1>2, <4>1a
      <4>3. CASE p = path /\ i = n
        BY <1>2, <2>1, <4>1a, <4>3
      <4>4. CASE i \in DOMAIN fs[p] /\ fs[p][i] = g
        BY <4>1a, <4>4, ReferringIs
      <4> QED
        BY <4>2, <4>3, <4>4
    <3>2. ASSUME NEW y \in R PROVE y \in S
      <4>1. PICK p \in DOMAIN fs : \E i \in DOMAIN fs[p] : y = <<p, i>> /\ fs[p][i] = g
        BY <3>2, ReferringIs
      <4>1a. PICK i \in DOMAIN fs[p] : y = <<p, i>> /\ fs[p][i] = g
        BY <4>1
      <4>2. i \in DOMAIN gs[p] /\ gs[p][i] = g
        BY <1>2, <4>1a
      <4> QED
        BY <4>1a, <4>2, ReferringIs
    <3>3. g = h => x \in S
      BY <1>2, <2>1, ReferringIs
    <3> QED
      BY <3>1, <3>2, <3>3
  <2> HIDE DEF R, S
  <2>5. CASE g = h
    <3>1. S = R \cup {x}
      BY <2>4, <2>5
    <3>2. x \notin R /\ Cardinality(S) = Cardinality(R) + 1
      BY <2>2, <2>3, <3>1, FS_AddElement
    <3> QED
      BY <2>2, <2>5, <3>2
  <2>6. CASE g # h
    <3>1. S = R
      BY <2>4, <2>6
    <3> QED
      BY <2>2, <2>6, <3>1
  <2> QED
    BY <2>5, <2>6
<1> QED
  BY <1>3 DEF OneMore

\* Chunk h takes the place of chunk old.
OneForOther(fs, gs, old, h) ==
  \A g \in Handle :
    /\ g = old => /\ References(fs, DOMAIN fs, g) >= 1
                  /\ References(gs, DOMAIN gs, g) = References(fs, DOMAIN fs, g) - 1
    /\ g = h => References(gs, DOMAIN gs, g) = References(fs, DOMAIN fs, g) + 1
    /\ g # old /\ g # h => References(gs, DOMAIN gs, g) = References(fs, DOMAIN fs, g)

\* A chunk is replaced.
LEMMA ReferencesPut ==
  ASSUME NEW fs, IsFiles(fs), NEW path \in DOMAIN fs, NEW n \in DOMAIN fs[path], NEW h \in Handle,
         NEW gs, IsFiles(gs), DOMAIN gs = DOMAIN fs, gs[path] = [fs[path] EXCEPT ![n] = h],
         \A p \in DOMAIN fs : p # path => gs[p] = fs[p], NEW old, old = fs[path][n], old # h
  PROVE  OneForOther(fs, gs, old, h)
<1>2. /\ DOMAIN gs[path] = DOMAIN fs[path] /\ gs[path][n] = h
      /\ \A i \in DOMAIN fs[path] : i # n => gs[path][i] = fs[path][i]
  OBVIOUS
<1>3. ASSUME NEW g \in Handle
      PROVE  /\ g = old => /\ References(fs, DOMAIN fs, g) >= 1
                           /\ References(gs, DOMAIN gs, g) = References(fs, DOMAIN fs, g) - 1
             /\ g = h => References(gs, DOMAIN gs, g) = References(fs, DOMAIN fs, g) + 1
             /\ g # old /\ g # h => References(gs, DOMAIN gs, g) = References(fs, DOMAIN fs, g)
  <2> DEFINE R == Referring(fs, DOMAIN fs, g)
             S == Referring(gs, DOMAIN gs, g)
  <2>1. PICK x : x = <<path, n>>
    OBVIOUS
  <2>2. /\ IsFiniteSet(R) /\ References(fs, DOMAIN fs, g) = Cardinality(R)
        /\ IsFiniteSet(S) /\ References(gs, DOMAIN gs, g) = Cardinality(S)
        /\ Cardinality(R) \in Nat /\ Cardinality(S) \in Nat
    BY ReferencesFinite, FS_CardinalityType
  <2>3. (x \in R <=> g = old) /\ (x \in S <=> g = h)
    BY <1>2, <2>1, ReferringIs
  <2>4. \A y : y # x => (y \in S <=> y \in R)
    <3>1. ASSUME NEW y, y # x PROVE y \in S <=> y \in R
      <4>1. \A p \in DOMAIN fs : \A i \in DOMAIN fs[p] :
              y = <<p, i>> => i \in DOMAIN gs[p] /\ gs[p][i] = fs[p][i]
        BY <1>2, <2>1, <3>1
      <4>2. \A p \in DOMAIN gs : \A i \in DOMAIN gs[p] : p \in DOMAIN fs /\ i \in DOMAIN fs[p]
        BY <1>2
      <4> QED
        BY <4>1, <4>2, ReferringIs
    <3> QED
      BY <3>1
  <2> HIDE DEF R, S
  <2>5. CASE g = old
    <3>1. R = S \cup {x} /\ x \notin S
      BY <2>3, <2>4, <2>5
    <3>2. Cardinality(R) = Cardinality(S) + 1
      BY <2>2, <3>1, FS_AddElement
    <3>3. g # h /\ Cardinality(R) >= 1
      BY <2>2, <2>5, <3>2
    <3> QED
      BY <2>2, <2>5, <3>2, <3>3
  <2>6. CASE g = h
    <3>1. S = R \cup {x} /\ x \notin R
      BY <2>3, <2>4, <2>6
    <3>2. Cardinality(S) = Cardinality(R) + 1
      BY <2>2, <3>1, FS_AddElement
    <3> QED
      BY <2>2, <2>6, <3>2
  <2>7. CASE g # old /\ g # h
    <3>1. S = R
      BY <2>3, <2>4, <2>7
    <3> QED
      BY <2>2, <2>7, <3>1
  <2> QED
    BY <2>5, <2>6, <2>7
<1> QED
  BY <1>3 DEF OneForOther

-----------------------------------------------------------------------------
(* What the Apply functions do to the counts, and what replay makes of the  *)
(* same record.                                                            *)

\* The counts are right.
Counted(s) ==
  \A h \in DOMAIN s.chunks : s.chunks[h].refcount = References(s.files, DOMAIN s.files, h)

\* Chunks that are pending were so before, with the same version.
PendingKept(s, s2) ==
  \A h \in DOMAIN s2.chunks : s2.chunks[h].pending =>
    /\ h \in DOMAIN s.chunks /\ s.chunks[h].pending
    /\ s2.chunks[h].version = s.chunks[h].version

\* State u, as recovery replays it, stands for state s in memory.
Recovers(u, s) ==
  /\ u.files = s.files /\ u.next = s.next
  /\ DOMAIN u.chunks = {h \in DOMAIN s.chunks : ~s.chunks[h].pending}
  /\ \A h \in DOMAIN u.chunks : u.chunks[h].version = s.chunks[h].version

\* What a step from s to s2 must do, when replay comes to u2.
Effect(s, s2, u2) == Counted(s2) /\ PendingKept(s, s2) /\ Recovers(u2, s2)

\* An empty file has no references.
LEMMA ReferencesEmpty ==
  ASSUME NEW fs, IsFiles(fs), NEW path \in DOMAIN fs, fs[path] = <<>>, NEW h
  PROVE  References(fs, {path}, h) = 0
<1>1. DOMAIN fs[path] = {}
  <2>1. fs[path] \in Seq(Handle)
    BY DEF IsFiles
  <2>2. DOMAIN fs[path] = 1..0
    BY <2>1, LenProperties
  <2> QED
    BY <2>2
<1>2. Referring(fs, {path}, h) = {}
  <2>1. \A x : x \notin Referring(fs, {path}, h)
    BY <1>1, ReferringIs
  <2> QED
    BY <2>1
<1>3. References(fs, {path}, h) = Cardinality(Referring(fs, {path}, h))
  <2>1. {path} \subseteq DOMAIN fs
    OBVIOUS
  <2> QED
    BY <2>1, ReferencesFinite
<1> QED
  BY <1>2, <1>3, FS_EmptySet

\* Create.
LEMMA CreateEffect ==
  ASSUME NEW s, Sane(s), NEW u, Sane(u), Recovers(u, s), Counted(s), NEW path, IsSeq(path),
         Plain(path), Shape(s.files), FreeIn(s.files, path),
         NEW s2, s2 = ApplyCreate(s, path), NEW u2, u2 = ApplyCreate(u, path)
  PROVE  Effect(s, s2, u2) /\ Shape(s2.files) /\ Changed(s.files, s2.files, {path}, {}, {})
<1>1. path \notin DOMAIN s.files /\ path \notin DOMAIN u.files
  BY DEF FreeIn, Exists, Recovers
<1>2. /\ s2.files = [p \in DOMAIN s.files \cup {path} |-> IF p = path THEN <<>> ELSE s.files[p]]
      /\ s2.chunks = s.chunks /\ s2.next = s.next
  BY <1>1 DEF ApplyCreate, Exists, Sane
<1>3. /\ u2.files = [p \in DOMAIN u.files \cup {path} |-> IF p = path THEN <<>> ELSE u.files[p]]
      /\ u2.chunks = u.chunks /\ u2.next = u.next
  BY <1>1 DEF ApplyCreate, Exists, Sane
<1>4. Recovers(u2, s2)
  BY <1>2, <1>3 DEF Recovers
<1>5. IsFiles(s.files) /\ IsFiles(s2.files)
  <2>1. Applied(s, s2, {})
    BY CreateApplied
  <2> QED
    BY <2>1 DEF Applied, Sane
<1>6. /\ DOMAIN s2.files = DOMAIN s.files \cup {path} /\ s2.files[path] = <<>>
      /\ \A p \in DOMAIN s.files : s2.files[p] = s.files[p]
  BY <1>1, <1>2
<1>7. Shape(s2.files) /\ Changed(s.files, s2.files, {path}, {}, {})
  BY <1>5, <1>6, CreateFiles
<1>8. ASSUME NEW h
      PROVE  References(s2.files, DOMAIN s2.files, h) = References(s.files, DOMAIN s.files, h)
  <2>1. References(s2.files, DOMAIN s.files \cup {path}, h) =
          References(s2.files, DOMAIN s.files, h) + References(s2.files, {path}, h)
    <3>1. DOMAIN s.files \subseteq DOMAIN s2.files /\ {path} \subseteq DOMAIN s2.files
      BY <1>6
    <3>2. DOMAIN s.files \cap {path} = {}
      BY <1>1
    <3> QED
      BY <1>5, <3>1, <3>2, ReferencesSplit
  <2>2. References(s2.files, {path}, h) = 0
    BY <1>5, <1>6, ReferencesEmpty
  <2>3. References(s2.files, DOMAIN s.files, h) = References(s.files, DOMAIN s.files, h)
    <3>1. DOMAIN s.files \subseteq DOMAIN s2.files
      BY <1>6
    <3> QED
      BY <1>5, <1>6, <3>1, ReferencesSame
  <2>4. References(s.files, DOMAIN s.files, h) \in Nat
    BY <1>5, ReferencesNat
  <2> QED
    BY <1>6, <2>1, <2>2, <2>3, <2>4
<1>9. Counted(s2)
  BY <1>2, <1>8 DEF Counted
<1>10. PendingKept(s, s2)
  BY <1>2 DEF PendingKept
<1> QED
  BY <1>4, <1>7, <1>9, <1>10 DEF Effect

\* RenameSubtree does that.
LEMMA RenameIs ==
  ASSUME NEW fs, IsFiles(fs), NEW source, IsSeq(source), NEW target, IsSeq(target),
         NEW sub, sub = {p \in DOMAIN fs : IsPrefix(source, p)},
         NEW moved, moved = {Moved(p, source, target) : p \in sub},
         NEW gs, gs = RenameSubtree(fs, source, target)
  PROVE  Renamed(fs, gs, sub, moved, source, target)
<1>1. sub = Subtree(fs, source, FALSE)
  BY DEF Subtree
<1>2. Renamed(fs, RenameSubtree(fs, source, target), Subtree(fs, source, FALSE),
              {Moved(p, source, target) : p \in Subtree(fs, source, FALSE)}, source, target)
  <2>1. LET subtree == Subtree(fs, source, FALSE)
            there == {Moved(p, source, target) : p \in subtree}
            hs == RenameSubtree(fs, source, target)
        IN  /\ IsFiles(hs) /\ DOMAIN hs = (DOMAIN fs \ subtree) \cup there
            /\ subtree = {p \in DOMAIN fs : IsPrefix(source, p)}
            /\ \A p \in subtree : hs[Moved(p, source, target)] = fs[p]
            /\ \A p \in (DOMAIN fs \ subtree) \ there : hs[p] = fs[p]
            /\ Used(hs) \subseteq Used(fs)
    BY RenameFact, Zenon
  <2> QED
    BY <2>1, Zenon DEF Renamed
<1> QED
  BY <1>1, <1>2

\* Rename, to where no file is.
LEMMA RenameEffect ==
  ASSUME NEW s, Sane(s), NEW u, Sane(u), Recovers(u, s), Counted(s),
         NEW source, IsSeq(source), NEW target, IsSeq(target), Present(s.files, source),
         NEW sub, sub = {p \in DOMAIN s.files : IsPrefix(source, p)},
         NEW moved, moved = {Moved(p, source, target) : p \in sub}, moved \cap DOMAIN s.files = {},
         NEW s2, s2 = ApplyRename(s, source, target), NEW u2, u2 = ApplyRename(u, source, target)
  PROVE  Effect(s, s2, u2)
<1>1. /\ s2 = [s EXCEPT !.files = RenameSubtree(s.files, source, target)]
      /\ u2 = [u EXCEPT !.files = RenameSubtree(u.files, source, target)]
  BY DEF Recovers, ApplyRename, Present
<1>2. /\ s2.files = RenameSubtree(s.files, source, target) /\ s2.chunks = s.chunks
      /\ s2.next = s.next
      /\ u2.files = RenameSubtree(u.files, source, target) /\ u2.chunks = u.chunks
      /\ u2.next = u.next
  BY <1>1 DEF Sane
<1>3. Recovers(u2, s2)
  BY <1>2 DEF Recovers
<1>4. PendingKept(s, s2)
  BY <1>2 DEF PendingKept
<1> DEFINE fs == s.files
           gs == s2.files
           rest == DOMAIN fs \ sub
<1>5. /\ IsFiles(fs) /\ IsFiles(gs) /\ DOMAIN gs = rest \cup moved
      /\ \A p \in sub : gs[Moved(p, source, target)] = fs[p]
      /\ \A p \in rest : gs[p] = fs[p]
  <2>1. IsFiles(fs)
    BY DEF Sane
  <2>2. Renamed(fs, gs, sub, moved, source, target)
    <3> HIDE DEF fs, gs
    <3>1. gs = RenameSubtree(fs, source, target)
      BY <1>2 DEF fs, gs
    <3>2. sub = {p \in DOMAIN fs : IsPrefix(source, p)}
      BY DEF fs
    <3> QED
      BY <2>1, <3>1, <3>2, RenameIs
  <2>3. \A p \in rest : p \notin moved
    OBVIOUS
  <2> QED
    BY <2>1, <2>2, <2>3 DEF Renamed
<1>6. ASSUME NEW h PROVE References(gs, DOMAIN gs, h) = References(fs, DOMAIN fs, h)
  <2>1. /\ sub \subseteq DOMAIN fs /\ rest \subseteq DOMAIN fs /\ sub \cap rest = {}
        /\ sub \cup rest = DOMAIN fs
        /\ rest \subseteq DOMAIN gs /\ moved \subseteq DOMAIN gs /\ moved \cap rest = {}
        /\ moved \cup rest = DOMAIN gs /\ \A p \in sub : IsPrefix(source, p)
    BY <1>5
  <2> HIDE DEF fs, gs, rest
  <2>2. References(fs, sub \cup rest, h) = References(fs, sub, h) + References(fs, rest, h)
    BY <1>5, <2>1, ReferencesSplit
  <2>3. References(gs, moved \cup rest, h) = References(gs, moved, h) + References(gs, rest, h)
    BY <1>5, <2>1, ReferencesSplit
  <2>4. References(fs, rest, h) = References(gs, rest, h)
    BY <1>5, <2>1, ReferencesSame
  <2>5. References(gs, moved, h) = References(fs, sub, h)
    <3>1. Images(moved, sub, source, target)
      BY DEF Images
    <3> QED
      BY <1>5, <2>1, <3>1, ReferencesMoved
  <2> QED
    BY <2>1, <2>2, <2>3, <2>4, <2>5
<1>7. Counted(s2)
  BY <1>2, <1>6 DEF Counted
<1> QED
  BY <1>3, <1>4, <1>7 DEF Effect

\* Remove of a hidden file.
LEMMA RemoveEffect ==
  ASSUME NEW s, Sane(s), NEW u, Sane(u), Recovers(u, s), Counted(s),
         NEW path \in DOMAIN s.files, Shape(s.files),
         NEW s2, s2 = ApplyRemove(s, path), NEW u2, u2 = ApplyRemove(u, path)
  PROVE  Effect(s, s2, u2) /\ Shape(s2.files) /\ Changed(s.files, s2.files, {path}, {}, {})
<1>1. /\ s2.next = s.next /\ s2.files = [p \in DOMAIN s.files \ {path} |-> s.files[p]]
      /\ DOMAIN s2.chunks = DOMAIN s.chunks
      /\ \A h \in DOMAIN s.chunks :
           /\ References(s.files, {path}, h) \in Nat
           /\ s2.chunks[h] = Dropped(s.chunks[h], References(s.files, {path}, h))
  BY RemoveFact DEF Exists
<1>2. /\ u2.next = u.next /\ u2.files = [p \in DOMAIN u.files \ {path} |-> u.files[p]]
      /\ DOMAIN u2.chunks = DOMAIN u.chunks
      /\ \A h \in DOMAIN u.chunks :
           /\ References(u.files, {path}, h) \in Nat
           /\ u2.chunks[h] = Dropped(u.chunks[h], References(u.files, {path}, h))
  <2>1. Exists(u.files, path)
    BY DEF Recovers, Exists
  <2> QED
    BY <2>1, RemoveFact
<1>3. ASSUME NEW h \in DOMAIN s.chunks
      PROVE  LET n == References(s.files, {path}, h)
                 k == s.chunks[h] IN
             /\ s2.chunks[h].pending = k.pending /\ s2.chunks[h].version = k.version
             /\ s2.chunks[h].refcount = IF n > k.refcount THEN 0 ELSE k.refcount - n
             /\ k.refcount \in Nat
  <2>1. s.chunks[h] \in Chunk /\ s.chunks[h].refcount \in Nat
    BY DEF Sane, IsChunks, Chunk
  <2>2. PICK n \in Nat : n = References(s.files, {path}, h)
    BY <1>1
  <2>3. s2.chunks[h] = Dropped(s.chunks[h], n)
    BY <1>1, <2>2
  <2>4. /\ Dropped(s.chunks[h], n).pending = s.chunks[h].pending
        /\ Dropped(s.chunks[h], n).version = s.chunks[h].version
        /\ Dropped(s.chunks[h], n).refcount =
             IF n > s.chunks[h].refcount THEN 0 ELSE s.chunks[h].refcount - n
    BY <2>1, DroppedFact
  <2> QED
    BY <2>1, <2>2, <2>3, <2>4
<1>4. \A h \in DOMAIN u.chunks : u2.chunks[h].version = u.chunks[h].version
  <2>1. \A h \in DOMAIN u.chunks : u.chunks[h] \in Chunk
    BY DEF Sane, IsChunks
  <2> QED
    BY <1>2, <2>1, DroppedFact
<1>5. Recovers(u2, s2)
  <2>1. u2.files = s2.files /\ u2.next = s2.next
    BY <1>1, <1>2 DEF Recovers
  <2>2. DOMAIN u2.chunks = {h \in DOMAIN s2.chunks : ~s2.chunks[h].pending}
    BY <1>1, <1>2, <1>3 DEF Recovers
  <2>3. \A h \in DOMAIN u2.chunks : u2.chunks[h].version = s2.chunks[h].version
    BY <1>1, <1>2, <1>3, <1>4 DEF Recovers
  <2> QED
    BY <2>1, <2>2, <2>3 DEF Recovers
<1>6. PendingKept(s, s2)
  BY <1>1, <1>3 DEF PendingKept
<1>7. Shape(s2.files) /\ Changed(s.files, s2.files, {path}, {}, {})
  BY <1>1, RemoveFiles DEF Sane
<1>8. ASSUME NEW h \in DOMAIN s.chunks
      PROVE  s2.chunks[h].refcount = References(s2.files, DOMAIN s2.files, h)
  <2> DEFINE fs == s.files
             gs == s2.files
             rest == DOMAIN fs \ {path}
  <2>1. /\ IsFiles(fs) /\ IsFiles(gs) /\ DOMAIN gs = rest /\ \A p \in rest : gs[p] = fs[p]
    <3>1. Applied(s, s2, {})
      BY RemoveApplied
    <3> QED
      BY <1>1, <3>1 DEF Applied, Sane
  <2>2. /\ rest \subseteq DOMAIN fs /\ {path} \subseteq DOMAIN fs /\ {path} \cap rest = {}
        /\ {path} \cup rest = DOMAIN fs /\ rest \subseteq DOMAIN gs
    BY <2>1
  <2>3. s.chunks[h].refcount = References(fs, DOMAIN fs, h)
    BY DEF Counted
  <2> HIDE DEF fs, gs, rest
  <2>4. References(fs, {path} \cup rest, h) = References(fs, {path}, h) + References(fs, rest, h)
    BY <2>1, <2>2, ReferencesSplit
  <2>5. References(fs, rest, h) = References(gs, rest, h)
    BY <2>1, <2>2, ReferencesSame
  <2>6. References(fs, {path}, h) \in Nat /\ References(fs, rest, h) \in Nat
    BY <2>1, <2>2, ReferencesNat
  <2>7. s2.chunks[h].refcount =
          IF References(fs, {path}, h) > s.chunks[h].refcount THEN 0
          ELSE s.chunks[h].refcount - References(fs, {path}, h)
    BY <1>3 DEF fs
  <2>8. s2.chunks[h].refcount = References(gs, DOMAIN gs, h)
    BY <2>1, <2>2, <2>3, <2>4, <2>5, <2>6, <2>7
  <2> QED
    BY <2>8 DEF gs
<1>9. Counted(s2)
  BY <1>1, <1>8 DEF Counted
<1> QED
  BY <1>5, <1>6, <1>7, <1>9 DEF Effect

\* The chunks ds are cs, with the references of the files copied added.
Counts(cs, ds, fs, copied) ==
  /\ DOMAIN ds = DOMAIN cs
  /\ \A h \in DOMAIN cs : /\ References(fs, copied, h) \in Nat
                          /\ ds[h] = Shared(cs[h], References(fs, copied, h))

\* ApplySnapshot does that.
LEMMA SnapshotIs ==
  ASSUME NEW s, Sane(s), NEW source, IsSeq(source), NEW target, IsSeq(target),
         NEW copied, copied = Copied(s.files, source, target),
         NEW made, made = {Moved(p, source, target) : p \in copied},
         NEW t, t = ApplySnapshot(s, source, target)
  PROVE  /\ Copies(s.files, t.files, copied, made, source, target)
         /\ Counts(s.chunks, t.chunks, s.files, copied) /\ t.next = s.next
<1> DEFINE fs == s.files
           copies == Copied(fs, source, target)
           new == {Moved(p, source, target) : p \in copies}
           u == ApplySnapshot(s, source, target)
<1>1. DOMAIN u.files = DOMAIN fs \cup new
  BY DEF ApplySnapshot, Copied, Sane
<1>2. /\ \A p \in DOMAIN fs : u.files[p] = fs[p]
      /\ \A p \in copies : u.files[Moved(p, source, target)] = fs[p]
  BY SnapshotFact
<1>3. /\ u = [files |-> u.files, chunks |-> u.chunks, next |-> s.next]
      /\ IsFiles(u.files) /\ DOMAIN u.chunks = DOMAIN s.chunks
      /\ \A h \in DOMAIN s.chunks :
           /\ References(fs, copies, h) \in Nat
           /\ u.chunks[h] = Shared(s.chunks[h], References(fs, copies, h))
  BY SnapshotFact
<1>4. u = t /\ copies = copied /\ new = made
  OBVIOUS
<1> HIDE DEF u, copies, new
<1>5. Copies(fs, u.files, copies, new, source, target) /\ Counts(s.chunks, u.chunks, fs, copies)
  BY <1>1, <1>2, <1>3 DEF Copies, Counts
<1>6. u.next = s.next
  BY <1>3
<1> QED
  BY <1>4, <1>5, <1>6

\* Snapshot, to where no file is.
LEMMA SnapshotEffect ==
  ASSUME NEW s, Sane(s), NEW u, Sane(u), Recovers(u, s), Counted(s),
         NEW source, IsSeq(source), NEW target, IsSeq(target),
         Plain(target), Shape(s.files), FreeIn(s.files, target),
         NEW s2, s2 = ApplySnapshot(s, source, target),
         NEW u2, u2 = ApplySnapshot(u, source, target)
  PROVE  /\ Effect(s, s2, u2) /\ Shape(s2.files)
         /\ Changed(s.files, s2.files, {source, target}, {}, {})
<1> DEFINE fs == s.files
           gs == s2.files
<1>1. PICK copied : copied = Copied(fs, source, target)
  OBVIOUS
<1>2. PICK made : made = {Moved(p, source, target) : p \in copied}
  OBVIOUS
<1>3. /\ Copies(fs, gs, copied, made, source, target)
      /\ Counts(s.chunks, s2.chunks, fs, copied) /\ s2.next = s.next
  <2>1. copied = Copied(s.files, source, target)
    BY <1>1
  <2> QED
    BY <1>2, <2>1, SnapshotIs
<1>4. u.files = fs
  BY DEF Recovers
<1>5. /\ Copies(fs, u2.files, copied, made, source, target)
      /\ Counts(u.chunks, u2.chunks, fs, copied) /\ u2.next = u.next
  <2>1. /\ Copies(u.files, u2.files, copied, made, source, target)
        /\ Counts(u.chunks, u2.chunks, u.files, copied) /\ u2.next = u.next
    <3>1. copied = Copied(u.files, source, target)
      BY <1>1, <1>4
    <3> QED
      BY <1>2, <3>1, SnapshotIs
  <2> QED
    BY <1>4, <2>1
<1>6. IsFiles(fs) /\ IsFiles(gs)
  BY <1>3 DEF Sane, Copies
<1>7. u2.files = gs
  <2>1. u2.files = [p \in DOMAIN gs |-> u2.files[p]] /\ gs = [p \in DOMAIN gs |-> gs[p]]
    BY <1>3, <1>5 DEF Copies, IsFiles
  <2>2. \A p \in DOMAIN gs : u2.files[p] = gs[p]
    BY <1>2, <1>3, <1>5 DEF Copies
  <2> QED
    BY <2>1, <2>2
<1>8. ASSUME NEW h \in DOMAIN s.chunks
      PROVE  /\ s2.chunks[h].pending = s.chunks[h].pending
             /\ s2.chunks[h].version = s.chunks[h].version
             /\ s2.chunks[h].refcount = s.chunks[h].refcount + References(fs, copied, h)
  <2>1. s.chunks[h] \in Chunk
    BY DEF Sane, IsChunks
  <2>2. PICK n \in Nat : n = References(fs, copied, h)
    BY <1>3 DEF Counts
  <2>3. s2.chunks[h] = Shared(s.chunks[h], n)
    BY <1>3, <2>2 DEF Counts
  <2> QED
    BY <2>1, <2>2, <2>3, SharedFact
<1>9. ASSUME NEW h \in DOMAIN u.chunks PROVE u2.chunks[h].version = u.chunks[h].version
  <2>1. u.chunks[h] \in Chunk
    BY DEF Sane, IsChunks
  <2>2. PICK n \in Nat : n = References(fs, copied, h)
    BY <1>5 DEF Counts
  <2>3. u2.chunks[h] = Shared(u.chunks[h], n)
    BY <1>5, <2>2 DEF Counts
  <2> QED
    BY <2>1, <2>3, SharedFact
<1>10. DOMAIN s2.chunks = DOMAIN s.chunks /\ DOMAIN u2.chunks = DOMAIN u.chunks
  BY <1>3, <1>5 DEF Counts
<1>11. Recovers(u2, s2)
  <2>1. u2.next = s2.next
    BY <1>3, <1>5 DEF Recovers
  <2>2. DOMAIN u2.chunks = {h \in DOMAIN s2.chunks : ~s2.chunks[h].pending}
    BY <1>8, <1>10 DEF Recovers
  <2>3. \A h \in DOMAIN u2.chunks : u2.chunks[h].version = s2.chunks[h].version
    BY <1>8, <1>9, <1>10 DEF Recovers
  <2> QED
    BY <1>7, <2>1, <2>2, <2>3 DEF Recovers
<1>12. PendingKept(s, s2)
  BY <1>8, <1>10 DEF PendingKept
<1>13. copied \subseteq DOMAIN fs /\ \A p \in copied : IsPrefix(source, p)
  BY <1>1 DEF Copied, Subtree
<1>14. Shape(gs) /\ Changed(fs, gs, {source, target}, {}, {}) /\ made \cap DOMAIN fs = {}
  <2>2. Shape(fs) /\ FreeIn(fs, target)
    OBVIOUS
  <2>3. Images(made, copied, source, target)
    BY <1>2 DEF Images
  <2>4. Copies(fs, gs, copied, made, source, target)
    BY <1>3
  <2> HIDE DEF fs, gs
  <2> QED
    BY <2>4, <1>6, <1>13, <2>2, <2>3, SnapshotFiles
<1>15. ASSUME NEW h \in DOMAIN s.chunks
       PROVE  s2.chunks[h].refcount = References(gs, DOMAIN gs, h)
  <2>1. s.chunks[h].refcount = References(fs, DOMAIN fs, h)
    BY DEF Counted
  <2>2. s2.chunks[h].refcount = s.chunks[h].refcount + References(fs, copied, h)
    BY <1>8
  <2> HIDE DEF fs, gs
  <2>3. /\ DOMAIN gs = DOMAIN fs \cup made /\ \A p \in DOMAIN fs : gs[p] = fs[p]
        /\ \A p \in copied : gs[Moved(p, source, target)] = fs[p]
    BY <1>3 DEF Copies
  <2>4. References(gs, DOMAIN fs \cup made, h) =
          References(gs, DOMAIN fs, h) + References(gs, made, h)
    <3>1. DOMAIN fs \subseteq DOMAIN gs /\ made \subseteq DOMAIN gs /\ DOMAIN fs \cap made = {}
      BY <1>14, <2>3
    <3> QED
      BY <1>6, <3>1, ReferencesSplit
  <2>5. References(gs, DOMAIN fs, h) = References(fs, DOMAIN fs, h)
    <3>1. DOMAIN fs \subseteq DOMAIN gs
      BY <2>3
    <3> QED
      BY <1>6, <2>3, <3>1, ReferencesSame
  <2>6. References(gs, made, h) = References(fs, copied, h)
    <3>1. Images(made, copied, source, target)
      BY <1>2 DEF Images
    <3>2. made \subseteq DOMAIN gs
      BY <2>3
    <3> QED
      BY <1>6, <1>13, <2>3, <3>1, <3>2, ReferencesMoved
  <2> QED
    BY <2>1, <2>2, <2>3, <2>4, <2>5, <2>6
<1>16. Counted(s2)
  BY <1>10, <1>15 DEF Counted
<1> QED
  BY <1>11, <1>12, <1>14, <1>16 DEF Effect

\* A handle is allocated: its chunk is pending, and has no references.
LEMMA AllocEffect ==
  ASSUME NEW s, Sane(s), NEW u, Sane(u), Recovers(u, s), Counted(s), NEW h, h = s.next,
         h <= MaxHandle, NEW s2, s2 = WithPending(s, h), NEW u2, u2 = ApplyAllocHandle(u, h)
  PROVE  Counted(s2) /\ Recovers(u2, s2) /\ s2.chunks[h].version = 1
<1>1. /\ Sane(s2) /\ s2.next = h + 1 /\ s2.files = s.files /\ h \in Handle
      /\ h \notin DOMAIN s.chunks /\ DOMAIN s2.chunks = DOMAIN s.chunks \cup {h}
      /\ s2.chunks[h].pending /\ \A g \in DOMAIN s.chunks : s2.chunks[g] = s.chunks[g]
  BY AllocState
<1>2. u2 = [files |-> u.files, chunks |-> u.chunks,
            next |-> IF h + 1 > u.next THEN h + 1 ELSE u.next]
  BY <1>1, AllocApplied
<1>3. Recovers(u2, s2)
  <2>1. u2.files = s2.files
    BY <1>1, <1>2 DEF Recovers
  <2>2. u2.next = s2.next
    BY <1>1, <1>2, SaneNumbers DEF Recovers
  <2>3. DOMAIN u2.chunks = {g \in DOMAIN s2.chunks : ~s2.chunks[g].pending}
    BY <1>1, <1>2 DEF Recovers
  <2>4. \A g \in DOMAIN u2.chunks : u2.chunks[g].version = s2.chunks[g].version
    BY <1>1, <1>2 DEF Recovers
  <2> QED
    BY <2>1, <2>2, <2>3, <2>4 DEF Recovers
<1>4. s2.chunks[h].version = 1 /\ s2.chunks[h].refcount = 0
  <2>1. PICK a : a = ApplyAllocHandle(s, h)
    OBVIOUS
  <2>2. a = [files |-> s.files, chunks |-> s.chunks,
             next |-> IF h + 1 > s.next THEN h + 1 ELSE s.next]
    BY <1>1, <2>1, AllocApplied
  <2>3. PICK ds : ds = ChunkCreate(s.chunks, h, 1)
    OBVIOUS
  <2>4. ds[h] = NewChunk(1) /\ h \in DOMAIN ds
    BY <1>1, <2>3, CreateFact DEF Sane
  <2>5. s2.chunks = [ds EXCEPT ![h].pending = TRUE]
    BY <2>1, <2>2, <2>3 DEF WithPending
  <2> QED
    BY <2>4, <2>5 DEF NewChunk
<1>5. References(s2.files, DOMAIN s2.files, h) = 0
  <2>1. h \notin Used(s.files)
    BY SaneNumbers DEF Sane
  <2>2. \A x : x \notin Referring(s2.files, DOMAIN s2.files, h)
    <3>1. \A p \in DOMAIN s2.files : \A i \in DOMAIN s2.files[p] : s2.files[p][i] # h
      BY <1>1, <2>1 DEF Used, Range
    <3> QED
      BY <3>1, ReferringIs
  <2>3. Referring(s2.files, DOMAIN s2.files, h) = {}
    BY <2>2
  <2> QED
    BY <1>1, <2>3, ReferencesFinite, FS_EmptySet DEF Sane
<1>6. Counted(s2)
  BY <1>1, <1>4, <1>5 DEF Counted
<1> QED
  BY <1>3, <1>4, <1>6

\* The chunks ds are cs with a reference to h more, which is pending no longer.
TakenIn(cs, ds, h) ==
  /\ DOMAIN ds = DOMAIN cs \cup {h} /\ \A g \in DOMAIN cs : g # h => ds[g] = cs[g]
  /\ ~ds[h].pending
  /\ h \in DOMAIN cs => ds[h].version = cs[h].version /\ ds[h].refcount = cs[h].refcount + 1
  /\ h \notin DOMAIN cs => ds[h].version = 1

\* Referenced does that.
LEMMA ReferencedIs ==
  ASSUME NEW cs, IsChunks(cs), NEW h \in Handle, NEW ds, ds = Referenced(cs, h)
  PROVE  TakenIn(cs, ds, h)
<1>1. /\ DOMAIN ds = DOMAIN cs \cup {h} /\ \A g \in DOMAIN cs \ {h} : ds[g] = cs[g]
      /\ ds[h] = [version |-> IF h \in DOMAIN cs THEN cs[h].version ELSE 1, pending |-> FALSE,
                  refcount |-> (IF h \in DOMAIN cs THEN cs[h].refcount ELSE 0) + 1]
  BY ReferencedFact
<1> QED
  BY <1>1 DEF TakenIn

\* The new chunk of a call.
NewFor(s, h) ==
  /\ h \in Handle /\ h \in DOMAIN s.chunks /\ s.chunks[h].pending /\ s.chunks[h].version = 1
  /\ h < s.next

\* What ApplyAddChunk does at the end of a file.
LEMMA AddIs ==
  ASSUME NEW s, Sane(s), NEW path \in DOMAIN s.files, NEW index, index = Len(s.files[path]),
         NEW h \in Handle, NEW t, t = ApplyAddChunk(s, path, index, h)
  PROVE  /\ t.files = [s.files EXCEPT ![path] = Append(s.files[path], h)]
         /\ TakenIn(s.chunks, t.chunks, h)
         /\ t.next = IF h + 1 > s.next THEN h + 1 ELSE s.next
<1>1. PICK u : u = [s EXCEPT !.files[path] = Append(@, h), !.chunks = Referenced(@, h)]
  OBVIOUS
<1>2. index \in Nat
  BY LenProperties DEF Sane, IsFiles
<1>3. t = ApplyAllocHandle(u, h)
  <2>1. ~(~Exists(s.files, path) \/ index > Len(s.files[path])) /\ ~(index < Len(s.files[path]))
    BY <1>2 DEF Exists
  <2> QED
    BY <1>1, <2>1 DEF ApplyAddChunk
<1>4. u = [files |-> [s.files EXCEPT ![path] = Append(s.files[path], h)],
           chunks |-> Referenced(s.chunks, h), next |-> s.next]
  BY <1>1 DEF Sane
<1>5. t = [files |-> u.files, chunks |-> u.chunks, next |-> IF h + 1 > u.next THEN h + 1 ELSE u.next]
  BY <1>3, <1>4 DEF ApplyAllocHandle
<1>6. TakenIn(s.chunks, Referenced(s.chunks, h), h)
  BY ReferencedIs DEF Sane
<1> QED
  BY <1>4, <1>5, <1>6

\* The table us has the chunks of cs that are not pending.
Complete(us, cs) ==
  /\ DOMAIN us = {g \in DOMAIN cs : ~cs[g].pending}
  /\ \A g \in DOMAIN us : us[g].version = cs[g].version

\* Replay takes in the chunk as well, though it was not in its table.
LEMMA TakenRecovers ==
  ASSUME NEW us, NEW cs, Complete(us, cs), NEW h \in DOMAIN cs, cs[h].pending, cs[h].version = 1,
         NEW us2, NEW cs2, TakenIn(cs, cs2, h), TakenIn(us, us2, h)
  PROVE  Complete(us2, cs2)
<1>1. h \notin DOMAIN us
  BY DEF Complete
<1>2. \A g \in DOMAIN cs2 : g \in DOMAIN us2 <=> ~cs2[g].pending
  BY <1>1 DEF TakenIn, Complete
<1>3. DOMAIN us2 \subseteq DOMAIN cs2
  BY DEF TakenIn, Complete
<1>4. \A g \in DOMAIN us2 : us2[g].version = cs2[g].version
  BY <1>1 DEF TakenIn, Complete
<1> QED
  BY <1>2, <1>3, <1>4 DEF Complete

\* AddChunk.
LEMMA AddEffect ==
  ASSUME NEW s, Sane(s), NEW u, Sane(u), Recovers(u, s), Counted(s), Shape(s.files),
         NEW path \in DOMAIN s.files, NEW index, index = Len(s.files[path]), NEW h, NewFor(s, h),
         NEW s2, s2 = ApplyAddChunk(s, path, index, h),
         NEW u2, u2 = ApplyAddChunk(u, path, index, h)
  PROVE  Effect(s, s2, u2) /\ Shape(s2.files) /\ Changed(s.files, s2.files, {path}, {}, {h})
<1>1. h \in Handle /\ h \in DOMAIN s.chunks /\ h < s.next /\ u.files = s.files /\ u.next = s.next
  BY DEF NewFor, Recovers
<1>2. /\ s2.files = [s.files EXCEPT ![path] = Append(s.files[path], h)]
      /\ TakenIn(s.chunks, s2.chunks, h)
      /\ s2.next = IF h + 1 > s.next THEN h + 1 ELSE s.next
  BY <1>1, AddIs
<1>3. /\ u2.files = [u.files EXCEPT ![path] = Append(u.files[path], h)]
      /\ TakenIn(u.chunks, u2.chunks, h)
      /\ u2.next = IF h + 1 > u.next THEN h + 1 ELSE u.next
  BY <1>1, AddIs
<1>4. Recovers(u2, s2)
  <2>1. Complete(u.chunks, s.chunks)
    BY DEF Recovers, Complete
  <2>2. s.chunks[h].pending /\ s.chunks[h].version = 1
    BY DEF NewFor
  <2>3. Complete(u2.chunks, s2.chunks)
    BY <1>1, <1>2, <1>3, <2>1, <2>2, TakenRecovers
  <2>4. u2.files = s2.files /\ u2.next = s2.next
    BY <1>1, <1>2, <1>3
  <2> QED
    BY <2>3, <2>4 DEF Recovers, Complete
<1>5. PendingKept(s, s2)
  BY <1>2 DEF PendingKept, TakenIn
<1>6. /\ IsFiles(s.files) /\ IsFiles(s2.files) /\ DOMAIN s2.files = DOMAIN s.files
      /\ s2.files[path] = Append(s.files[path], h)
      /\ \A p \in DOMAIN s.files : p # path => s2.files[p] = s.files[p]
  <2>1. PICK gs : gs = [s.files EXCEPT ![path] = Append(@, h)]
    OBVIOUS
  <2>2. IsFiles(s.files)
    BY DEF Sane
  <2>3. /\ IsFiles(gs) /\ DOMAIN gs = DOMAIN s.files
        /\ \A p \in DOMAIN s.files : p # path => gs[p] = s.files[p]
        /\ gs[path] = Append(s.files[path], h)
    BY <1>1, <2>1, <2>2, AddFact
  <2>4. s2.files = gs
    BY <1>2, <2>1
  <2> QED
    BY <2>2, <2>3, <2>4
<1>7. Shape(s2.files) /\ Changed(s.files, s2.files, {path}, {}, {h})
  BY <1>1, <1>6, AddFiles
<1>8. OneMore(s.files, s2.files, h)
  BY <1>1, <1>6, ReferencesAdd
<1>9. Counted(s2)
  <2>1. ASSUME NEW g \in DOMAIN s2.chunks
        PROVE  s2.chunks[g].refcount = References(s2.files, DOMAIN s2.files, g)
    <3>1. g \in DOMAIN s.chunks /\ g \in Handle
      BY <1>1, <1>2 DEF TakenIn, Sane, IsChunks
    <3>2. s.chunks[g].refcount = References(s.files, DOMAIN s.files, g)
      BY <3>1 DEF Counted
    <3>3. References(s.files, DOMAIN s.files, g) \in Nat
      BY <1>6, ReferencesNat
    <3>4. References(s2.files, DOMAIN s2.files, g) =
            References(s.files, DOMAIN s.files, g) + IF g = h THEN 1 ELSE 0
      BY <1>8, <3>1 DEF OneMore
    <3>5. CASE g = h
      BY <1>1, <1>2, <3>2, <3>4, <3>5 DEF TakenIn
    <3>6. CASE g # h
      BY <1>2, <3>1, <3>2, <3>3, <3>4, <3>6 DEF TakenIn
    <3> QED
      BY <3>5, <3>6
  <2> QED
    BY <2>1 DEF Counted
<1> QED
  BY <1>4, <1>5, <1>7, <1>9 DEF Effect

\* The chunks ds are cs with a reference to old less.
TakenOut(cs, ds, old) ==
  /\ DOMAIN ds = DOMAIN cs /\ \A g \in DOMAIN cs : g # old => ds[g] = cs[g]
  /\ old \in DOMAIN cs => ds[old] = Dropped(cs[old], 1)

\* What ApplyReplaceChunk does to a chunk of a file.
LEMMA ReplaceIs ==
  ASSUME NEW s, Sane(s), NEW path \in DOMAIN s.files, NEW index \in Nat,
         index + 1 \in DOMAIN s.files[path], NEW old, old = s.files[path][index + 1],
         NEW h \in Handle, h # old, NEW t, t = ApplyReplaceChunk(s, path, index, h)
  PROVE  /\ t.files = [s.files EXCEPT ![path][index + 1] = h]
         /\ \E cs : TakenOut(s.chunks, cs, old) /\ TakenIn(cs, t.chunks, h)
         /\ t.next = IF h + 1 > s.next THEN h + 1 ELSE s.next
<1>1. index < Len(s.files[path])
  <2>1. s.files[path] \in Seq(Handle)
    BY DEF Sane, IsFiles
  <2>2. Len(s.files[path]) \in Nat /\ index + 1 \in 1..Len(s.files[path])
    BY <2>1, LenProperties
  <2> QED
    BY <2>2
<1>2. /\ t = [files |-> [s.files EXCEPT ![path][index + 1] = h], chunks |-> t.chunks,
              next |-> IF h + 1 > s.next THEN h + 1 ELSE s.next]
      /\ \E cs : /\ IsChunks(cs) /\ DOMAIN cs = DOMAIN s.chunks
                 /\ \A g \in DOMAIN cs : g # old => cs[g] = s.chunks[g]
                 /\ old \in DOMAIN cs => cs[old] = Dropped(s.chunks[old], 1)
                 /\ t.chunks = Referenced(cs, h)
  BY <1>1, ReplaceFact
<1>3. PICK cs : /\ IsChunks(cs) /\ DOMAIN cs = DOMAIN s.chunks
                /\ \A g \in DOMAIN cs : g # old => cs[g] = s.chunks[g]
                /\ old \in DOMAIN cs => cs[old] = Dropped(s.chunks[old], 1)
                /\ t.chunks = Referenced(cs, h)
  BY <1>2
<1>4. TakenOut(s.chunks, cs, old)
  BY <1>3 DEF TakenOut
<1>5. TakenIn(cs, t.chunks, h)
  BY <1>3, ReferencedIs
<1>6. /\ t.files = [s.files EXCEPT ![path][index + 1] = h]
      /\ t.next = IF h + 1 > s.next THEN h + 1 ELSE s.next
  BY <1>2
<1> QED
  BY <1>4, <1>5, <1>6

\* The end of CopyOnWrite.
LEMMA ReplaceEffect ==
  ASSUME NEW s, Sane(s), NEW u, Sane(u), Recovers(u, s), Counted(s), UsedInv(s),
         NEW path \in DOMAIN s.files, NEW index \in Nat, index + 1 \in DOMAIN s.files[path],
         NEW h, NewFor(s, h),
         NEW s2, s2 = ApplyReplaceChunk(s, path, index, h),
         NEW u2, u2 = ApplyReplaceChunk(u, path, index, h)
  PROVE  /\ Effect(s, s2, u2) /\ IsFiles(s2.files) /\ DOMAIN s2.files = DOMAIN s.files
         /\ s2.files[path] = [s.files[path] EXCEPT ![index + 1] = h]
         /\ \A p \in DOMAIN s.files : p # path => s2.files[p] = s.files[p]
<1>1. h \in Handle /\ h \in DOMAIN s.chunks /\ h < s.next /\ u.files = s.files /\ u.next = s.next
  BY DEF NewFor, Recovers
<1>2. PICK old : old = s.files[path][index + 1]
  OBVIOUS
<1>3. old \in DOMAIN s.chunks /\ ~s.chunks[old].pending /\ old # h /\ old \in Handle
  <2>1. old \in Used(s.files)
    BY <1>2 DEF Used, Range
  <2> QED
    BY <2>1 DEF UsedInv, NewFor, Sane, IsChunks
<1>4. /\ s2.files = [s.files EXCEPT ![path][index + 1] = h]
      /\ \E cs : TakenOut(s.chunks, cs, old) /\ TakenIn(cs, s2.chunks, h)
      /\ s2.next = IF h + 1 > s.next THEN h + 1 ELSE s.next
  BY <1>1, <1>2, <1>3, ReplaceIs
<1>5. /\ u2.files = [u.files EXCEPT ![path][index + 1] = h]
      /\ \E ds : TakenOut(u.chunks, ds, old) /\ TakenIn(ds, u2.chunks, h)
      /\ u2.next = IF h + 1 > u.next THEN h + 1 ELSE u.next
  BY <1>1, <1>2, <1>3, ReplaceIs
<1>6. PICK cs : TakenOut(s.chunks, cs, old) /\ TakenIn(cs, s2.chunks, h)
  BY <1>4
<1>7. PICK ds : TakenOut(u.chunks, ds, old) /\ TakenIn(ds, u2.chunks, h)
  BY <1>5
<1>8. /\ s.chunks[old] \in Chunk /\ s.chunks[old].refcount \in Nat /\ DOMAIN cs = DOMAIN s.chunks
      /\ cs[old].pending = s.chunks[old].pending /\ cs[old].version = s.chunks[old].version
      /\ cs[old].refcount = IF 1 > s.chunks[old].refcount THEN 0 ELSE s.chunks[old].refcount - 1
  <2>1. s.chunks[old] \in Chunk /\ s.chunks[old].refcount \in Nat
    BY <1>3 DEF Sane, IsChunks, Chunk
  <2>2. cs[old] = Dropped(s.chunks[old], 1) /\ DOMAIN cs = DOMAIN s.chunks
    BY <1>3, <1>6 DEF TakenOut
  <2>3. /\ Dropped(s.chunks[old], 1).pending = s.chunks[old].pending
        /\ Dropped(s.chunks[old], 1).version = s.chunks[old].version
        /\ Dropped(s.chunks[old], 1).refcount =
             IF 1 > s.chunks[old].refcount THEN 0 ELSE s.chunks[old].refcount - 1
    BY <2>1, DroppedFact
  <2> QED
    BY <2>1, <2>2, <2>3
<1>9. \A g \in DOMAIN u.chunks : g \in DOMAIN ds /\ ds[g].version = u.chunks[g].version
  <2>1. \A g \in DOMAIN u.chunks : u.chunks[g] \in Chunk
    BY DEF Sane, IsChunks
  <2>2. \A g \in DOMAIN u.chunks : g # old => ds[g] = u.chunks[g]
    BY <1>7 DEF TakenOut
  <2>3. old \in DOMAIN u.chunks => ds[old] = Dropped(u.chunks[old], 1)
    BY <1>7 DEF TakenOut
  <2>4. old \in DOMAIN u.chunks => ds[old].version = u.chunks[old].version
    BY <2>1, <2>3, DroppedFact
  <2>5. DOMAIN ds = DOMAIN u.chunks
    BY <1>7 DEF TakenOut
  <2> QED
    BY <2>2, <2>4, <2>5
<1>10. Recovers(u2, s2)
  <2>1. \A g \in DOMAIN s.chunks : /\ cs[g].pending = s.chunks[g].pending
                                   /\ cs[g].version = s.chunks[g].version
    BY <1>6, <1>8 DEF TakenOut
  <2>2. DOMAIN ds = DOMAIN u.chunks /\ DOMAIN cs = DOMAIN s.chunks
    BY <1>7, <1>8 DEF TakenOut
  <2>3. DOMAIN ds = {g \in DOMAIN cs : ~cs[g].pending}
    BY <2>1, <2>2 DEF Recovers
  <2>4. \A g \in DOMAIN ds : ds[g].version = cs[g].version
    BY <1>9, <2>1, <2>2 DEF Recovers
  <2>5. Complete(ds, cs)
    BY <2>3, <2>4 DEF Complete
  <2>6. h \in DOMAIN cs /\ cs[h].pending /\ cs[h].version = 1
    BY <1>8, <2>1 DEF NewFor
  <2>7. Complete(u2.chunks, s2.chunks)
    BY <1>6, <1>7, <2>5, <2>6, TakenRecovers
  <2>8. u2.files = s2.files /\ u2.next = s2.next
    BY <1>1, <1>4, <1>5
  <2> QED
    BY <2>7, <2>8 DEF Recovers, Complete
<1>11. PendingKept(s, s2)
  <2>1. ASSUME NEW g \in DOMAIN s2.chunks, s2.chunks[g].pending
        PROVE  g \in DOMAIN s.chunks /\ s.chunks[g].pending /\ s2.chunks[g].version = s.chunks[g].version
    <3>1. g # h /\ g \in DOMAIN s.chunks /\ s2.chunks[g] = cs[g]
      BY <1>6, <1>8, <2>1 DEF TakenIn
    <3>2. g # old
      BY <1>3, <1>8, <2>1, <3>1
    <3>3. cs[g] = s.chunks[g]
      BY <1>6, <3>1, <3>2 DEF TakenOut
    <3> QED
      BY <2>1, <3>1, <3>3
  <2> QED
    BY <2>1 DEF PendingKept
<1>12. /\ IsFiles(s.files) /\ IsFiles(s2.files) /\ DOMAIN s2.files = DOMAIN s.files
       /\ s2.files[path] = [s.files[path] EXCEPT ![index + 1] = h]
       /\ \A p \in DOMAIN s.files : p # path => s2.files[p] = s.files[p]
  <2>1. IsFiles(s.files)
    BY DEF Sane
  <2>2. PICK i \in DOMAIN s.files[path] : i = index + 1
    OBVIOUS
  <2>3. s2.files = [s.files EXCEPT ![path][i] = h]
    BY <1>4, <2>2
  <2>4. /\ IsFiles(s2.files) /\ DOMAIN s2.files = DOMAIN s.files
        /\ s2.files[path] = [s.files[path] EXCEPT ![i] = h]
        /\ \A p \in DOMAIN s.files : p # path => s2.files[p] = s.files[p]
    <3>1. PICK gs : gs = [s.files EXCEPT ![path][i] = h]
      OBVIOUS
    <3>2. /\ IsFiles(gs) /\ DOMAIN gs = DOMAIN s.files
          /\ \A p \in DOMAIN s.files : p # path => gs[p] = s.files[p]
          /\ gs[path] = [s.files[path] EXCEPT ![i] = h]
      BY <1>1, <2>1, <3>1, PutFact
    <3> QED
      BY <2>3, <3>1, <3>2
  <2> QED
    BY <2>1, <2>2, <2>4
<1>13. OneForOther(s.files, s2.files, old, h)
  <2>1. PICK i \in DOMAIN s.files[path] : i = index + 1
    OBVIOUS
  <2> QED
    BY <1>1, <1>2, <1>3, <1>12, <2>1, ReferencesPut
<1>14. Counted(s2)
  <2>1. ASSUME NEW g \in DOMAIN s2.chunks
        PROVE  s2.chunks[g].refcount = References(s2.files, DOMAIN s2.files, g)
    <3>1. g \in DOMAIN s.chunks /\ g \in Handle
      BY <1>1, <1>6, <1>8 DEF TakenIn, Sane, IsChunks
    <3>2. s.chunks[g].refcount = References(s.files, DOMAIN s.files, g)
      BY <3>1 DEF Counted
    <3>3. /\ g = old => /\ References(s.files, DOMAIN s.files, g) >= 1
                        /\ References(s2.files, DOMAIN s2.files, g) =
                             References(s.files, DOMAIN s.files, g) - 1
          /\ g = h => References(s2.files, DOMAIN s2.files, g) =
                        References(s.files, DOMAIN s.files, g) + 1
          /\ g # old /\ g # h => References(s2.files, DOMAIN s2.files, g) =
                                   References(s.files, DOMAIN s.files, g)
      BY <1>13, <3>1 DEF OneForOther
    <3>4. CASE g = old
      <4>1. s2.chunks[g] = cs[g]
        BY <1>3, <1>6, <1>8, <3>1, <3>4 DEF TakenIn
      <4> QED
        BY <1>8, <3>2, <3>3, <3>4, <4>1
    <3>5. CASE g = h
      <4>1. cs[g] = s.chunks[g]
        BY <1>3, <1>6, <3>1, <3>5 DEF TakenOut
      <4>2. s2.chunks[g].refcount = cs[g].refcount + 1
        BY <1>6, <1>8, <3>1, <3>5 DEF TakenIn
      <4> QED
        BY <3>2, <3>3, <3>5, <4>1, <4>2
    <3>6. CASE g # old /\ g # h
      <4>1. s2.chunks[g] = s.chunks[g]
        BY <1>6, <1>8, <3>1, <3>6 DEF TakenIn, TakenOut
      <4> QED
        BY <3>2, <3>3, <3>6, <4>1
    <3> QED
      BY <3>4, <3>5, <3>6
  <2> QED
    BY <2>1 DEF Counted
<1> QED
  BY <1>10, <1>11, <1>12, <1>14 DEF Effect

\* The version of a chunk becomes v.
LEMMA BumpEffect ==
  ASSUME NEW s, Sane(s), NEW u, Sane(u), Recovers(u, s), Counted(s),
         NEW h \in DOMAIN s.chunks, ~s.chunks[h].pending,
         NEW v \in Nat, v >= s.chunks[h].version,
         NEW s2, s2 = [files |-> s.files, chunks |-> [s.chunks EXCEPT ![h].version = v],
                       next |-> s.next],
         NEW u2, u2 = ApplyBumpVersion(u, h, v)
  PROVE  Effect(s, s2, u2) /\ s2.files = s.files
<1>1. h \in DOMAIN u.chunks /\ u.chunks[h].version = s.chunks[h].version
  BY DEF Recovers
<1>2. s.chunks[h].version \in Nat /\ s.chunks[h] \in Chunk /\ u.chunks[h] \in Chunk
  <2>1. s.chunks[h] \in Chunk /\ u.chunks[h] \in Chunk
    BY <1>1 DEF Sane, IsChunks
  <2>2. s.chunks[h].version \in 1..MaxVersion
    BY <2>1 DEF Chunk
  <2> QED
    BY <2>1, <2>2
<1>3. (IF v > u.chunks[h].version THEN v ELSE u.chunks[h].version) = v
  BY <1>1, <1>2
<1>4. PICK us : us = [u.chunks EXCEPT ![h].version = v]
  OBVIOUS
<1>5. u2 = [files |-> u.files, chunks |-> us, next |-> u.next]
  BY <1>1, <1>3, <1>4 DEF ApplyBumpVersion, Sane
<1>6. PICK cs : cs = s2.chunks
  OBVIOUS
<1>7. /\ DOMAIN cs = DOMAIN s.chunks /\ \A g \in DOMAIN cs : g # h => cs[g] = s.chunks[g]
      /\ cs[h].version = v /\ cs[h].pending = s.chunks[h].pending
      /\ cs[h].refcount = s.chunks[h].refcount
  <2>1. cs = [s.chunks EXCEPT ![h].version = v]
    BY <1>6
  <2>2. DOMAIN cs = DOMAIN s.chunks /\ \A g \in DOMAIN cs : g # h => cs[g] = s.chunks[g]
    BY <2>1
  <2>3. cs[h] = [s.chunks[h] EXCEPT !.version = v]
    BY <2>1
  <2> QED
    BY <1>2, <2>2, <2>3 DEF Chunk
<1>8. /\ DOMAIN us = DOMAIN u.chunks /\ \A g \in DOMAIN us : g # h => us[g] = u.chunks[g]
      /\ us[h].version = v
  <2>1. DOMAIN us = DOMAIN u.chunks /\ \A g \in DOMAIN us : g # h => us[g] = u.chunks[g]
    BY <1>4
  <2>2. us[h] = [u.chunks[h] EXCEPT !.version = v]
    BY <1>1, <1>4
  <2> QED
    BY <1>2, <2>1, <2>2 DEF Chunk
<1>9. Recovers(u2, s2)
  <2>1. u2.files = s2.files /\ u2.next = s2.next /\ u2.chunks = us /\ s2.chunks = cs
    BY <1>5, <1>6 DEF Recovers
  <2>2. DOMAIN us = {g \in DOMAIN cs : ~cs[g].pending}
    BY <1>7, <1>8 DEF Recovers
  <2>3. \A g \in DOMAIN us : us[g].version = cs[g].version
    BY <1>7, <1>8 DEF Recovers
  <2> QED
    BY <2>1, <2>2, <2>3 DEF Recovers
<1>10. PendingKept(s, s2)
  BY <1>6, <1>7 DEF PendingKept
<1>11. Counted(s2)
  BY <1>6, <1>7 DEF Counted
<1> QED
  BY <1>9, <1>10, <1>11 DEF Effect

\* A chunk that no file has is dropped, from the log's state as well.
LEMMA DropEffect ==
  ASSUME NEW s, Sane(s), NEW u, Sane(u), Recovers(u, s), Counted(s), NEW h,
         NEW s2, s2 = ApplyDropChunk(s, h), NEW u2, u2 = ApplyDropChunk(u, h)
  PROVE  Effect(s, s2, u2) /\ s2.files = s.files
<1>1. /\ s2.files = s.files /\ s2.next = s.next /\ DOMAIN s2.chunks = DOMAIN s.chunks \ {h}
      /\ \A g \in DOMAIN s2.chunks : s2.chunks[g] = s.chunks[g]
  BY DropFact
<1>2. /\ u2.files = u.files /\ u2.next = u.next /\ DOMAIN u2.chunks = DOMAIN u.chunks \ {h}
      /\ \A g \in DOMAIN u2.chunks : u2.chunks[g] = u.chunks[g]
  BY DropFact
<1>3. Recovers(u2, s2)
  <2>1. DOMAIN u2.chunks = {g \in DOMAIN s2.chunks : ~s2.chunks[g].pending}
    BY <1>1, <1>2 DEF Recovers
  <2>2. \A g \in DOMAIN u2.chunks : u2.chunks[g].version = s2.chunks[g].version
    BY <1>1, <1>2 DEF Recovers
  <2> QED
    BY <1>1, <1>2, <2>1, <2>2 DEF Recovers
<1> QED
  BY <1>1, <1>3 DEF Effect, Counted, PendingKept

\* A chunk whose creation failed is erased, and the log never had it.
LEMMA EraseEffect ==
  ASSUME NEW s, Sane(s), NEW u, Recovers(u, s), Counted(s),
         NEW h \in DOMAIN s.chunks, s.chunks[h].pending, NEW s2, s2 = ApplyDropChunk(s, h)
  PROVE  Effect(s, s2, u) /\ s2.files = s.files
<1>1. /\ s2.files = s.files /\ s2.next = s.next /\ DOMAIN s2.chunks = DOMAIN s.chunks \ {h}
      /\ \A g \in DOMAIN s2.chunks : s2.chunks[g] = s.chunks[g]
  BY DropFact
<1>2. Recovers(u, s2)
  <2>1. DOMAIN u.chunks = {g \in DOMAIN s2.chunks : ~s2.chunks[g].pending}
    BY <1>1 DEF Recovers
  <2>2. \A g \in DOMAIN u.chunks : u.chunks[g].version = s2.chunks[g].version
    BY <1>1 DEF Recovers
  <2> QED
    BY <1>1, <2>1, <2>2 DEF Recovers
<1> QED
  BY <1>1, <1>2 DEF Effect, Counted, PendingKept

\* A checkpoint has what is not pending.
LEMMA LoadRecovers ==
  ASSUME NEW s, Sane(s)
  PROVE  Recovers(Load(ToCheckpoint(s)), s)
<1>1. PICK t : t = Load(ToCheckpoint(s))
  OBVIOUS
<1>2. /\ t.files = s.files /\ t.next = s.next
      /\ DOMAIN t.chunks = {h \in DOMAIN s.chunks : ~s.chunks[h].pending}
      /\ \A h \in DOMAIN t.chunks : t.chunks[h] = NewChunk(s.chunks[h].version)
  BY <1>1, LoadFact
<1>3. ASSUME NEW h \in DOMAIN t.chunks PROVE t.chunks[h].version = s.chunks[h].version
  <2>1. t.chunks[h] = NewChunk(s.chunks[h].version)
    BY <1>2
  <2> QED
    BY <2>1 DEF NewChunk
<1> QED
  BY <1>1, <1>2, <1>3 DEF Recovers

\* A state that replay may come to: no file within a file, no chunk missing.
Whole(u) == Shape(u.files) /\ Used(u.files) \subseteq DOMAIN u.chunks

\* Recover's last step counts, and changes nothing that the log knows.
LEMMA RecomputeEffect ==
  ASSUME NEW d, Sane(d), NonePending(d), Whole(d), NEW s2, s2 = RecomputeRefcounts(d)
  PROVE  Counted(s2) /\ Recovers(d, s2) /\ s2.files = d.files /\ NonePending(s2)
<1>1. /\ NonePending(s2) /\ s2.files = d.files /\ s2.next = d.next
      /\ DOMAIN s2.chunks = DOMAIN d.chunks \cup Used(d.files)
      /\ \A h \in DOMAIN s2.chunks :
           s2.chunks[h] = [(IF h \in DOMAIN d.chunks THEN d.chunks[h] ELSE NewChunk(1))
                             EXCEPT !.refcount = References(d.files, DOMAIN d.files, h)]
  BY RecomputeFact
<1>2. DOMAIN s2.chunks = DOMAIN d.chunks
  BY <1>1 DEF Whole
<1>3. ASSUME NEW h \in DOMAIN s2.chunks
      PROVE  /\ s2.chunks[h].refcount = References(d.files, DOMAIN d.files, h)
             /\ s2.chunks[h].version = d.chunks[h].version
  <2>1. d.chunks[h] \in Chunk
    BY <1>2, <1>3 DEF Sane, IsChunks
  <2>2. s2.chunks[h] = [d.chunks[h] EXCEPT !.refcount = References(d.files, DOMAIN d.files, h)]
    BY <1>1, <1>2, <1>3
  <2> QED
    BY <2>1, <2>2 DEF Chunk
<1>4. Counted(s2)
  BY <1>1, <1>3 DEF Counted
<1>5. Recovers(d, s2)
  <2>1. DOMAIN d.chunks = {h \in DOMAIN s2.chunks : ~s2.chunks[h].pending}
    BY <1>1, <1>2 DEF NonePending
  <2> QED
    BY <1>1, <1>2, <1>3, <2>1 DEF Recovers
<1> QED
  BY <1>1, <1>4, <1>5

-----------------------------------------------------------------------------
(* The log between the disk and memory.                                    *)

\* The first n records of the tail t, and the state they make of disk d.
RecordsOf(t, n) == [i \in 1..n |-> t[i].record]
ReplayedOf(d, t, n) == Replay(d, RecordsOf(t, n))

\* One record after the other.
ReplayedSteps(d, t) ==
  /\ ReplayedOf(d, t, 0) = d
  /\ \A n \in Nat : n + 1 <= Len(t) =>
       ReplayedOf(d, t, n + 1) = Apply(ReplayedOf(d, t, n), t[n + 1].record)

\* Replay goes record by record.
LEMMA ReplayedIs ==
  ASSUME NEW d, NEW t, IsSeq(t)
  PROVE  ReplayedSteps(d, t)
<1>1. \A n \in Nat : /\ Len(RecordsOf(t, n)) = n
                     /\ \A i \in 1..n : RecordsOf(t, n)[i] = t[i].record
  BY DEF RecordsOf
<1>2. ReplayedOf(d, t, 0) = d
  <2>1. PICK rs : rs = RecordsOf(t, 0)
    OBVIOUS
  <2>2. Len(rs) = 0
    BY <1>1, <2>1
  <2>3. PICK f : IsReplay(f, d, rs) /\ Replay(d, rs) = f[Len(rs)]
    BY <2>2, ReplayFact
  <2>4. f[0] = d
    BY <2>2, <2>3, ReplaySteps DEF Steps
  <2> QED
    BY <2>1, <2>2, <2>3, <2>4 DEF ReplayedOf
<1>3. ASSUME NEW n \in Nat, n + 1 <= Len(t)
      PROVE  ReplayedOf(d, t, n + 1) = Apply(ReplayedOf(d, t, n), t[n + 1].record)
  <2>1. PICK rs : rs = RecordsOf(t, n + 1)
    OBVIOUS
  <2>2. PICK qs : qs = RecordsOf(t, n)
    OBVIOUS
  <2>3. /\ Len(rs) = n + 1 /\ Len(qs) = n /\ rs[n + 1] = t[n + 1].record
        /\ \A i \in 1..n : rs[i] = qs[i]
    BY <1>1, <2>1, <2>2
  <2>4. PICK f : IsReplay(f, d, rs) /\ Replay(d, rs) = f[Len(rs)]
    BY <2>3, ReplayFact
  <2>5. PICK g : IsReplay(g, d, qs) /\ Replay(d, qs) = g[Len(qs)]
    BY <2>3, ReplayFact
  <2>6. f[n] = g[n]
    BY <2>3, <2>4, <2>5, ReplayAgrees
  <2>7. f[n + 1] = Apply(f[n], rs[n + 1])
    <3>1. Steps(f, d, rs)
      BY <2>3, <2>4, ReplaySteps
    <3> QED
      BY <2>3, <3>1 DEF Steps
  <2> QED
    BY <2>1, <2>2, <2>3, <2>4, <2>5, <2>6, <2>7 DEF ReplayedOf
<1> QED
  BY <1>2, <1>3 DEF ReplayedSteps

\* What replay comes to is sane.
LEMMA ReplayedSane ==
  ASSUME NEW s, NEW d, NEW t, DiskInv(s, d, t), NEW n \in Nat, n <= Len(t)
  PROVE  Sane(ReplayedOf(d, t, n)) /\ NonePending(ReplayedOf(d, t, n))
<1>1. Sane(s) /\ Sane(d) /\ IsSeq(t) /\ NonePending(d)
  BY DEF DiskInv
<1>2. s.next \in Nat
  BY <1>1, SaneNumbers
<1>3. \A i \in 1..n : i \in DOMAIN t
  BY <1>1, SeqFact
<1>4. PICK rs : rs = RecordsOf(t, n)
  OBVIOUS
<1>5. Len(rs) = n /\ \A i \in 1..n : rs[i] = t[i].record
  BY <1>4 DEF RecordsOf
<1>6. PICK f : IsReplay(f, d, rs) /\ Replay(d, rs) = f[Len(rs)]
  BY <1>5, ReplayFact
<1>7. \A i \in 1..n : RecordOK(rs[i]) /\ (Allocates(rs[i]) => rs[i].handle < s.next)
  BY <1>3, <1>5 DEF DiskInv
<1>8. Follows(d, f[n], s.next)
  BY <1>1, <1>2, <1>5, <1>6, <1>7, ReplayFollows
<1> QED
  BY <1>1, <1>4, <1>5, <1>6, <1>8 DEF Follows, ReplayedOf

\* Every state that a crash can leave is whole, and the last one stands for
\* what is in memory.
LogInv(s, d, t) ==
  /\ \A n \in Nat : n <= Len(t) => Whole(ReplayedOf(d, t, n))
  /\ Recovers(ReplayedOf(d, t, Len(t)), s)

\* A record more at the end.
LEMMA LogMore ==
  ASSUME NEW s, NEW d, NEW t, IsSeq(t), LogInv(s, d, t), NEW e, NEW t2, t2 = Append(t, e),
         NEW s2, Recovers(Apply(ReplayedOf(d, t, Len(t)), e.record), s2),
         Shape(s2.files), UsedInv(s2)
  PROVE  LogInv(s2, d, t2)
<1>1. Appended(t, e, t2)
  BY AppendFact
<1>2. PICK L \in Nat : L = Len(t)
  BY <1>1 DEF Appended
<1>3. IsSeq(t2) /\ Len(t2) = L + 1 /\ t2[L + 1] = e /\ \A i \in 1..L : t2[i] = t[i]
  <2>1. IsSeq(t2) /\ t2[L + 1] = e /\ \A i \in 1..L : t2[i] = t[i]
    BY <1>1, <1>2 DEF Appended
  <2>2. t \in Seq(Range(t) \cup {e}) /\ e \in Range(t) \cup {e}
    BY SeqMonotonic DEF IsSeq
  <2>3. Len(t2) = Len(t) + 1
    BY <2>2, AppendProperties
  <2> QED
    BY <1>2, <2>1, <2>3
<1>4. ASSUME NEW n \in Nat, n <= L PROVE ReplayedOf(d, t2, n) = ReplayedOf(d, t, n)
  <2>1. RecordsOf(t2, n) = RecordsOf(t, n)
    <3>1. \A i \in 1..n : t2[i] = t[i]
      BY <1>3, <1>4
    <3> QED
      BY <3>1 DEF RecordsOf
  <2> QED
    BY <2>1 DEF ReplayedOf
<1>5. ReplayedOf(d, t2, L + 1) = Apply(ReplayedOf(d, t, L), e.record)
  <2>1. ReplayedSteps(d, t2)
    BY <1>3, ReplayedIs
  <2>2. ReplayedOf(d, t2, L + 1) = Apply(ReplayedOf(d, t2, L), t2[L + 1].record)
    BY <1>2, <1>3, <2>1 DEF ReplayedSteps
  <2> QED
    BY <1>2, <1>3, <1>4, <2>2
<1>6. Recovers(ReplayedOf(d, t2, Len(t2)), s2)
  BY <1>2, <1>3, <1>5
<1>7. Whole(ReplayedOf(d, t2, L + 1))
  BY <1>3, <1>6 DEF Whole, Recovers, UsedInv
<1>8. \A n \in Nat : n <= L => Whole(ReplayedOf(d, t2, n))
  BY <1>2, <1>4 DEF LogInv
<1>9. \A n \in Nat : n <= L + 1 => n <= L \/ n = L + 1
  BY <1>2
<1> QED
  BY <1>3, <1>6, <1>7, <1>8, <1>9 DEF LogInv

\* The flusher writes n records: the others go on from there.
LEMMA LogFlush ==
  ASSUME NEW s, NEW d, NEW t, IsSeq(t), LogInv(s, d, t), NEW n \in 1..Len(t),
         NEW d2, d2 = ReplayedOf(d, t, n), NEW t2, t2 = SubSeq(t, n + 1, Len(t))
  PROVE  LogInv(s, d2, t2)
<1>1. PICK L \in Nat : L = Len(t) /\ DOMAIN t = 1..L
  BY SeqFact
<1>2. /\ IsSeq(t2) /\ Len(t2) = L - n /\ \A i \in 1..(L - n) : t2[i] = t[n + i]
  <2>1. PICK S : S = Range(t)
    OBVIOUS
  <2>2. t \in Seq(S) /\ \A i \in 1..L : t[i] \in S
    BY <1>1, <2>1 DEF IsSeq, Range
  <2>3. PICK a \in Int : a = n + 1
    OBVIOUS
  <2>4. PICK b \in Int : b = L
    OBVIOUS
  <2>5. /\ SubSeq(t, a, b) \in Seq(S) /\ Len(SubSeq(t, a, b)) = (IF a <= b THEN b - a + 1 ELSE 0)
        /\ \A i \in 1..(b - a + 1) : SubSeq(t, a, b)[i] = t[a + i - 1]
    BY <1>1, <2>2, <2>3, <2>4, SubSeqProperties
  <2>6. t2 = SubSeq(t, a, b)
    BY <1>1, <2>3, <2>4
  <2>7. IsSeq(t2)
    BY <2>5, <2>6, SeqIsSeq
  <2>8. b - a + 1 = L - n /\ (IF a <= b THEN b - a + 1 ELSE 0) = L - n
        /\ \A i \in 1..(L - n) : a + i - 1 = n + i
    BY <1>1, <2>3, <2>4
  <2> QED
    BY <2>5, <2>6, <2>7, <2>8
<1>3. L - n \in Nat /\ n \in Nat
  BY <1>1
<1>4. ReplayedSteps(d, t) /\ ReplayedSteps(d2, t2)
  BY <1>2, ReplayedIs
<1> DEFINE P == {m \in Nat : m <= L - n => ReplayedOf(d2, t2, m) = ReplayedOf(d, t, n + m)}
<1>5. 0 \in P
  BY <1>3, <1>4 DEF ReplayedSteps
<1>6. ASSUME NEW m \in Nat, m \in P PROVE m + 1 \in P
  <2> SUFFICES ASSUME m + 1 <= L - n
               PROVE  ReplayedOf(d2, t2, m + 1) = ReplayedOf(d, t, n + (m + 1))
    OBVIOUS
  <2>1. ReplayedOf(d2, t2, m) = ReplayedOf(d, t, n + m)
    BY <1>3, <1>6
  <2>2. ReplayedOf(d2, t2, m + 1) = Apply(ReplayedOf(d2, t2, m), t2[m + 1].record)
    BY <1>2, <1>4 DEF ReplayedSteps
  <2>3. n + m \in Nat /\ (n + m) + 1 <= Len(t) /\ n + (m + 1) = (n + m) + 1 /\ m + 1 \in 1..(L - n)
    BY <1>1, <1>3
  <2>4. ReplayedOf(d, t, (n + m) + 1) = Apply(ReplayedOf(d, t, n + m), t[(n + m) + 1].record)
    BY <1>4, <2>3 DEF ReplayedSteps
  <2>5. t2[m + 1] = t[(n + m) + 1]
    BY <1>2, <2>3
  <2> QED
    BY <2>1, <2>2, <2>3, <2>4, <2>5
<1>7. Nat \subseteq P
  <2> HIDE DEF P
  <2> QED
    BY <1>5, <1>6, Induction
<1>8. \A m \in Nat : m <= L - n => ReplayedOf(d2, t2, m) = ReplayedOf(d, t, n + m)
  BY <1>7
<1>9. ASSUME NEW m \in Nat, m <= L - n PROVE Whole(ReplayedOf(d2, t2, m))
  <2>1. n + m \in Nat /\ n + m <= Len(t)
    BY <1>1, <1>3, <1>9
  <2> QED
    BY <1>8, <1>9, <2>1 DEF LogInv
<1>10. Recovers(ReplayedOf(d2, t2, Len(t2)), s)
  <2>1. n + (L - n) = Len(t) /\ L - n <= L - n
    BY <1>1, <1>3
  <2> QED
    BY <1>2, <1>3, <1>8, <2>1 DEF LogInv
<1> QED
  BY <1>2, <1>9, <1>10 DEF LogInv

\* Nothing in the tail.
LEMMA LogEmpty ==
  ASSUME NEW s, NEW d, Whole(d), Recovers(d, s)
  PROVE  LogInv(s, d, <<>>)
<1>1. IsSeq(<<>>) /\ Len(<<>>) = 0
  BY NoTail
<1>2. ReplayedOf(d, <<>>, 0) = d
  BY <1>1, ReplayedIs DEF ReplayedSteps
<1> QED
  BY <1>1, <1>2 DEF LogInv

-----------------------------------------------------------------------------
(* The invariant.                                                          *)

\* No call works where another has its locks.
Apart(cl) == \A c, e \in Call : c # e => ~Conflict(cl[c], cl[e])

\* The calls that know a chunk of a file, or are about to have its lease.
Holds(k) == k.pc \in {"replaced", "grant", "round"}

\* A pending chunk has the version it was created with, and no lease.
PendingInv(s, cl, sv) ==
  /\ \A h \in DOMAIN s.chunks : s.chunks[h].pending => s.chunks[h].version = 1 /\ sv[h] <= 1
  /\ \A c \in Call : Holds(cl[c]) /\ cl[c].handle \in DOMAIN s.chunks =>
       ~s.chunks[cl[c].handle].pending

Tree(s, d, t, cl, sv) ==
  /\ Apart(cl) /\ Shape(s.files) /\ \A c \in Call : CheckOK(cl[c], s.files)
  /\ LogInv(s, d, t) /\ Counted(s) /\ PendingInv(s, cl, sv)

TreeInv == MetaInv /\ Tree(st, disk, tail, call, served)

\* A call that is given the locks of k.
CanTake(cl, k) == \A e \in Call : ~Conflict(k, cl[e]) /\ ~Conflict(cl[e], k)

\* Call k locks no more than call l.
Within(k, l) == WriteLocks(k) \subseteq WriteLocks(l) /\ Locks(k) \subseteq Locks(l)

\* Locks depend on what a call works on, not on how far it is.
LEMMA SameWithin ==
  ASSUME NEW k, NEW l, k.op = l.op, k.path = l.path, k.target = l.target
  PROVE  Within(k, l)
BY DEF Within, WriteLocks, Locks

\* A call in progress goes on, a call begins, or it ends.
LEMMA ApartChange ==
  ASSUME NEW cl, Apart(cl), cl = [c \in Call |-> cl[c]], NEW c \in Call, NEW k,
         Within(k, cl[c]) \/ CanTake(cl, k), NEW cl2, cl2 = [cl EXCEPT ![c] = k]
  PROVE  Apart(cl2)
<1>1. cl2[c] = k /\ \A e \in Call : e # c => cl2[e] = cl[e]
  OBVIOUS
<1>2. ASSUME NEW e \in Call, e # c PROVE ~Conflict(k, cl[e]) /\ ~Conflict(cl[e], k)
  <2>1. CASE CanTake(cl, k)
    BY <2>1 DEF CanTake
  <2>2. CASE Within(k, cl[c])
    <3>1. ~Conflict(cl[c], cl[e]) /\ ~Conflict(cl[e], cl[c])
      BY <1>2 DEF Apart
    <3> QED
      BY <2>2, <3>1 DEF Within, Conflict
  <2> QED
    BY <2>1, <2>2
<1> QED
  BY <1>1, <1>2 DEF Apart

\* What a call has locked to write is clear of what others have locked.
LEMMA ClearOf ==
  ASSUME NEW k, NEW l, ~Conflict(k, l), ~Conflict(l, k), NEW W, W \subseteq WriteLocks(k),
         \A w \in W : IsSeq(w)
  PROVE  Clear(l, W)
<1>1. WriteLocks(k) \subseteq Locks(k)
  BY DEF Locks
<1> QED
  BY <1>1 DEF Clear, Conflict, IsAncestorOrSelf

\* A step of one call that leaves state and log alone.
LEMMA TreeCall ==
  ASSUME NEW s, NEW d, NEW t, NEW cl, NEW sv, World(s, d, t, cl, sv), Tree(s, d, t, cl, sv),
         NEW c \in Call, NEW k, CheckOK(k, s.files), Within(k, cl[c]) \/ CanTake(cl, k),
         Holds(k) /\ k.handle \in DOMAIN s.chunks => ~s.chunks[k.handle].pending,
         NEW cl2, cl2 = [cl EXCEPT ![c] = k]
  PROVE  Tree(s, d, t, cl2, sv)
<1>1. cl = [e \in Call |-> cl[e]]
  BY DEF World, CallInv
<1>2. cl2[c] = k /\ \A e \in Call : e # c => cl2[e] = cl[e]
  BY <1>1
<1>3. Apart(cl2)
  BY <1>1, ApartChange DEF Tree
<1>4. \A e \in Call : CheckOK(cl2[e], s.files)
  BY <1>2 DEF Tree
<1>5. PendingInv(s, cl2, sv)
  BY <1>2 DEF Tree, PendingInv
<1> QED
  BY <1>3, <1>4, <1>5 DEF Tree

\* What a record that memory applied, and the log has, does not break.
LEMMA LogCore ==
  ASSUME NEW s, NEW d, NEW t, NEW cl, NEW sv, World(s, d, t, cl, sv), Tree(s, d, t, cl, sv),
         NEW s2, NEW r, NEW o, Effect(s, s2, Apply(ReplayedOf(d, t, Len(t)), r)),
         Shape(s2.files), UsedInv(s2), NEW t2, t2 = Append(t, [record |-> r, owner |-> o])
  PROVE  LogInv(s2, d, t2) /\ Counted(s2) /\ PendingInv(s2, cl, sv)
<1>1. IsSeq(t) /\ LogInv(s, d, t)
  BY DEF World, DiskInv, Tree
<1>2. PICK e : e = [record |-> r, owner |-> o]
  OBVIOUS
<1>3. e.record = r
  BY <1>2
<1>4. Recovers(Apply(ReplayedOf(d, t, Len(t)), e.record), s2) /\ Counted(s2) /\ PendingKept(s, s2)
  BY <1>3 DEF Effect
<1>5. LogInv(s2, d, t2)
  <2>1. t2 = Append(t, e)
    BY <1>2
  <2>2. Shape(s2.files) /\ UsedInv(s2)
    OBVIOUS
  <2> QED
    BY <1>1, <1>4, <2>1, <2>2, LogMore, Zenon
<1>6. PendingInv(s2, cl, sv)
  BY <1>4 DEF Tree, PendingInv, PendingKept
<1> QED
  BY <1>4, <1>5, <1>6

\* A call changes the state, logs the record, and goes on as k.
LEMMA TreeLog ==
  ASSUME NEW s, NEW d, NEW t, NEW cl, NEW sv, World(s, d, t, cl, sv), Tree(s, d, t, cl, sv),
         NEW s2, NEW r, NEW o, Effect(s, s2, Apply(ReplayedOf(d, t, Len(t)), r)),
         Shape(s2.files), UsedInv(s2), NEW t2, t2 = Append(t, [record |-> r, owner |-> o]),
         NEW c \in Call, NEW k, CheckOK(k, s2.files), Within(k, cl[c]) \/ CanTake(cl, k),
         \A e \in Call : e # c => CheckOK(cl[e], s2.files),
         Holds(k) /\ k.handle \in DOMAIN s2.chunks => ~s2.chunks[k.handle].pending,
         NEW cl2, cl2 = [cl EXCEPT ![c] = k]
  PROVE  Tree(s2, d, t2, cl2, sv)
<1>1. cl = [e \in Call |-> cl[e]]
  BY DEF World, CallInv
<1>2. cl2[c] = k /\ \A e \in Call : e # c => cl2[e] = cl[e]
  BY <1>1
<1>3. Apart(cl2)
  BY <1>1, ApartChange DEF Tree
<1>4. \A e \in Call : CheckOK(cl2[e], s2.files)
  BY <1>2
<1>5. LogInv(s2, d, t2) /\ Counted(s2) /\ PendingInv(s2, cl, sv)
  BY LogCore
<1>6. PendingInv(s2, cl2, sv)
  BY <1>2, <1>5 DEF PendingInv
<1> QED
  BY <1>3, <1>4, <1>5, <1>6 DEF Tree

\* The same for what is not a call: the collector and the heartbeats.
LEMMA TreeOther ==
  ASSUME NEW s, NEW d, NEW t, NEW cl, NEW sv, World(s, d, t, cl, sv), Tree(s, d, t, cl, sv),
         NEW s2, NEW r, NEW o, Effect(s, s2, Apply(ReplayedOf(d, t, Len(t)), r)),
         Shape(s2.files), UsedInv(s2), NEW t2, t2 = Append(t, [record |-> r, owner |-> o]),
         \A e \in Call : CheckOK(cl[e], s2.files)
  PROVE  Tree(s2, d, t2, cl, sv)
<1>1. LogInv(s2, d, t2) /\ Counted(s2) /\ PendingInv(s2, cl, sv)
  BY LogCore
<1> QED
  BY <1>1 DEF Tree

\* Calls that have nothing locked in the way of a change keep what they know.
LEMMA OtherKept ==
  ASSUME PlainTargets, NEW s, NEW d, NEW t, NEW cl, NEW sv, World(s, d, t, cl, sv),
         Tree(s, d, t, cl, sv), NEW gs, IsFiles(gs), NEW W, NEW X, NEW new,
         Changed(s.files, gs, W, X, new),
         \A h \in new : h \in DOMAIN s.chunks /\ s.chunks[h].pending,
         NEW e \in Call, Clear(cl[e], W)
  PROVE  CheckOK(cl[e], gs)
<1>1. /\ IsFiles(s.files) /\ Shape(s.files) /\ CallType(cl[e]) /\ CheckOK(cl[e], s.files)
      /\ UsedInv(s) /\ PendingInv(s, cl, sv)
  BY DEF World, DiskInv, Sane, CallInv, CallOK, Tree
<1>2. \A h \in Used(s.files) : h \notin new
  BY <1>1 DEF UsedInv
<1>3. cl[e].pc \in {"replaced", "grant", "round"} => cl[e].handle \notin new
  BY <1>1 DEF PendingInv, Holds
<1> QED
  BY <1>1, <1>2, <1>3, CheckKept

\* What the step of a call reads in the invariant.
LEMMA TreeFact ==
  ASSUME TreeInv, NEW u, u = ReplayedOf(disk, tail, Len(tail))
  PROVE  /\ World(st, disk, tail, call, served) /\ Tree(st, disk, tail, call, served)
         /\ Sane(st) /\ Sane(disk) /\ Sane(u) /\ Recovers(u, st) /\ Counted(st) /\ UsedInv(st)
         /\ IsFiles(st.files) /\ Shape(st.files) /\ IsSeq(tail) /\ PendingInv(st, call, served)
         /\ call = [c \in Call |-> call[c]]
         /\ \A c \in Call : CallType(call[c]) /\ CheckOK(call[c], st.files)
<1>1. World(st, disk, tail, call, served) /\ Tree(st, disk, tail, call, served)
  BY DEF TreeInv, MetaInv
<1>2. DiskInv(st, disk, tail) /\ CallInv(call, st, disk, tail) /\ UsedInv(st)
  BY <1>1 DEF World
<1>3. Sane(st) /\ Sane(disk) /\ IsSeq(tail)
  BY <1>2 DEF DiskInv
<1>4. Sane(u)
  BY <1>2, <1>3, SeqFact, ReplayedSane
<1>5. /\ Recovers(u, st) /\ Counted(st) /\ Shape(st.files) /\ PendingInv(st, call, served)
      /\ \A c \in Call : CheckOK(call[c], st.files)
  BY <1>1 DEF Tree, LogInv
<1>6. call = [c \in Call |-> call[c]] /\ \A c \in Call : CallType(call[c])
  BY <1>2 DEF CallInv, CallOK
<1> QED
  BY <1>1, <1>2, <1>3, <1>4, <1>5, <1>6 DEF Sane

-----------------------------------------------------------------------------
(* Steps that change neither state nor log.                                *)

\* A call that is done, or only waits for its record, knows nothing.
LEMMA DoneOK ==
  ASSUME NEW k, k.pc \in {"idle", "flush"}, NEW fs
  PROVE  CheckOK(k, fs) /\ ~Holds(k)
BY DEF CheckOK, TwoPathsOK, AddOK, LeaseOK, CowOK, CopyOK, Holds

\* Who is idle locks nothing.
LEMMA IdleOK ==
  /\ Idle.pc = "idle" /\ \A l : Within(Idle, l)
  /\ \A fs : CheckOK(Idle, fs) /\ ~Holds(Idle)
<1>1. Idle.pc = "idle" /\ Idle.op = "none"
  BY DEF Idle
<1>2. \A l : Within(Idle, l)
  BY <1>1, LocksOf DEF Within
<1> QED
  BY <1>1, <1>2, DoneOK

\* What holds of memory after a step.
LEMMA AfterFact ==
  ASSUME MetaInv'
  PROVE  UsedInv(st') /\ IsFiles(st'.files)
BY DEF MetaInv, World, DiskInv, Sane

\* A call goes on, as k, and changes nothing else.
LEMMA CallTree ==
  ASSUME TreeInv, MetaInv', NEW c \in Call, NEW k, CheckOK(k, st.files),
         Within(k, call[c]) \/ CanTake(call, k),
         Holds(k) /\ k.handle \in DOMAIN st.chunks => ~st.chunks[k.handle].pending,
         call' = [call EXCEPT ![c] = k], UNCHANGED <<st, disk, tail, served>>
  PROVE  TreeInv'
<1>1. World(st, disk, tail, call, served) /\ Tree(st, disk, tail, call, served)
  BY DEF TreeInv, MetaInv
<1>2. Tree(st, disk, tail, call', served)
  BY <1>1, TreeCall
<1> QED
  BY <1>2 DEF TreeInv

\* A call returns.
LEMMA IdleTree ==
  ASSUME TreeInv, MetaInv', NEW c \in Call, call' = [call EXCEPT ![c] = Idle],
         UNCHANGED <<st, disk, tail, served>>
  PROVE  TreeInv'
BY IdleOK, CallTree

\* Return.
LEMMA ReturnTree ==
  ASSUME TreeInv, NEW c \in Call, Return(c)
  PROVE  TreeInv'
<1>1. MetaInv'
  BY ReturnStep DEF TreeInv
<1> QED
  BY <1>1, IdleTree DEF Return

\* A lease that is not granted.
LEMMA GrantNothingTree ==
  ASSUME TreeInv, NEW c \in Call, GrantNothing(c)
  PROVE  TreeInv'
<1>1. MetaInv'
  BY GrantNothingStep DEF TreeInv
<1> QED
  BY <1>1, IdleTree DEF GrantNothing

\* Rename and Snapshot make their checks.
LEMMA CheckTwoPathsTree ==
  ASSUME TreeInv, NEW c \in Call, NEW op \in {"rename", "snapshot"}, NEW path \in Source,
         NEW target \in Target, CheckTwoPaths(c, op, path, target)
  PROVE  TreeInv'
<1>1. MetaInv'
  BY CheckTwoPathsStep DEF TreeInv
<1> DEFINE k == [Idle EXCEPT !.pc = op, !.op = op, !.path = path, !.target = target]
<1>2. /\ call' = [call EXCEPT ![c] = k] /\ CanLock(k) /\ ~IsAncestorOrSelf(path, target)
      /\ Exists(st.files, path) \/ IsDirectory(st.files, path)
      /\ Free(target) /\ UNCHANGED <<st, disk, tail, served>>
  BY Zenon DEF CheckTwoPaths
<1>3. k = [pc |-> op, op |-> op, path |-> path, target |-> target,
           index |-> 0, handle |-> 0, version |-> 0]
  <2>1. k = TwoPaths(op, op, path, target)
    BY DEF TwoPaths
  <2> HIDE DEF k
  <2> QED
    BY <2>1, BeginTwo, Zenon
<1> HIDE DEF k
<1>4. CanTake(call, k)
  BY <1>2 DEF CanLock, CanTake
<1>5. CheckOK(k, st.files) /\ ~Holds(k)
  <2>1. /\ k.pc = op /\ k.op = op /\ k.path = path /\ k.target = target
    BY <1>3
  <2>2. TwoPathsOK(k, st.files)
    BY <1>2, <2>1 DEF TwoPathsOK, Present, FreeIn, Free, IsAncestorOrSelf
  <2> QED
    BY <2>1, <2>2 DEF CheckOK, AddOK, LeaseOK, CowOK, CopyOK, Holds
<1> QED
  BY <1>1, <1>2, <1>4, <1>5, CallTree

\* AddChunk looks at the end of the file.
LEMMA AddChunkTree ==
  ASSUME TreeInv, NEW c \in Call, NEW path \in Source, AddChunk(c, path)
  PROVE  TreeInv'
<1>1. MetaInv'
  BY AddChunkStep DEF TreeInv
<1> DEFINE k == [Idle EXCEPT !.pc = "alloc", !.op = "add", !.path = path,
                             !.index = Len(st.files[path])]
<1>2. /\ call' = [call EXCEPT ![c] = k] /\ CanLock(k) /\ Exists(st.files, path)
      /\ UNCHANGED <<st, disk, tail, served>>
  BY Zenon DEF AddChunk
<1>3. k = [pc |-> "alloc", op |-> "add", path |-> path, target |-> <<>>,
           index |-> Len(st.files[path]), handle |-> 0, version |-> 0]
  <2>1. k = AtEnd("alloc", "add", path, Len(st.files[path]))
    BY DEF AtEnd
  <2> HIDE DEF k
  <2> QED
    BY <2>1, BeginAdd, Zenon
<1> HIDE DEF k
<1>4. CanTake(call, k)
  BY <1>2 DEF CanLock, CanTake
<1>5. CheckOK(k, st.files) /\ ~Holds(k)
  BY <1>2, <1>3 DEF CheckOK, TwoPathsOK, AddOK, LeaseOK, CowOK, CopyOK, Holds, Exists
<1> QED
  BY <1>1, <1>2, <1>4, <1>5, CallTree

\* A chunk that is referred to once is in the file that was looked at.
LEMMA OnlyFromCount ==
  ASSUME NEW fs, IsFiles(fs), NEW path \in DOMAIN fs, NEW index \in Nat,
         index + 1 \in DOMAIN fs[path], NEW h, h = fs[path][index + 1],
         References(fs, DOMAIN fs, h) <= 1
  PROVE  OnlyAt(fs, h, path, index)
<1> DEFINE R == Referring(fs, DOMAIN fs, h)
<1>1. <<path, index + 1>> \in R
  BY ReferringIs
<1>2. IsFiniteSet(R) /\ Cardinality(R) \in Nat /\ Cardinality(R) <= 1
  BY ReferencesFinite, FS_CardinalityType
<1>3. ASSUME NEW p \in DOMAIN fs, NEW i \in DOMAIN fs[p], fs[p][i] = h
      PROVE  <<p, i>> \in R
  BY <1>3, ReferringIs
<1> HIDE DEF R
<1>4. Cardinality(R) = 1
  <2>1. Cardinality(R) # 0
    BY <1>1, <1>2, FS_EmptySet
  <2> QED
    BY <1>2, <2>1
<1>5. PICK x : R = {x}
  BY <1>2, <1>4, FS_Singleton
<1> QED
  BY <1>1, <1>3, <1>5 DEF OnlyAt

\* The chunk that a call finds.
LEMMA CurrentIs ==
  ASSUME IsFiles(st.files), IsChunks(st.chunks), NEW k, k.index \in Nat,
         NEW h, h = Current(k), h \in DOMAIN st.chunks
  PROVE  /\ k.path \in DOMAIN st.files /\ k.index + 1 \in DOMAIN st.files[k.path]
         /\ h = st.files[k.path][k.index + 1]
<1>1. h # 0
  BY HandleNat DEF IsChunks
<1>2. k.path \in DOMAIN st.files /\ k.index < Len(st.files[k.path]) /\ h = st.files[k.path][k.index + 1]
  BY <1>1 DEF Current, Exists
<1>3. st.files[k.path] \in Seq(Handle)
  BY <1>2 DEF IsFiles
<1>4. Len(st.files[k.path]) \in Nat /\ DOMAIN st.files[k.path] = 1..Len(st.files[k.path])
  BY <1>3, LenProperties
<1> QED
  BY <1>2, <1>4

\* FindLeaseHolder looks at the chunk, and at its references.
LEMMA FindLeaseHolderTree ==
  ASSUME TreeInv, NEW c \in Call, NEW path \in Source, NEW index \in 0..(MaxChunks - 1),
         FindLeaseHolder(c, path, index)
  PROVE  TreeInv'
<1>1. MetaInv'
  BY FindLeaseHolderStep DEF TreeInv
<1> DEFINE k == [Idle EXCEPT !.op = "lease", !.path = path, !.index = index]
<1>2. /\ call' = [call EXCEPT ![c] = Attempt(k)] /\ CanLock(k) /\ Attempt(k) # Idle
      /\ UNCHANGED <<st, disk, tail, served>>
  BY Zenon DEF FindLeaseHolder
<1>3. k = [pc |-> "idle", op |-> "lease", path |-> path, target |-> <<>>,
           index |-> index, handle |-> 0, version |-> 0]
  <2>1. k = LeaseOn("lease", path, index)
    BY DEF LeaseOn
  <2> HIDE DEF k
  <2> QED
    BY <2>1, BeginLease, Zenon
<1> HIDE DEF k
<1>4. PICK h : h = Current(k)
  OBVIOUS
<1>5. PICK l : l = Attempt(k)
  OBVIOUS
<1>6. h \in DOMAIN st.chunks
  BY <1>2, <1>4 DEF Attempt
<1>7. l = [pc |-> IF st.chunks[h].refcount > 1 THEN "cow" ELSE "grant",
           op |-> "lease", path |-> path, target |-> <<>>,
           index |-> index, handle |-> h, version |-> 0]
  BY <1>3, <1>4, <1>5, <1>6 DEF Attempt
<1>8. /\ IsFiles(st.files) /\ IsChunks(st.chunks) /\ Counted(st)
  BY TreeFact DEF Sane
<1>9. index \in Nat /\ k.index = index /\ k.path = path
  BY <1>3
<1>10. /\ path \in DOMAIN st.files /\ index + 1 \in DOMAIN st.files[path]
       /\ h = st.files[path][index + 1]
  BY <1>4, <1>6, <1>8, <1>9, CurrentIs
<1>11. ~st.chunks[h].pending
  BY <1>4, <1>6, <1>9, CurrentFact DEF TreeInv
<1>12. CanTake(call, l)
  <2>1. WriteLocks(l) = WriteLocks(k) /\ Locks(l) = Locks(k)
    BY <1>3, <1>7 DEF WriteLocks, Locks
  <2>2. CanTake(call, k)
    BY <1>2 DEF CanLock, CanTake
  <2> QED
    BY <2>1, <2>2 DEF CanTake, Conflict
<1>13. CheckOK(l, st.files)
  <2>1. CASE st.chunks[h].refcount > 1
    BY <1>7, <1>10, <2>1 DEF CheckOK, TwoPathsOK, AddOK, LeaseOK, CowOK, CopyOK
  <2>2. CASE ~(st.chunks[h].refcount > 1)
    <3>1. OnlyAt(st.files, h, path, index)
      <4>1. References(st.files, DOMAIN st.files, h) \in Nat
        BY <1>8, ReferencesNat
      <4>2. References(st.files, DOMAIN st.files, h) <= 1
        BY <1>6, <1>8, <2>2, <4>1 DEF Counted
      <4> QED
        BY <1>8, <1>9, <1>10, <4>2, OnlyFromCount
    <3> QED
      BY <1>7, <2>2, <3>1 DEF CheckOK, TwoPathsOK, AddOK, LeaseOK, CowOK, CopyOK
  <2> QED
    BY <2>1, <2>2
<1>14. call' = [call EXCEPT ![c] = l] /\ l.handle = h
  BY <1>2, <1>5, <1>7
<1> QED
  BY <1>1, <1>2, <1>11, <1>12, <1>13, <1>14, CallTree

\* CopyOnWrite looks again, with cow_mutex_ held.
LEMMA CopyOnWriteTree ==
  ASSUME TreeInv, NEW c \in Call, CopyOnWrite(c)
  PROVE  TreeInv'
<1>1. MetaInv'
  BY CopyOnWriteStep DEF TreeInv
<1>2. PICK k : k = call[c]
  OBVIOUS
<1>3. PICK h : h = Current(k)
  OBVIOUS
<1>4. /\ k.pc = "cow" /\ UNCHANGED <<st, disk, tail, served>>
      /\ \/ /\ h = k.handle /\ h \in DOMAIN st.chunks /\ st.chunks[h].refcount > 1
            /\ call' = [call EXCEPT ![c].pc = "alloc"]
         \/ /\ ~(h = k.handle /\ h \in DOMAIN st.chunks /\ st.chunks[h].refcount > 1)
            /\ call' = [call EXCEPT ![c] = IF h \in DOMAIN st.chunks
                                           THEN [k EXCEPT !.pc = "grant", !.handle = h] ELSE Idle]
  BY <1>2, <1>3 DEF CopyOnWrite
<1>5. /\ IsFiles(st.files) /\ IsChunks(st.chunks) /\ Counted(st) /\ CallType(k)
      /\ CheckOK(k, st.files) /\ call = [e \in Call |-> call[e]]
  BY <1>2, TreeFact DEF Sane
<1>6. /\ k.op = "lease" /\ k.path \in DOMAIN st.files /\ k.index + 1 \in DOMAIN st.files[k.path]
      /\ \/ st.files[k.path][k.index + 1] = k.handle
         \/ OnlyAt(st.files, st.files[k.path][k.index + 1], k.path, k.index)
  BY <1>4, <1>5 DEF CheckOK, CowOK
<1>7. CASE /\ h = k.handle /\ h \in DOMAIN st.chunks /\ st.chunks[h].refcount > 1
           /\ call' = [call EXCEPT ![c].pc = "alloc"]
  <2>1. PICK l : l = [k EXCEPT !.pc = "alloc"]
    OBVIOUS
  <2>2. /\ l.pc = "alloc" /\ l.op = k.op /\ l.path = k.path /\ l.target = k.target
        /\ l.index = k.index
    BY <1>5, <2>1 DEF CallType
  <2>3. CheckOK(l, st.files) /\ ~Holds(l)
    BY <1>6, <2>2 DEF CheckOK, TwoPathsOK, AddOK, LeaseOK, CowOK, CopyOK, Holds
  <2>4. Within(l, call[c])
    BY <1>2, <2>2, SameWithin
  <2>5. call' = [call EXCEPT ![c] = l]
    BY <1>2, <1>7, <2>1
  <2> QED
    BY <1>1, <1>4, <2>3, <2>4, <2>5, CallTree
<1>8. CASE /\ ~(h = k.handle /\ h \in DOMAIN st.chunks /\ st.chunks[h].refcount > 1)
           /\ h \in DOMAIN st.chunks /\ call' = [call EXCEPT ![c] = [k EXCEPT !.pc = "grant", !.handle = h]]
  <2>1. PICK l : l = [k EXCEPT !.pc = "grant", !.handle = h]
    OBVIOUS
  <2>2. /\ l.pc = "grant" /\ l.op = k.op /\ l.path = k.path /\ l.target = k.target
        /\ l.index = k.index /\ l.handle = h /\ k.index \in Nat
    BY <1>5, <2>1 DEF CallType
  <2>3. h = st.files[k.path][k.index + 1] /\ ~st.chunks[h].pending
    BY <1>3, <1>5, <1>8, <2>2, CurrentIs, CurrentFact DEF TreeInv
  <2>4. OnlyAt(st.files, h, k.path, k.index)
    <3>1. CASE h # k.handle
      BY <1>6, <2>3, <3>1
    <3>2. CASE h = k.handle
      <4>1. References(st.files, DOMAIN st.files, h) \in Nat
        BY <1>5, ReferencesNat
      <4>2. References(st.files, DOMAIN st.files, h) <= 1
        BY <1>5, <1>8, <3>2, <4>1 DEF Counted
      <4> QED
        BY <1>5, <1>6, <2>2, <2>3, <4>2, OnlyFromCount
    <3> QED
      BY <3>1, <3>2
  <2>5. CheckOK(l, st.files)
    BY <1>6, <2>2, <2>4 DEF CheckOK, TwoPathsOK, AddOK, LeaseOK, CowOK, CopyOK
  <2>6. Within(l, call[c])
    BY <1>2, <2>2, SameWithin
  <2>7. call' = [call EXCEPT ![c] = l]
    BY <1>8, <2>1
  <2> QED
    BY <1>1, <1>4, <2>2, <2>3, <2>5, <2>6, <2>7, CallTree
<1>9. CASE call' = [call EXCEPT ![c] = Idle]
  BY <1>1, <1>4, <1>9, IdleTree
<1> QED
  BY <1>4, <1>7, <1>8, <1>9

\* CopyOnWrite returns.
LEMMA CopyOnWriteReturnTree ==
  ASSUME TreeInv, NEW c \in Call, CopyOnWriteReturn(c)
  PROVE  TreeInv'
<1>1. MetaInv'
  BY CopyOnWriteReturnStep DEF TreeInv
<1>2. /\ call[c].pc = "replaced" /\ call' = [call EXCEPT ![c].pc = "grant"]
      /\ UNCHANGED <<st, disk, tail, served>>
  BY DEF CopyOnWriteReturn
<1>3. PICK k : k = call[c]
  OBVIOUS
<1>4. PICK l : l = [k EXCEPT !.pc = "grant"]
  OBVIOUS
<1>5. CallType(k) /\ CheckOK(k, st.files) /\ PendingInv(st, call, served)
  BY <1>3, TreeFact
<1>6. /\ l.pc = "grant" /\ l.op = k.op /\ l.path = k.path /\ l.target = k.target
      /\ l.index = k.index /\ l.handle = k.handle
  BY <1>4, <1>5 DEF CallType
<1>7. CheckOK(l, st.files)
  BY <1>2, <1>3, <1>5, <1>6 DEF CheckOK, TwoPathsOK, AddOK, LeaseOK, CowOK, CopyOK
<1>8. Within(l, call[c])
  BY <1>3, <1>6, SameWithin
<1>9. l.handle \in DOMAIN st.chunks => ~st.chunks[l.handle].pending
  BY <1>2, <1>3, <1>5, <1>6 DEF PendingInv, Holds
<1>10. call' = [call EXCEPT ![c] = l]
  BY <1>2, <1>3, <1>4
<1> QED
  BY <1>1, <1>2, <1>7, <1>8, <1>9, <1>10, CallTree

\* A regrant takes a chunk that is in the table, and no locks.
LEMMA RegrantTree ==
  ASSUME TreeInv, NEW c \in Call, NEW h \in Handle, Regrant(c, h)
  PROVE  TreeInv'
<1>1. MetaInv'
  BY RegrantStep DEF TreeInv
<1>2. PICK v : v = st.chunks[h].version + 1
  OBVIOUS
<1>3. PICK k : k = [Idle EXCEPT !.pc = "round", !.op = "regrant", !.handle = h, !.version = v]
  OBVIOUS
<1>4. /\ h \in DOMAIN st.chunks /\ ~st.chunks[h].pending
      /\ call' = [call EXCEPT ![c] = k] /\ UNCHANGED <<st, disk, tail, served>>
  BY <1>2, <1>3, Zenon DEF Regrant
<1>5. k = [pc |-> "round", op |-> "regrant", path |-> <<>>, target |-> <<>>,
           index |-> 0, handle |-> h, version |-> v]
  <2>1. k = Round("round", "regrant", h, v)
    BY <1>3 DEF Round
  <2> QED
    BY <2>1, BeginRegrant, Zenon
<1>6. k.pc = "round" /\ k.op = "regrant" /\ k.handle = h
  BY <1>5
<1>7. CheckOK(k, st.files)
  BY <1>6 DEF CheckOK, TwoPathsOK, AddOK, LeaseOK, CowOK, CopyOK
<1>8. Within(k, call[c])
  BY <1>6, LocksOf DEF Within
<1> QED
  BY <1>1, <1>4, <1>6, <1>7, <1>8, CallTree

\* The lease of a call comes to its round.
LEMMA PrepareGrantTree ==
  ASSUME TreeInv, NEW c \in Call, PrepareGrant(c)
  PROVE  TreeInv'
<1>1. MetaInv'
  BY PrepareGrantStep DEF TreeInv
<1>2. PICK k : k = call[c]
  OBVIOUS
<1>3. PICK v : v = st.chunks[k.handle].version + 1
  OBVIOUS
<1>4. PICK l : l = [k EXCEPT !.pc = "round", !.version = v]
  OBVIOUS
<1>5. /\ k.pc = "grant" /\ call' = [call EXCEPT ![c] = l] /\ UNCHANGED <<st, disk, tail, served>>
  BY <1>2, <1>3, <1>4, Zenon DEF PrepareGrant
<1>6. CallType(k) /\ CheckOK(k, st.files) /\ PendingInv(st, call, served)
  BY <1>2, TreeFact
<1>7. /\ l.pc = "round" /\ l.op = k.op /\ l.path = k.path /\ l.target = k.target
      /\ l.index = k.index /\ l.handle = k.handle
  BY <1>4, <1>6 DEF CallType
<1>8. CheckOK(l, st.files)
  BY <1>5, <1>6, <1>7 DEF CheckOK, TwoPathsOK, AddOK, LeaseOK, CowOK, CopyOK
<1>9. Within(l, call[c])
  BY <1>2, <1>7, SameWithin
<1>10. l.handle \in DOMAIN st.chunks => ~st.chunks[l.handle].pending
  BY <1>2, <1>5, <1>6, <1>7 DEF PendingInv, Holds
<1> QED
  BY <1>1, <1>5, <1>8, <1>9, <1>10, CallTree

\* A chunkserver gets version v of chunk h.
LEMMA TreeServed ==
  ASSUME NEW s, NEW d, NEW t, NEW cl, NEW sv, FreshInv(s, d, sv), Sane(s), Tree(s, d, t, cl, sv),
         NEW h \in Handle, NEW v, h \in DOMAIN s.chunks /\ s.chunks[h].pending => v <= 1,
         NEW sv2, sv2 = [sv EXCEPT ![h] = v]
  PROVE  Tree(s, d, t, cl, sv2)
<1>1. sv2[h] = v /\ \A g \in Handle : g # h => sv2[g] = sv[g]
  BY DEF FreshInv
<1>2. PendingInv(s, cl, sv2)
  <2>1. DOMAIN s.chunks \subseteq Handle
    BY DEF Sane, IsChunks
  <2> QED
    BY <1>1, <2>1 DEF Tree, PendingInv
<1> QED
  BY <1>2 DEF Tree

\* A replica takes the version of a round: the chunk is not pending.
LEMMA ReplicaUpdatedTree ==
  ASSUME TreeInv, NEW c \in Call, ReplicaUpdated(c)
  PROVE  TreeInv'
<1>1. MetaInv'
  BY ReplicaUpdatedStep DEF TreeInv
<1>2. PICK k : k = call[c]
  OBVIOUS
<1>3. /\ k.pc = "round" /\ served' = [served EXCEPT ![k.handle] = k.version]
      /\ UNCHANGED <<st, disk, tail, call>>
  BY <1>2 DEF ReplicaUpdated
<1>4. /\ CallOK(c, k, st, disk, tail) /\ Sane(st) /\ FreshInv(st, disk, served)
      /\ Tree(st, disk, tail, call, served)
  BY <1>2, CallFact, TreeFact DEF TreeInv, World
<1>5. k.handle \in Handle
  BY <1>3, <1>4 DEF CallOK, Told
<1>6. k.handle \in DOMAIN st.chunks => ~st.chunks[k.handle].pending
  BY <1>2, <1>3, <1>4 DEF Tree, PendingInv, Holds
<1>7. Tree(st, disk, tail, call, served')
  BY <1>3, <1>4, <1>5, <1>6, TreeServed
<1> QED
  BY <1>1, <1>3, <1>7 DEF TreeInv

\* Chunkservers create the chunk of a call with version 1.
LEMMA CreateChunkOnTree ==
  ASSUME TreeInv, NEW c \in Call, CreateChunkOn(c)
  PROVE  TreeInv'
<1>1. MetaInv'
  BY CreateChunkOnStep DEF TreeInv
<1>2. PICK k : k = call[c]
  OBVIOUS
<1>3. PICK h : h = k.handle
  OBVIOUS
<1>4. /\ k.pc = "create" /\ UNCHANGED <<st, disk, tail>>
      /\ served' = served \/ served' = [served EXCEPT ![h] = 1]
      /\ \E pc \in {"created", "failed"} : call' = [call EXCEPT ![c] = [k EXCEPT !.pc = pc]]
  BY <1>2, <1>3 DEF CreateChunkOn
<1>5. PICK pc \in {"created", "failed"} : call' = [call EXCEPT ![c] = [k EXCEPT !.pc = pc]]
  BY <1>4
<1>6. PICK l : l = [k EXCEPT !.pc = pc]
  OBVIOUS
<1>7. /\ World(st, disk, tail, call, served) /\ Tree(st, disk, tail, call, served) /\ Sane(st)
      /\ CallType(k) /\ CheckOK(k, st.files) /\ FreshInv(st, disk, served)
      /\ CallOK(c, k, st, disk, tail)
  BY <1>2, TreeFact, CallFact DEF TreeInv, World
<1>8. /\ l.pc = pc /\ l.op = k.op /\ l.path = k.path /\ l.target = k.target
      /\ l.index = k.index
  BY <1>6, <1>7 DEF CallType
<1>9. CheckOK(l, st.files) /\ ~Holds(l)
  BY <1>4, <1>7, <1>8 DEF CheckOK, TwoPathsOK, AddOK, LeaseOK, CowOK, CopyOK, Holds
<1>10. Within(l, call[c])
  BY <1>2, <1>8, SameWithin
<1>11. call' = [call EXCEPT ![c] = l]
  BY <1>5, <1>6
<1>12. Tree(st, disk, tail, call', served)
  BY <1>7, <1>9, <1>10, <1>11, TreeCall
<1>13. h \in Handle
  <2>1. h \in DOMAIN st.chunks
    BY <1>3, <1>4, <1>7 DEF CallOK, Making
  <2> QED
    BY <1>7, <2>1 DEF Sane, IsChunks
<1>14. Tree(st, disk, tail, call', served')
  <2>1. CASE served' = served
    BY <1>12, <2>1
  <2>2. CASE served' = [served EXCEPT ![h] = 1]
    <3>1. PICK v : v = 1
      OBVIOUS
    <3>2. v <= 1 /\ served' = [served EXCEPT ![h] = v]
      BY <2>2, <3>1
    <3> QED
      BY <1>7, <1>12, <1>13, <3>2, TreeServed
  <2> QED
    BY <1>4, <2>1, <2>2
<1> QED
  BY <1>1, <1>4, <1>14 DEF TreeInv

\* The collector lists files, or returns.
LEMMA GcPassTree ==
  ASSUME TreeInv, NEW now, GcPass(now)
  PROVE  TreeInv'
<1>1. MetaInv'
  BY GcPassStep DEF TreeInv
<1> QED
  BY <1>1 DEF TreeInv, GcPass

\* The end of the pass.
LEMMA GcReturnTree ==
  ASSUME TreeInv, GcReturn
  PROVE  TreeInv'
<1>1. MetaInv'
  BY GcReturnStep DEF TreeInv
<1> QED
  BY <1>1 DEF TreeInv, GcReturn

-----------------------------------------------------------------------------
(* Steps that change files.                                                *)

\* Of two calls, the locks of one are not in the way of the other.
LEMMA WriterClear ==
  ASSUME NEW cl, Apart(cl), NEW c \in Call, NEW k, Within(k, cl[c]) \/ CanTake(cl, k),
         NEW W, W \subseteq WriteLocks(k), \A w \in W : IsSeq(w), NEW e \in Call, e # c
  PROVE  Clear(cl[e], W)
<1>1. ~Conflict(k, cl[e]) /\ ~Conflict(cl[e], k)
  <2>1. CASE CanTake(cl, k)
    BY <2>1 DEF CanTake
  <2>2. CASE Within(k, cl[c])
    <3>1. ~Conflict(cl[c], cl[e]) /\ ~Conflict(cl[e], cl[c])
      BY DEF Apart
    <3> QED
      BY <2>2, <3>1 DEF Within, Conflict
  <2> QED
    BY <2>1, <2>2
<1> QED
  BY <1>1, ClearOf

\* A call changes files below what it has locked, and goes on to wait for the
\* record.
LEMMA WriterTree ==
  ASSUME PlainTargets, TreeInv, MetaInv', NEW c \in Call, NEW k, k.pc = "flush",
         Within(k, call[c]) \/ CanTake(call, k),
         NEW W, W \subseteq WriteLocks(k), \A w \in W : IsSeq(w), NEW X, NEW new,
         Changed(st.files, st'.files, W, X, new), Shape(st'.files),
         \A h \in new : h \in DOMAIN st.chunks /\ st.chunks[h].pending,
         NEW r, Effect(st, st', Apply(ReplayedOf(disk, tail, Len(tail)), r)),
         tail' = Append(tail, [record |-> r, owner |-> c]), call' = [call EXCEPT ![c] = k],
         UNCHANGED <<disk, served>>
  PROVE  TreeInv'
<1>1. World(st, disk, tail, call, served) /\ Tree(st, disk, tail, call, served) /\ Apart(call)
  BY DEF TreeInv, MetaInv, Tree
<1>2. UsedInv(st') /\ IsFiles(st'.files)
  BY AfterFact
<1>3. CheckOK(k, st'.files) /\ ~Holds(k)
  BY DoneOK
<1>4. ASSUME NEW e \in Call, e # c PROVE CheckOK(call[e], st'.files)
  <2>1. Clear(call[e], W)
    BY <1>1, <1>4, WriterClear
  <2> QED
    BY <1>1, <1>2, <2>1, OtherKept
<1>5. PICK s2 : s2 = st'
  OBVIOUS
<1>6. PICK t2 : t2 = tail'
  OBVIOUS
<1>7. PICK cl2 : cl2 = call'
  OBVIOUS
<1>8. /\ Effect(st, s2, Apply(ReplayedOf(disk, tail, Len(tail)), r)) /\ Shape(s2.files)
      /\ UsedInv(s2) /\ CheckOK(k, s2.files) /\ \A e \in Call : e # c => CheckOK(call[e], s2.files)
  BY <1>2, <1>3, <1>4, <1>5
<1>9. t2 = Append(tail, [record |-> r, owner |-> c]) /\ cl2 = [call EXCEPT ![c] = k]
  BY <1>6, <1>7
<1>10. Tree(s2, disk, t2, cl2, served)
  BY <1>1, <1>3, <1>8, <1>9, TreeLog
<1> QED
  BY <1>5, <1>6, <1>7, <1>10 DEF TreeInv

\* A new call that takes one path to write.
LEMMA OneLock ==
  ASSUME NEW op \in {"create", "remove"}, NEW path, NEW k,
         k = [Idle EXCEPT !.pc = "flush", !.op = op, !.path = path]
  PROVE  k.pc = "flush" /\ k.op = op /\ WriteLocks(k) = {path} /\ Locks(k) = {path}
<1>1. k = [pc |-> "flush", op |-> op, path |-> path, target |-> <<>>,
           index |-> 0, handle |-> 0, version |-> 0]
  BY BeginOne
<1>2. k.pc = "flush" /\ k.op = op /\ k.path = path
  BY <1>1
<1> QED
  BY <1>2, LocksOf

\* Create.
LEMMA CreateTree ==
  ASSUME PlainTargets, TreeInv, NEW c \in Call, NEW path \in Target, Create(c, path)
  PROVE  TreeInv'
<1>1. MetaInv'
  BY CreateStep DEF TreeInv
<1>2. PICK k : k = [Idle EXCEPT !.pc = "flush", !.op = "create", !.path = path]
  OBVIOUS
<1>3. PICK r : r = [op |-> "create", path |-> path]
  OBVIOUS
<1>4. /\ CanLock(k) /\ Free(path) /\ st' = ApplyCreate(st, path)
      /\ tail' = Append(tail, [record |-> r, owner |-> c])
      /\ call' = [call EXCEPT ![c] = k] /\ UNCHANGED <<disk, served>>
  BY <1>2, <1>3, Zenon DEF Create, Log
<1>5. k.pc = "flush" /\ WriteLocks(k) = {path} /\ CanTake(call, k)
  <2>1. k.pc = "flush" /\ WriteLocks(k) = {path}
    BY <1>2, OneLock
  <2> QED
    BY <1>4, <2>1 DEF CanLock, CanTake
<1>6. PICK u : u = ReplayedOf(disk, tail, Len(tail))
  OBVIOUS
<1>7. PICK u2 : u2 = Apply(u, r)
  OBVIOUS
<1>8. u2 = ApplyCreate(u, path)
  <2>1. r.op = "create" /\ r.path = path
    BY <1>3
  <2> QED
    BY <1>7, <2>1 DEF Apply
<1>9. IsSeq(path) /\ Plain(path) /\ FreeIn(st.files, path)
  BY <1>4, PathSeq DEF PlainTargets, Free, FreeIn
<1>10. Sane(st) /\ Sane(u) /\ Recovers(u, st) /\ Counted(st) /\ Shape(st.files)
  BY <1>6, TreeFact
<1>11. Effect(st, st', u2) /\ Shape(st'.files) /\ Changed(st.files, st'.files, {path}, {}, {})
  BY <1>4, <1>8, <1>9, <1>10, CreateEffect
<1>12. Effect(st, st', Apply(ReplayedOf(disk, tail, Len(tail)), r))
  BY <1>6, <1>7, <1>11
<1> DEFINE W == {path}
           new == {}
<1>13. /\ W \subseteq WriteLocks(k) /\ \A w \in W : IsSeq(w)
       /\ \A h \in new : h \in DOMAIN st.chunks /\ st.chunks[h].pending
       /\ Changed(st.files, st'.files, W, {}, new)
  BY <1>5, <1>9, <1>11
<1> HIDE DEF W, new
<1> QED
  BY <1>1, <1>4, <1>5, <1>11, <1>12, <1>13, WriterTree

\* Remove, of a hidden file or of another, which is hidden then.
LEMMA RemoveFileTree ==
  ASSUME PlainTargets, TreeInv, NEW c \in Call, NEW path \in Source, RemoveFile(c, path)
  PROVE  TreeInv'
<1>1. MetaInv'
  BY RemoveFileStep DEF TreeInv
<1>2. PICK k : k = [Idle EXCEPT !.pc = "flush", !.op = "remove", !.path = path]
  OBVIOUS
<1> DEFINE remove == [op |-> "remove", path |-> path]
           rename(hidden) == [op |-> "rename", path |-> path, target |-> hidden]
<1>3. /\ CanLock(k) /\ Exists(st.files, path)
      /\ \/ /\ st' = ApplyRemove(st, path)
            /\ tail' = Append(tail, [record |-> remove, owner |-> c])
         \/ \E hidden \in {HiddenNameFor(path, s) : s \in Stamp} :
              /\ HiddenName(path, hidden)
              /\ st' = ApplyRename(st, path, hidden)
              /\ tail' = Append(tail, [record |-> rename(hidden), owner |-> c])
      /\ call' = [call EXCEPT ![c] = k] /\ UNCHANGED <<disk, served>>
  BY <1>2, Zenon DEF RemoveFile, Log
<1>4. k.pc = "flush" /\ WriteLocks(k) = {path} /\ CanTake(call, k)
  <2>1. k.pc = "flush" /\ WriteLocks(k) = {path}
    BY <1>2, OneLock
  <2> QED
    BY <1>3, <2>1 DEF CanLock, CanTake
<1>5. PICK u : u = ReplayedOf(disk, tail, Len(tail))
  OBVIOUS
<1>6. /\ Sane(st) /\ Sane(u) /\ Recovers(u, st) /\ Counted(st) /\ Shape(st.files)
      /\ IsFiles(st.files)
  BY <1>5, TreeFact
<1>7. path \in DOMAIN st.files /\ IsSeq(path)
  BY <1>3, PathSeq DEF Exists
<1>8. \E r, X : /\ Effect(st, st', Apply(u, r)) /\ Shape(st'.files)
                /\ Changed(st.files, st'.files, {path}, X, {})
                /\ tail' = Append(tail, [record |-> r, owner |-> c])
  <2>1. CASE /\ st' = ApplyRemove(st, path)
             /\ tail' = Append(tail, [record |-> remove, owner |-> c])
    <3>1. PICK r : r = remove
      OBVIOUS
    <3>2. r.op = "remove" /\ r.path = path
      BY <3>1
    <3>3. PICK u2 : u2 = Apply(u, r)
      OBVIOUS
    <3>4. u2 = ApplyRemove(u, path)
      BY <3>2, <3>3 DEF Apply
    <3>5. Effect(st, st', u2) /\ Shape(st'.files) /\ Changed(st.files, st'.files, {path}, {}, {})
      BY <1>6, <1>7, <2>1, <3>4, RemoveEffect
    <3> HIDE DEF remove
    <3> QED
      BY <2>1, <3>1, <3>3, <3>5
  <2>2. ASSUME NEW hidden \in {HiddenNameFor(path, s) : s \in Stamp}, HiddenName(path, hidden),
               st' = ApplyRename(st, path, hidden),
               tail' = Append(tail, [record |-> rename(hidden), owner |-> c])
        PROVE  \E r, X : /\ Effect(st, st', Apply(u, r)) /\ Shape(st'.files)
                         /\ Changed(st.files, st'.files, {path}, X, {})
                         /\ tail' = Append(tail, [record |-> r, owner |-> c])
    <3>1. PICK r : r = rename(hidden)
      OBVIOUS
    <3>2. r.op = "rename" /\ r.path = path /\ r.target = hidden
      BY <3>1
    <3>3. PICK u2 : u2 = Apply(u, r)
      OBVIOUS
    <3>4. u2 = ApplyRename(u, path, hidden)
      BY <3>2, <3>3 DEF Apply
    <3>5. IsSeq(hidden) /\ Beside(st.files, hidden)
      <4>1. PICK s \in Stamp : hidden = HiddenNameFor(path, s)
        BY <2>2
      <4>2. hidden \notin DOMAIN st.files
        BY <2>2 DEF HiddenName, Exists
      <4> QED
        BY <1>6, <1>7, <4>1, <4>2, HiddenSeq, HiddenBeside
    <3>6. PICK sub : sub = {p \in DOMAIN st.files : IsPrefix(path, p)}
      OBVIOUS
    <3>7. PICK moved : moved = {Moved(p, path, hidden) : p \in sub}
      OBVIOUS
    <3>8. Present(st.files, path)
      BY <1>3 DEF Present
    <3>9. PICK gs : gs = RenameSubtree(st.files, path, hidden)
      OBVIOUS
    <3>10. Renamed(st.files, gs, sub, moved, path, hidden)
      BY <1>6, <1>7, <3>5, <3>6, <3>7, <3>9, RenameIs
    <3>11. Images(moved, sub, path, hidden)
      BY <3>7 DEF Images
    <3>12. /\ Shape(gs) /\ Changed(st.files, gs, {path}, {hidden}, {})
           /\ moved \cap DOMAIN st.files = {}
      BY <1>6, <1>7, <3>5, <3>6, <3>10, <3>11, HideFiles
    <3>13. st'.files = gs
      <4>1. st' = [st EXCEPT !.files = gs]
        BY <1>3, <2>2, <3>9 DEF ApplyRename
      <4> QED
        BY <1>6, <4>1 DEF Sane
    <3>14. Effect(st, st', u2)
      BY <1>6, <1>7, <2>2, <3>4, <3>5, <3>6, <3>7, <3>8, <3>12, RenameEffect
    <3> HIDE DEF rename
    <3> QED
      BY <2>2, <3>1, <3>3, <3>12, <3>13, <3>14
  <2> HIDE DEF remove, rename
  <2> QED
    BY <1>3, <2>1, <2>2
<1> HIDE DEF remove, rename
<1>9. PICK r, X : /\ Effect(st, st', Apply(u, r)) /\ Shape(st'.files)
                  /\ Changed(st.files, st'.files, {path}, X, {})
                  /\ tail' = Append(tail, [record |-> r, owner |-> c])
  BY <1>8
<1>10. Effect(st, st', Apply(ReplayedOf(disk, tail, Len(tail)), r))
  BY <1>5, <1>9
<1> DEFINE W == {path}
           new == {}
<1>11. /\ W \subseteq WriteLocks(k) /\ \A w \in W : IsSeq(w)
       /\ \A h \in new : h \in DOMAIN st.chunks /\ st.chunks[h].pending
       /\ Changed(st.files, st'.files, W, X, new)
  BY <1>4, <1>7, <1>9
<1> HIDE DEF W, new
<1> QED
  BY <1>1, <1>3, <1>4, <1>9, <1>10, <1>11, WriterTree

\* A call comes to its last part.
LEMMA LastPart ==
  ASSUME NEW k, CallType(k), NEW l, l = [k EXCEPT !.pc = "flush"]
  PROVE  /\ l.pc = "flush" /\ l.op = k.op /\ l.path = k.path /\ l.target = k.target
         /\ Within(l, k) /\ WriteLocks(l) = WriteLocks(k)
<1>1. l.pc = "flush" /\ l.op = k.op /\ l.path = k.path /\ l.target = k.target
  BY DEF CallType
<1>2. Within(l, k) /\ Within(k, l)
  BY <1>1, SameWithin
<1> QED
  BY <1>1, <1>2 DEF Within

\* The last part of Rename: its checks still hold.
LEMMA RenameTree ==
  ASSUME PlainTargets, TreeInv, NEW c \in Call, Rename(c)
  PROVE  TreeInv'
<1>1. MetaInv'
  BY RenameStep DEF TreeInv
<1>2. PICK k : k = call[c]
  OBVIOUS
<1>3. PICK l : l = [k EXCEPT !.pc = "flush"]
  OBVIOUS
<1>4. PICK r : r = [op |-> "rename", path |-> k.path, target |-> k.target]
  OBVIOUS
<1>5. /\ k.pc = "rename" /\ st' = ApplyRename(st, k.path, k.target)
      /\ tail' = Append(tail, [record |-> r, owner |-> c])
      /\ call' = [call EXCEPT ![c] = l] /\ UNCHANGED <<disk, served>>
  BY <1>2, <1>3, <1>4, Zenon DEF Rename, Log
<1>6. PICK u : u = ReplayedOf(disk, tail, Len(tail))
  OBVIOUS
<1>7. /\ Sane(st) /\ Sane(u) /\ Recovers(u, st) /\ Counted(st) /\ Shape(st.files)
      /\ IsFiles(st.files) /\ CallType(k) /\ CheckOK(k, st.files)
  BY <1>2, <1>6, TreeFact
<1>8. /\ k.op = "rename" /\ Plain(k.target) /\ Present(st.files, k.path)
      /\ FreeIn(st.files, k.target) /\ IsSeq(k.path) /\ IsSeq(k.target)
  BY <1>5, <1>7 DEF CheckOK, TwoPathsOK, PlainTargets, CallType
<1>9. l.pc = "flush" /\ Within(l, call[c]) /\ WriteLocks(l) = {k.path, k.target}
  BY <1>2, <1>3, <1>7, <1>8, LastPart, LocksOf
<1>10. PICK u2 : u2 = Apply(u, r)
  OBVIOUS
<1>11. u2 = ApplyRename(u, k.path, k.target)
  <2>1. r.op = "rename" /\ r.path = k.path /\ r.target = k.target
    BY <1>4
  <2> QED
    BY <1>10, <2>1 DEF Apply
<1>12. PICK sub : sub = {p \in DOMAIN st.files : IsPrefix(k.path, p)}
  OBVIOUS
<1>13. PICK moved : moved = {Moved(p, k.path, k.target) : p \in sub}
  OBVIOUS
<1>14. PICK gs : gs = RenameSubtree(st.files, k.path, k.target)
  OBVIOUS
<1>15. Renamed(st.files, gs, sub, moved, k.path, k.target)
  BY <1>7, <1>8, <1>12, <1>13, <1>14, RenameIs
<1>16. Images(moved, sub, k.path, k.target)
  BY <1>13 DEF Images
<1>17. /\ Shape(gs) /\ Changed(st.files, gs, {k.path, k.target}, {}, {})
       /\ moved \cap DOMAIN st.files = {}
  BY <1>7, <1>8, <1>12, <1>15, <1>16, RenameFiles
<1>18. st'.files = gs
  <2>1. st' = [st EXCEPT !.files = gs]
    BY <1>5, <1>8, <1>14 DEF ApplyRename, Present
  <2> QED
    BY <1>7, <2>1 DEF Sane
<1>19. Effect(st, st', u2)
  BY <1>5, <1>7, <1>8, <1>11, <1>12, <1>13, <1>17, RenameEffect
<1>20. Effect(st, st', Apply(ReplayedOf(disk, tail, Len(tail)), r))
  BY <1>6, <1>10, <1>19
<1> DEFINE W == {k.path, k.target}
           new == {}
<1>21. /\ W \subseteq WriteLocks(l) /\ \A w \in W : IsSeq(w)
       /\ \A h \in new : h \in DOMAIN st.chunks /\ st.chunks[h].pending
       /\ Changed(st.files, st'.files, W, {}, new) /\ Shape(st'.files)
  BY <1>8, <1>9, <1>17, <1>18
<1> HIDE DEF W, new
<1> QED
  BY <1>1, <1>5, <1>9, <1>20, <1>21, WriterTree

\* The last part of Snapshot.
LEMMA SnapshotTree ==
  ASSUME PlainTargets, TreeInv, NEW c \in Call, SnapshotFinish(c)
  PROVE  TreeInv'
<1>1. MetaInv'
  BY SnapshotStep DEF TreeInv
<1>2. PICK k : k = call[c]
  OBVIOUS
<1>3. PICK l : l = [k EXCEPT !.pc = "flush"]
  OBVIOUS
<1>4. PICK r : r = [op |-> "snapshot", path |-> k.path, target |-> k.target]
  OBVIOUS
<1>5. /\ k.pc = "snapshot" /\ st' = ApplySnapshot(st, k.path, k.target)
      /\ tail' = Append(tail, [record |-> r, owner |-> c])
      /\ call' = [call EXCEPT ![c] = l] /\ UNCHANGED <<disk, served>>
  BY <1>2, <1>3, <1>4, Zenon DEF SnapshotFinish, Log
<1>6. PICK u : u = ReplayedOf(disk, tail, Len(tail))
  OBVIOUS
<1>7. /\ Sane(st) /\ Sane(u) /\ Recovers(u, st) /\ Counted(st) /\ Shape(st.files)
      /\ CallType(k) /\ CheckOK(k, st.files)
  BY <1>2, <1>6, TreeFact
<1>8. /\ k.op = "snapshot" /\ Plain(k.target)
      /\ FreeIn(st.files, k.target) /\ IsSeq(k.path) /\ IsSeq(k.target)
  BY <1>5, <1>7 DEF CheckOK, TwoPathsOK, PlainTargets, CallType
<1>9. l.pc = "flush" /\ Within(l, call[c]) /\ WriteLocks(l) = {k.path, k.target}
  BY <1>2, <1>3, <1>7, <1>8, LastPart, LocksOf
<1>10. PICK u2 : u2 = Apply(u, r)
  OBVIOUS
<1>11. u2 = ApplySnapshot(u, k.path, k.target)
  <2>1. r.op = "snapshot" /\ r.path = k.path /\ r.target = k.target
    BY <1>4
  <2> QED
    BY <1>10, <2>1 DEF Apply
<1>12. /\ Effect(st, st', u2) /\ Shape(st'.files)
       /\ Changed(st.files, st'.files, {k.path, k.target}, {}, {})
  BY <1>5, <1>7, <1>8, <1>11, SnapshotEffect
<1>13. Effect(st, st', Apply(ReplayedOf(disk, tail, Len(tail)), r))
  BY <1>6, <1>10, <1>12
<1> DEFINE W == {k.path, k.target}
           new == {}
<1>14. /\ W \subseteq WriteLocks(l) /\ \A w \in W : IsSeq(w)
       /\ \A h \in new : h \in DOMAIN st.chunks /\ st.chunks[h].pending
       /\ Changed(st.files, st'.files, W, {}, new)
  BY <1>8, <1>9, <1>12
<1> HIDE DEF W, new
<1> QED
  BY <1>1, <1>5, <1>9, <1>12, <1>13, <1>14, WriterTree

\* The chunk that a call created.
LEMMA NewChunkOf ==
  ASSUME TreeInv, NEW c \in Call, call[c].pc = "created"
  PROVE  NewFor(st, call[c].handle)
<1>1. PICK h : h = call[c].handle
  OBVIOUS
<1>2. h \in Handle /\ h < st.next
  BY <1>1, CreatedFact DEF TreeInv
<1>3. h \in DOMAIN st.chunks /\ st.chunks[h].pending
  BY <1>1, CallFact DEF TreeInv, CallOK, Making
<1>4. st.chunks[h].version = 1
  BY <1>3, TreeFact DEF PendingInv
<1> QED
  BY <1>1, <1>2, <1>3, <1>4 DEF NewFor

\* The last part of AddChunk.
LEMMA AddChunkFinishTree ==
  ASSUME PlainTargets, TreeInv, NEW c \in Call, AddChunkFinish(c)
  PROVE  TreeInv'
<1>1. MetaInv'
  BY AddChunkFinishStep DEF TreeInv
<1>2. PICK k : k = call[c]
  OBVIOUS
<1>3. PICK l : l = [k EXCEPT !.pc = "flush"]
  OBVIOUS
<1>4. PICK r : r = [op |-> "add", path |-> k.path, index |-> k.index, handle |-> k.handle]
  OBVIOUS
<1>5. /\ k.pc = "created" /\ k.op = "add"
      /\ st' = ApplyAddChunk(st, k.path, k.index, k.handle)
      /\ tail' = Append(tail, [record |-> r, owner |-> c])
      /\ call' = [call EXCEPT ![c] = l] /\ UNCHANGED <<disk, served>>
  BY <1>2, <1>3, <1>4, Zenon DEF AddChunkFinish, Log
<1>6. PICK u : u = ReplayedOf(disk, tail, Len(tail))
  OBVIOUS
<1>7. /\ Sane(st) /\ Sane(u) /\ Recovers(u, st) /\ Counted(st) /\ Shape(st.files)
      /\ CallType(k) /\ CheckOK(k, st.files)
  BY <1>2, <1>6, TreeFact
<1>8. k.path \in DOMAIN st.files /\ k.index = Len(st.files[k.path]) /\ IsSeq(k.path)
  BY <1>5, <1>7 DEF CheckOK, AddOK, CallType
<1>9. l.pc = "flush" /\ Within(l, call[c]) /\ WriteLocks(l) = {k.path}
  BY <1>2, <1>3, <1>5, <1>7, LastPart, LocksOf
<1>10. PICK u2 : u2 = Apply(u, r)
  OBVIOUS
<1>11. u2 = ApplyAddChunk(u, k.path, k.index, k.handle)
  <2>1. r.op = "add" /\ r.path = k.path /\ r.index = k.index /\ r.handle = k.handle
    BY <1>4
  <2> QED
    BY <1>10, <2>1 DEF Apply
<1>12. NewFor(st, k.handle)
  BY <1>2, <1>5, NewChunkOf
<1>13. /\ Effect(st, st', u2) /\ Shape(st'.files)
       /\ Changed(st.files, st'.files, {k.path}, {}, {k.handle})
  BY <1>5, <1>7, <1>8, <1>11, <1>12, AddEffect
<1>14. Effect(st, st', Apply(ReplayedOf(disk, tail, Len(tail)), r))
  BY <1>6, <1>10, <1>13
<1> DEFINE W == {k.path}
           new == {k.handle}
<1>15. /\ W \subseteq WriteLocks(l) /\ \A w \in W : IsSeq(w)
       /\ \A h \in new : h \in DOMAIN st.chunks /\ st.chunks[h].pending
       /\ Changed(st.files, st'.files, W, {}, new)
  BY <1>8, <1>9, <1>12, <1>13 DEF NewFor
<1> HIDE DEF W, new
<1> QED
  BY <1>1, <1>5, <1>9, <1>13, <1>14, <1>15, WriterTree

-----------------------------------------------------------------------------
(* Steps that change chunks.                                               *)

\* A call goes on while files stay as they are.
LEMMA SameFilesTree ==
  ASSUME TreeInv, MetaInv', NEW c \in Call, NEW k, k.pc = "flush", Within(k, call[c]),
         st'.files = st.files,
         NEW r, Effect(st, st', Apply(ReplayedOf(disk, tail, Len(tail)), r)),
         tail' = Append(tail, [record |-> r, owner |-> c]), call' = [call EXCEPT ![c] = k],
         UNCHANGED <<disk, served>>
  PROVE  TreeInv'
<1>1. /\ World(st, disk, tail, call, served) /\ Tree(st, disk, tail, call, served)
      /\ Shape(st.files) /\ \A e \in Call : CheckOK(call[e], st.files)
  BY DEF TreeInv, MetaInv, Tree
<1>2. UsedInv(st')
  BY AfterFact
<1>3. CheckOK(k, st'.files) /\ ~Holds(k)
  BY DoneOK
<1>4. PICK s2 : s2 = st'
  OBVIOUS
<1>5. PICK t2 : t2 = tail'
  OBVIOUS
<1>6. PICK cl2 : cl2 = call'
  OBVIOUS
<1>7. /\ Effect(st, s2, Apply(ReplayedOf(disk, tail, Len(tail)), r)) /\ Shape(s2.files)
      /\ UsedInv(s2) /\ CheckOK(k, s2.files) /\ \A e \in Call : e # c => CheckOK(call[e], s2.files)
  BY <1>1, <1>2, <1>3, <1>4
<1>8. t2 = Append(tail, [record |-> r, owner |-> c]) /\ cl2 = [call EXCEPT ![c] = k]
  BY <1>5, <1>6
<1>9. Tree(s2, disk, t2, cl2, served)
  BY <1>1, <1>3, <1>7, <1>8, TreeLog
<1> QED
  BY <1>4, <1>5, <1>6, <1>9 DEF TreeInv

\* A record of the collector, or of a heartbeat.
LEMMA OtherTree ==
  ASSUME TreeInv, MetaInv', Shape(st'.files), \A e \in Call : CheckOK(call[e], st'.files),
         NEW r, NEW o, Effect(st, st', Apply(ReplayedOf(disk, tail, Len(tail)), r)),
         tail' = Append(tail, [record |-> r, owner |-> o]), UNCHANGED <<disk, call, served>>
  PROVE  TreeInv'
<1>1. World(st, disk, tail, call, served) /\ Tree(st, disk, tail, call, served)
  BY DEF TreeInv, MetaInv
<1>2. UsedInv(st')
  BY AfterFact
<1>3. PICK s2 : s2 = st'
  OBVIOUS
<1>4. PICK t2 : t2 = tail'
  OBVIOUS
<1>5. /\ Effect(st, s2, Apply(ReplayedOf(disk, tail, Len(tail)), r)) /\ Shape(s2.files)
      /\ UsedInv(s2) /\ \A e \in Call : CheckOK(call[e], s2.files)
  BY <1>2, <1>3
<1>6. t2 = Append(tail, [record |-> r, owner |-> o])
  BY <1>4
<1>7. Tree(s2, disk, t2, call, served)
  BY <1>1, <1>5, <1>6, TreeOther
<1> QED
  BY <1>3, <1>4, <1>7 DEF TreeInv

\* A chunk more that is pending, which nobody has heard of.
LEMMA PendingMore ==
  ASSUME NEW s, NEW d, NEW t, NEW cl, NEW sv, World(s, d, t, cl, sv), PendingInv(s, cl, sv),
         NEW h, h = s.next, h \in Handle, NEW s2, DOMAIN s2.chunks = DOMAIN s.chunks \cup {h},
         \A g \in DOMAIN s.chunks : s2.chunks[g] = s.chunks[g], s2.chunks[h].version = 1
  PROVE  PendingInv(s2, cl, sv)
<1>1. /\ Sane(s) /\ Sane(d) /\ d.next <= s.next /\ FreshInv(s, d, sv)
      /\ \A e \in Call : CallOK(e, cl[e], s, d, t)
  BY DEF World, DiskInv, CallInv
<1>2. s.next \in Nat /\ d.next \in Nat /\ h \in Nat
  BY <1>1, SaneNumbers
<1>3. h \notin DOMAIN s.chunks
  BY <1>1, <1>2, SaneNumbers
<1>4. sv[h] <= 1
  <2>1. sv[h] \in 0..MaxVersion /\ (sv[h] > 0 => h < d.next)
    BY <1>1 DEF FreshInv
  <2>2. sv[h] \in Nat /\ ~(sv[h] > 0)
    BY <1>1, <1>2, <2>1, MetadataAssumption
  <2> QED
    BY <2>2
<1>5. ASSUME NEW e \in Call, Holds(cl[e]), cl[e].handle \in DOMAIN s2.chunks
      PROVE  ~s2.chunks[cl[e].handle].pending
  <2>1. cl[e].handle \in Handle /\ cl[e].handle < d.next
    BY <1>1, <1>5 DEF CallOK, Told, Holds
  <2>2. cl[e].handle # h
    BY <1>1, <1>2, <2>1
  <2> QED
    BY <1>5, <2>2 DEF PendingInv
<1> QED
  BY <1>3, <1>4, <1>5 DEF PendingInv

\* AllocHandle: replay of its record moves next as well.
LEMMA AllocHandleTree ==
  ASSUME TreeInv, NEW c \in Call, AllocHandle(c)
  PROVE  TreeInv'
<1>1. MetaInv'
  BY AllocHandleStep DEF TreeInv
<1>2. PICK k : k = call[c]
  OBVIOUS
<1>3. PICK h : h = st.next
  OBVIOUS
<1>4. PICK l : l = [k EXCEPT !.pc = "create", !.handle = h]
  OBVIOUS
<1>5. PICK r : r = [op |-> "alloc", handle |-> h]
  OBVIOUS
<1>6. /\ k.pc = "alloc" /\ h <= MaxHandle /\ st' = WithPending(st, h)
      /\ tail' = Append(tail, [record |-> r, owner |-> c])
      /\ call' = [call EXCEPT ![c] = l] /\ UNCHANGED <<disk, served>>
  BY <1>2, <1>3, <1>4, <1>5, Zenon DEF AllocHandle, Log, WithPending
<1>7. PICK u : u = ReplayedOf(disk, tail, Len(tail))
  OBVIOUS
<1>8. /\ World(st, disk, tail, call, served) /\ Tree(st, disk, tail, call, served)
      /\ Sane(st) /\ Sane(u) /\ Recovers(u, st) /\ Counted(st) /\ Shape(st.files)
      /\ IsSeq(tail) /\ PendingInv(st, call, served) /\ CallType(k) /\ CheckOK(k, st.files)
      /\ LogInv(st, disk, tail) /\ call = [e \in Call |-> call[e]] /\ Apart(call)
      /\ \A e \in Call : CheckOK(call[e], st.files)
  BY <1>2, <1>7, TreeFact DEF Tree
<1>9. PICK s2 : s2 = st'
  OBVIOUS
<1>10. PICK t2 : t2 = tail'
  OBVIOUS
<1>11. /\ s2.files = st.files /\ h \in Handle /\ DOMAIN s2.chunks = DOMAIN st.chunks \cup {h}
       /\ \A g \in DOMAIN st.chunks : s2.chunks[g] = st.chunks[g]
  BY <1>3, <1>6, <1>8, <1>9, AllocState
<1>12. PICK e : e = [record |-> r, owner |-> c]
  OBVIOUS
<1>13. e.record = r /\ t2 = Append(tail, e)
  BY <1>6, <1>10, <1>12
<1>14. PICK u2 : u2 = Apply(u, r)
  OBVIOUS
<1>15. u2 = ApplyAllocHandle(u, h)
  <2>1. r.op = "alloc" /\ r.handle = h
    BY <1>5
  <2> QED
    BY <1>14, <2>1 DEF Apply
<1>16. Counted(s2) /\ Recovers(u2, s2) /\ s2.chunks[h].version = 1
  BY <1>3, <1>6, <1>8, <1>9, <1>15, AllocEffect
<1>17. LogInv(s2, disk, t2)
  <2>1. Recovers(Apply(ReplayedOf(disk, tail, Len(tail)), e.record), s2)
    BY <1>7, <1>13, <1>14, <1>16
  <2>2. Shape(s2.files) /\ UsedInv(s2)
    BY <1>1, <1>8, <1>9, <1>11, AfterFact
  <2>3. t2 = Append(tail, e)
    BY <1>13
  <2> QED
    BY <1>8, <2>1, <2>2, <2>3, LogMore, Zenon
<1>18. PendingInv(s2, call, served)
  BY <1>3, <1>8, <1>11, <1>16, PendingMore
<1>19. /\ l.pc = "create" /\ l.op = k.op /\ l.path = k.path /\ l.target = k.target
       /\ l.index = k.index
  BY <1>4, <1>8 DEF CallType
<1>20. CheckOK(l, st.files) /\ ~Holds(l)
  BY <1>6, <1>8, <1>19 DEF CheckOK, TwoPathsOK, AddOK, LeaseOK, CowOK, CopyOK, Holds
<1>21. Within(l, call[c])
  BY <1>2, <1>19, SameWithin
<1>22. PICK cl2 : cl2 = call'
  OBVIOUS
<1>23. cl2[c] = l /\ \A a \in Call : a # c => cl2[a] = call[a]
  BY <1>6, <1>8, <1>22
<1>24. cl2 = [call EXCEPT ![c] = l]
  BY <1>6, <1>22
<1>25. Apart(cl2)
  BY <1>8, <1>21, <1>24, ApartChange
<1>26. PendingInv(s2, cl2, served)
  BY <1>18, <1>20, <1>23 DEF PendingInv
<1>27. \A a \in Call : CheckOK(cl2[a], s2.files)
  BY <1>8, <1>11, <1>20, <1>23
<1>28. Tree(s2, disk, t2, cl2, served)
  BY <1>8, <1>11, <1>16, <1>17, <1>25, <1>26, <1>27 DEF Tree
<1> QED
  BY <1>1, <1>6, <1>9, <1>10, <1>22, <1>28 DEF TreeInv

\* A failed creation: the log had no such chunk.
LEMMA CreateFailedTree ==
  ASSUME TreeInv, NEW c \in Call, CreateFailed(c)
  PROVE  TreeInv'
<1>1. MetaInv'
  BY CreateFailedStep DEF TreeInv
<1>2. PICK h : h = call[c].handle
  OBVIOUS
<1>3. /\ call[c].pc = "failed" /\ st' = ApplyDropChunk(st, h)
      /\ call' = [call EXCEPT ![c] = Idle] /\ UNCHANGED <<disk, tail, served>>
  BY <1>2 DEF CreateFailed, ApplyDropChunk
<1>4. PICK u : u = ReplayedOf(disk, tail, Len(tail))
  OBVIOUS
<1>5. /\ World(st, disk, tail, call, served) /\ Tree(st, disk, tail, call, served)
      /\ Sane(st) /\ Recovers(u, st) /\ Counted(st) /\ CallOK(c, call[c], st, disk, tail)
  BY <1>4, TreeFact, CallFact DEF TreeInv
<1>6. h \in DOMAIN st.chunks /\ st.chunks[h].pending
  BY <1>2, <1>3, <1>5 DEF CallOK, Making
<1>7. PICK s2 : s2 = st'
  OBVIOUS
<1>8. Effect(st, s2, u) /\ s2.files = st.files
  BY <1>3, <1>5, <1>6, <1>7, EraseEffect
<1>9. Tree(s2, disk, tail, call, served)
  BY <1>4, <1>5, <1>8 DEF Tree, Effect, LogInv, PendingInv, PendingKept
<1>10. PICK k : k = Idle
  OBVIOUS
<1>11. CheckOK(k, s2.files) /\ ~Holds(k) /\ Within(k, call[c])
  BY <1>10, IdleOK
<1>12. Apart(call') /\ \A e \in Call : CheckOK(call'[e], s2.files)
  <2>1. call' = [call EXCEPT ![c] = k] /\ call = [e \in Call |-> call[e]] /\ Apart(call)
    BY <1>3, <1>5, <1>10 DEF World, CallInv, Tree
  <2>2. PICK cl2 : cl2 = call'
    OBVIOUS
  <2>3. cl2 = [call EXCEPT ![c] = k]
    BY <2>1, <2>2
  <2>4. Apart(cl2)
    BY <1>11, <2>1, <2>3, ApartChange
  <2>5. cl2[c] = k /\ \A e \in Call : e # c => cl2[e] = call[e]
    BY <2>1, <2>3
  <2> QED
    BY <1>9, <1>11, <2>2, <2>4, <2>5 DEF Tree
<1>13. PendingInv(s2, call', served)
  <2>1. call'[c] = k /\ \A e \in Call : e # c => call'[e] = call[e]
    BY <1>3, <1>5, <1>10 DEF World, CallInv
  <2> QED
    BY <1>9, <1>11, <2>1 DEF Tree, PendingInv
<1> QED
  BY <1>1, <1>3, <1>7, <1>9, <1>12, <1>13 DEF TreeInv, Tree

\* The copy takes the place of the shared chunk.
LEMMA CopyOnWriteFinishTree ==
  ASSUME TreeInv, NEW c \in Call, CopyOnWriteFinish(c)
  PROVE  TreeInv'
<1>1. MetaInv'
  BY CopyOnWriteFinishStep DEF TreeInv
<1>2. PICK k : k = call[c]
  OBVIOUS
<1>3. PICK h : h = k.handle
  OBVIOUS
<1>4. PICK l : l = [k EXCEPT !.pc = "replaced"]
  OBVIOUS
<1>5. PICK r : r = [op |-> "replace", path |-> k.path, index |-> k.index, handle |-> h]
  OBVIOUS
<1>6. /\ k.pc = "created" /\ k.op = "lease"
      /\ st' = ApplyReplaceChunk(st, k.path, k.index, h)
      /\ tail' = Append(tail, [record |-> r, owner |-> c])
      /\ call' = [call EXCEPT ![c] = l] /\ UNCHANGED <<disk, served>>
  BY <1>2, <1>3, <1>4, <1>5, Zenon DEF CopyOnWriteFinish, Log
<1>7. PICK u : u = ReplayedOf(disk, tail, Len(tail))
  OBVIOUS
<1>8. /\ World(st, disk, tail, call, served) /\ Tree(st, disk, tail, call, served)
      /\ Sane(st) /\ Sane(u) /\ Recovers(u, st) /\ Counted(st) /\ UsedInv(st) /\ Shape(st.files)
      /\ IsFiles(st.files) /\ PendingInv(st, call, served) /\ CallType(k) /\ CheckOK(k, st.files)
      /\ \A e \in Call : CallType(call[e]) /\ CheckOK(call[e], st.files)
  BY <1>2, <1>7, TreeFact
<1>9. /\ k.path \in DOMAIN st.files /\ k.index \in Nat
      /\ k.index + 1 \in DOMAIN st.files[k.path]
  BY <1>6, <1>8 DEF CheckOK, CopyOK, CallType
<1>10. NewFor(st, h) /\ h \in Handle
  BY <1>2, <1>3, <1>6, NewChunkOf DEF NewFor
<1>11. PICK u2 : u2 = Apply(u, r)
  OBVIOUS
<1>12. u2 = ApplyReplaceChunk(u, k.path, k.index, h)
  <2>1. r.op = "replace" /\ r.path = k.path /\ r.index = k.index /\ r.handle = h
    BY <1>5
  <2> QED
    BY <1>11, <2>1 DEF Apply
<1>13. PICK s2 : s2 = st'
  OBVIOUS
<1>14. /\ Effect(st, s2, u2) /\ IsFiles(s2.files) /\ DOMAIN s2.files = DOMAIN st.files
       /\ s2.files[k.path] = [st.files[k.path] EXCEPT ![k.index + 1] = h]
       /\ \A p \in DOMAIN st.files : p # k.path => s2.files[p] = st.files[p]
  BY <1>6, <1>8, <1>9, <1>10, <1>12, <1>13, ReplaceEffect
<1>15. PICK gs : gs = s2.files
  OBVIOUS
<1>16. PICK i : i = k.index + 1
  OBVIOUS
<1>17. /\ h \notin Used(st.files)
       /\ \A e \in Call : call[e].pc \in {"replaced", "grant", "round"} => call[e].handle # h
  BY <1>8, <1>10 DEF NewFor, UsedInv, PendingInv, Holds
<1>18. ASSUME NEW e \in Call
       PROVE  CheckOK(call[e], gs) /\ OnlyAt(gs, h, k.path, k.index) /\ (Shape(st.files) => Shape(gs))
  <2>1. /\ IsFiles(gs) /\ DOMAIN gs = DOMAIN st.files /\ i \in DOMAIN st.files[k.path]
        /\ gs[k.path] = [st.files[k.path] EXCEPT ![i] = h]
    BY <1>9, <1>14, <1>15, <1>16
  <2>2. \A p \in DOMAIN st.files : p # k.path => gs[p] = st.files[p]
    BY <1>14, <1>15
  <2>3. PICK m : m = call[e]
    OBVIOUS
  <2>4. CallType(m) /\ CheckOK(m, st.files) /\ (m.pc \in {"replaced", "grant", "round"} => m.handle # h)
    BY <1>8, <1>17, <2>3
  <2>5. CheckOK(m, gs) /\ OnlyAt(gs, h, k.path, k.index) /\ (Shape(st.files) => Shape(gs))
    BY <1>8, <1>9, <1>10, <1>16, <1>17, <2>1, <2>2, <2>4, ReplaceKept
  <2> QED
    BY <2>3, <2>5
<1>19. /\ l.pc = "replaced" /\ l.op = k.op /\ l.path = k.path /\ l.target = k.target
       /\ l.index = k.index /\ l.handle = h
  BY <1>3, <1>4, <1>8 DEF CallType
<1>20. CheckOK(l, s2.files)
  BY <1>6, <1>15, <1>18, <1>19 DEF CheckOK, TwoPathsOK, AddOK, LeaseOK, CowOK, CopyOK
<1>21. Within(l, call[c])
  BY <1>2, <1>19, SameWithin
<1>22. UsedInv(s2) /\ Shape(s2.files)
  BY <1>1, <1>8, <1>13, <1>15, <1>18, AfterFact
<1>23. ~s2.chunks[h].pending
  <2>1. h \in Used(s2.files)
    <3>1. k.path \in DOMAIN s2.files /\ k.index + 1 \in DOMAIN s2.files[k.path]
          /\ s2.files[k.path][k.index + 1] = h
      BY <1>9, <1>14
    <3> QED
      BY <3>1 DEF Used, Range
  <2> QED
    BY <1>22, <2>1 DEF UsedInv
<1>24. PICK t2 : t2 = tail'
  OBVIOUS
<1>25. PICK cl2 : cl2 = call'
  OBVIOUS
<1>26. /\ Effect(st, s2, Apply(ReplayedOf(disk, tail, Len(tail)), r))
       /\ \A e \in Call : e # c => CheckOK(call[e], s2.files)
  BY <1>7, <1>11, <1>14, <1>15, <1>18
<1>27. t2 = Append(tail, [record |-> r, owner |-> c]) /\ cl2 = [call EXCEPT ![c] = l]
  BY <1>6, <1>24, <1>25
<1>28. Tree(s2, disk, t2, cl2, served)
  BY <1>8, <1>19, <1>20, <1>21, <1>22, <1>23, <1>26, <1>27, TreeLog
<1> QED
  BY <1>1, <1>6, <1>13, <1>24, <1>25, <1>28 DEF TreeInv

\* A grant is logged with the version that memory has then.
LEMMA GrantFinishTree ==
  ASSUME TreeInv, NEW c \in Call, GrantFinish(c)
  PROVE  TreeInv'
<1>1. MetaInv'
  BY GrantFinishStep DEF TreeInv
<1>2. PICK k : k = call[c]
  OBVIOUS
<1>3. PICK h : h = k.handle
  OBVIOUS
<1>4. PICK v : v = ApplyBumpVersion(st, h, k.version).chunks[h].version
  OBVIOUS
<1>5. PICK l : l = [k EXCEPT !.pc = "flush"]
  OBVIOUS
<1>6. PICK r : r = [op |-> "bump", handle |-> h, version |-> v]
  OBVIOUS
<1>7. /\ k.pc = "round" /\ h \in DOMAIN st.chunks
      /\ st' = ApplyBumpVersion(st, h, k.version)
      /\ tail' = Append(tail, [record |-> r, owner |-> c])
      /\ call' = [call EXCEPT ![c] = l] /\ UNCHANGED <<disk, served>>
  BY <1>2, <1>3, <1>4, <1>5, <1>6, Zenon DEF GrantFinish, Log
<1>8. PICK u : u = ReplayedOf(disk, tail, Len(tail))
  OBVIOUS
<1>9. /\ Sane(st) /\ Sane(u) /\ Recovers(u, st) /\ Counted(st)
      /\ PendingInv(st, call, served) /\ CallType(k)
  BY <1>2, <1>8, TreeFact
<1>10. ~st.chunks[h].pending
  BY <1>2, <1>3, <1>7, <1>9 DEF PendingInv, Holds
<1>11. PICK w : w = IF k.version > st.chunks[h].version THEN k.version ELSE st.chunks[h].version
  OBVIOUS
<1>12. st.chunks[h] \in Chunk /\ k.version \in 1..MaxVersion
  BY <1>7, <1>9 DEF Sane, IsChunks, CallType
<1>13. w \in Nat /\ w >= st.chunks[h].version
  BY <1>11, <1>12, MetadataAssumption DEF Chunk
<1>14. PICK cs : cs = [st.chunks EXCEPT ![h].version = w]
  OBVIOUS
<1>15. st' = [files |-> st.files, chunks |-> cs, next |-> st.next]
  <2>1. st' = [st EXCEPT !.chunks[h].version = w]
    BY <1>7, <1>11 DEF ApplyBumpVersion
  <2>2. st' = [st EXCEPT !.chunks = cs]
    BY <1>14, <2>1
  <2> QED
    BY <1>9, <2>2 DEF Sane
<1>16. v = w
  <2>1. cs[h].version = w
    BY <1>7, <1>12, <1>14 DEF Chunk
  <2> QED
    BY <1>4, <1>7, <1>15, <2>1
<1>17. PICK u2 : u2 = Apply(u, r)
  OBVIOUS
<1>18. u2 = ApplyBumpVersion(u, h, w)
  <2>1. r.op = "bump" /\ r.handle = h /\ r.version = w
    BY <1>6, <1>16
  <2> QED
    BY <1>17, <2>1 DEF Apply
<1>19. Effect(st, st', u2) /\ st'.files = st.files
  BY <1>7, <1>9, <1>10, <1>13, <1>14, <1>15, <1>18, BumpEffect
<1>20. Effect(st, st', Apply(ReplayedOf(disk, tail, Len(tail)), r))
  BY <1>8, <1>17, <1>19
<1>21. l.pc = "flush" /\ Within(l, call[c])
  BY <1>2, <1>5, <1>9, LastPart
<1> QED
  BY <1>1, <1>7, <1>19, <1>20, <1>21, SameFilesTree

\* A heartbeat brings a higher version: the chunk is not pending.
LEMMA HeartBeatTree ==
  ASSUME TreeInv, NEW h \in Handle, HeartBeat(h)
  PROVE  TreeInv'
<1>1. MetaInv'
  BY HeartBeatStep DEF TreeInv
<1>2. PICK v : v = served[h]
  OBVIOUS
<1>3. PICK r : r = [op |-> "bump", handle |-> h, version |-> v]
  OBVIOUS
<1>4. PICK o : o = "none"
  OBVIOUS
<1>5. /\ h \in DOMAIN st.chunks /\ v > st.chunks[h].version
      /\ st' = [st EXCEPT !.chunks[h].version = v]
      /\ tail' = Append(tail, [record |-> r, owner |-> o])
      /\ UNCHANGED <<disk, call, served>>
  BY <1>2, <1>3, <1>4, Zenon DEF HeartBeat, Log
<1>6. PICK u : u = ReplayedOf(disk, tail, Len(tail))
  OBVIOUS
<1>7. /\ Sane(st) /\ Sane(u) /\ Recovers(u, st) /\ Counted(st) /\ Shape(st.files)
      /\ PendingInv(st, call, served) /\ FreshInv(st, disk, served)
      /\ \A e \in Call : CheckOK(call[e], st.files)
  BY <1>6, TreeFact DEF World
<1>8. v \in Nat /\ st.chunks[h].version \in Nat
  <2>1. v \in 0..MaxVersion /\ st.chunks[h] \in Chunk
    BY <1>2, <1>5, <1>7 DEF FreshInv, Sane, IsChunks
  <2> QED
    BY <2>1, MetadataAssumption DEF Chunk
<1>9. ~st.chunks[h].pending
  <2>1. st.chunks[h].pending => st.chunks[h].version = 1 /\ v <= 1
    BY <1>2, <1>5, <1>7 DEF PendingInv
  <2> QED
    BY <1>5, <1>8, <2>1
<1>10. PICK cs : cs = [st.chunks EXCEPT ![h].version = v]
  OBVIOUS
<1>11. st' = [files |-> st.files, chunks |-> cs, next |-> st.next]
  <2>1. st' = [st EXCEPT !.chunks = cs]
    BY <1>5, <1>10
  <2> QED
    BY <1>7, <2>1 DEF Sane
<1>12. PICK u2 : u2 = Apply(u, r)
  OBVIOUS
<1>13. u2 = ApplyBumpVersion(u, h, v)
  <2>1. r.op = "bump" /\ r.handle = h /\ r.version = v
    BY <1>3
  <2> QED
    BY <1>12, <2>1 DEF Apply
<1>14. v >= st.chunks[h].version
  BY <1>5, <1>8
<1>15. Effect(st, st', u2) /\ st'.files = st.files
  BY <1>5, <1>7, <1>8, <1>9, <1>10, <1>11, <1>13, <1>14, BumpEffect
<1>16. Effect(st, st', Apply(ReplayedOf(disk, tail, Len(tail)), r))
  BY <1>6, <1>12, <1>15
<1>17. Shape(st'.files) /\ \A e \in Call : CheckOK(call[e], st'.files)
  BY <1>7, <1>15
<1> QED
  BY <1>1, <1>5, <1>16, <1>17, OtherTree

\* The collector removes a hidden file that nobody has locked.
LEMMA GcRemoveTree ==
  ASSUME PlainTargets, TreeInv, NEW path \in gc.expired, GcRemove(path)
  PROVE  TreeInv'
<1>1. MetaInv'
  BY GcRemoveStep DEF TreeInv
<1>2. PICK k : k = [Idle EXCEPT !.op = "remove", !.path = path]
  OBVIOUS
<1>3. PICK r : r = [op |-> "remove", path |-> path]
  OBVIOUS
<1>4. PICK o : o = "gc"
  OBVIOUS
<1>5. /\ CanLock(k) /\ UNCHANGED <<disk, call, served>>
      /\ \/ /\ Exists(st.files, path) /\ st' = ApplyRemove(st, path)
            /\ tail' = Append(tail, [record |-> r, owner |-> o])
         \/ UNCHANGED <<st, tail>>
  BY <1>2, <1>3, <1>4, Zenon DEF GcRemove, Log
<1>6. CASE UNCHANGED <<st, tail>>
  BY <1>1, <1>5, <1>6 DEF TreeInv
<1>7. CASE /\ Exists(st.files, path) /\ st' = ApplyRemove(st, path)
           /\ tail' = Append(tail, [record |-> r, owner |-> o])
  <2>1. PICK u : u = ReplayedOf(disk, tail, Len(tail))
    OBVIOUS
  <2>2. /\ World(st, disk, tail, call, served) /\ Tree(st, disk, tail, call, served)
        /\ Sane(st) /\ Sane(u) /\ Recovers(u, st) /\ Counted(st) /\ Shape(st.files)
        /\ IsFiles(st.files)
    BY <2>1, TreeFact
  <2>3. path \in DOMAIN st.files /\ IsSeq(path)
    BY <1>7, <2>2 DEF Exists, IsFiles
  <2>4. PICK u2 : u2 = Apply(u, r)
    OBVIOUS
  <2>5. u2 = ApplyRemove(u, path)
    <3>1. r.op = "remove" /\ r.path = path
      BY <1>3
    <3> QED
      BY <2>4, <3>1 DEF Apply
  <2>6. Effect(st, st', u2) /\ Shape(st'.files) /\ Changed(st.files, st'.files, {path}, {}, {})
    BY <1>7, <2>2, <2>3, <2>5, RemoveEffect
  <2>7. Effect(st, st', Apply(ReplayedOf(disk, tail, Len(tail)), r))
    BY <2>1, <2>4, <2>6
  <2>8. WriteLocks(k) = {path}
    <3>1. PICK k1 : k1 = [Idle EXCEPT !.op = "remove"]
      OBVIOUS
    <3>2. k = [k1 EXCEPT !.path = path]
      BY <1>2, <3>1
    <3>3. k1 = [pc |-> "idle", op |-> "remove", path |-> <<>>, target |-> <<>>,
                index |-> 0, handle |-> 0, version |-> 0]
      BY <3>1 DEF Idle
    <3>4. k.op = "remove" /\ k.path = path
      BY <3>2, <3>3
    <3> QED
      BY <3>4, LocksOf
  <2>9. ASSUME NEW e \in Call PROVE CheckOK(call[e], st'.files)
    <3> DEFINE W == {path}
               new == {}
    <3>1. W \subseteq WriteLocks(k) /\ \A w \in W : IsSeq(w)
      BY <2>3, <2>8
    <3>2. Changed(st.files, st'.files, W, {}, new) /\ IsFiles(st'.files)
      BY <1>1, <2>6, AfterFact
    <3>3. \A h \in new : h \in DOMAIN st.chunks /\ st.chunks[h].pending
      OBVIOUS
    <3> HIDE DEF W, new
    <3>4. ~Conflict(k, call[e]) /\ ~Conflict(call[e], k)
      BY <1>5 DEF CanLock
    <3>5. Clear(call[e], W)
      BY <3>1, <3>4, ClearOf
    <3> QED
      BY <2>2, <3>2, <3>3, <3>5, OtherKept
  <2> QED
    BY <1>1, <1>5, <1>7, <2>6, <2>7, <2>9, OtherTree
<1> QED
  BY <1>5, <1>6, <1>7

-----------------------------------------------------------------------------
(* The drops of the collector.                                             *)

\* The chunks hs are dropped from state s one by one; f has all the states.
Drops(f, s, hs, n) ==
  /\ f[0] = s
  /\ \A m \in Nat : m + 1 <= n => f[m + 1] = ApplyDropChunk(f[m], hs[m + 1])

\* The tail t2 is t with the records of these drops after it.
Dropping(t2, t, hs, n) ==
  /\ IsSeq(t2) /\ Len(t2) = Len(t) + n /\ \A i \in 1..Len(t) : t2[i] = t[i]
  /\ \A j \in 1..n : t2[Len(t) + j].record = [op |-> "drop", handle |-> hs[j]]

\* State x is s without chunks that no file has, and u is what replay comes to.
DroppedTo(x, u, s) ==
  /\ Sane(x) /\ Sane(u) /\ x.files = s.files /\ Counted(x) /\ PendingKept(s, x)
  /\ Recovers(u, x) /\ Whole(u)

\* One drop more.
LEMMA DroppedMore ==
  ASSUME NEW s, NEW x, NEW u, DroppedTo(x, u, s), NEW h, h \notin Used(s.files),
         NEW x2, x2 = ApplyDropChunk(x, h), NEW u2, u2 = ApplyDropChunk(u, h)
  PROVE  DroppedTo(x2, u2, s)
<1>1. /\ Sane(x) /\ Sane(u) /\ x.files = s.files /\ Counted(x) /\ PendingKept(s, x)
      /\ Recovers(u, x) /\ Whole(u)
  BY DEF DroppedTo
<1>2. Effect(x, x2, u2) /\ x2.files = x.files
  BY <1>1, DropEffect
<1>3. Sane(x2)
  BY <1>1, DropFact
<1>4. Sane(u2) /\ u2.files = u.files /\ DOMAIN u2.chunks = DOMAIN u.chunks \ {h}
  BY <1>1, DropFact
<1>5. Whole(u2)
  BY <1>1, <1>4 DEF Whole, Recovers
<1>6. Counted(x2) /\ PendingKept(x, x2) /\ Recovers(u2, x2)
  BY <1>2 DEF Effect
<1>7. PendingKept(s, x2)
  BY <1>1, <1>6 DEF PendingKept
<1> QED
  BY <1>1, <1>2, <1>3, <1>4, <1>5, <1>6, <1>7 DEF DroppedTo

\* All the drops: the log has what memory has.
LEMMA LogDrops ==
  ASSUME NEW s, NEW d, NEW t, NEW cl, NEW sv, World(s, d, t, cl, sv), Tree(s, d, t, cl, sv),
         NEW n \in Nat, NEW hs, \A i \in 1..n : hs[i] \notin Used(s.files),
         NEW f, Drops(f, s, hs, n), NEW t2, Dropping(t2, t, hs, n)
  PROVE  Tree(f[n], d, t2, cl, sv)
<1>1. /\ DiskInv(s, d, t) /\ Sane(s) /\ IsSeq(t) /\ LogInv(s, d, t) /\ Counted(s)
      /\ Shape(s.files)
  BY DEF World, DiskInv, Tree
<1>2. PICK L \in Nat : L = Len(t)
  BY <1>1, SeqFact
<1>3. /\ IsSeq(t2) /\ Len(t2) = L + n /\ \A i \in 1..L : t2[i] = t[i]
      /\ \A j \in 1..n : t2[L + j].record = [op |-> "drop", handle |-> hs[j]]
  BY <1>2 DEF Dropping
<1>4. ReplayedSteps(d, t2)
  BY <1>3, ReplayedIs
<1>5. ASSUME NEW m \in Nat, m <= L PROVE ReplayedOf(d, t2, m) = ReplayedOf(d, t, m)
  <2>1. RecordsOf(t2, m) = RecordsOf(t, m)
    <3>1. \A i \in 1..m : t2[i] = t[i]
      BY <1>2, <1>3, <1>5
    <3> QED
      BY <3>1 DEF RecordsOf
  <2> QED
    BY <2>1 DEF ReplayedOf
<1>6. DroppedTo(f[0], ReplayedOf(d, t2, L), s)
  <2>1. f[0] = s
    BY DEF Drops
  <2>2. PICK u : u = ReplayedOf(d, t, L)
    OBVIOUS
  <2>3. Sane(u)
    BY <1>1, <1>2, <2>2, ReplayedSane
  <2>4. Recovers(u, s) /\ Whole(u)
    BY <1>1, <1>2, <2>2 DEF LogInv
  <2>5. PendingKept(s, s)
    BY DEF PendingKept
  <2>6. ReplayedOf(d, t2, L) = u
    BY <1>2, <1>5, <2>2
  <2> QED
    BY <1>1, <2>1, <2>3, <2>4, <2>5, <2>6 DEF DroppedTo
<1> DEFINE P == {m \in Nat : m <= n => DroppedTo(f[m], ReplayedOf(d, t2, L + m), s)}
<1>7. 0 \in P
  BY <1>2, <1>6
<1>8. ASSUME NEW m \in Nat, m \in P PROVE m + 1 \in P
  <2> SUFFICES ASSUME m + 1 <= n
               PROVE  DroppedTo(f[m + 1], ReplayedOf(d, t2, L + (m + 1)), s)
    OBVIOUS
  <2>1. m <= n /\ m + 1 \in 1..n /\ L + m \in Nat /\ (L + m) + 1 = L + (m + 1)
        /\ (L + m) + 1 <= Len(t2)
    BY <1>2, <1>3
  <2>2. DroppedTo(f[m], ReplayedOf(d, t2, L + m), s)
    BY <1>8, <2>1
  <2>3. PICK h : h = hs[m + 1]
    OBVIOUS
  <2>4. PICK u : u = ReplayedOf(d, t2, L + m)
    OBVIOUS
  <2>5. PICK u2 : u2 = ReplayedOf(d, t2, L + (m + 1))
    OBVIOUS
  <2>6. PICK r : r = t2[(L + m) + 1].record
    OBVIOUS
  <2>7. r = [op |-> "drop", handle |-> h]
    BY <1>3, <2>1, <2>3, <2>6
  <2>8. u2 = Apply(u, r)
    BY <1>4, <2>1, <2>4, <2>5, <2>6 DEF ReplayedSteps
  <2>9. u2 = ApplyDropChunk(u, h)
    <3>1. r.op = "drop" /\ r.handle = h
      BY <2>7
    <3> QED
      BY <2>8, <3>1 DEF Apply
  <2>10. f[m + 1] = ApplyDropChunk(f[m], h)
    BY <2>3 DEF Drops
  <2>11. h \notin Used(s.files)
    BY <2>1, <2>3
  <2>12. DroppedTo(f[m], u, s)
    BY <2>2, <2>4
  <2>13. DroppedTo(f[m + 1], u2, s)
    BY <2>9, <2>10, <2>11, <2>12, DroppedMore
  <2> QED
    BY <2>5, <2>13
<1>9. Nat \subseteq P
  <2> HIDE DEF P
  <2> QED
    BY <1>7, <1>8, Induction
<1>10. \A m \in Nat : m <= n => DroppedTo(f[m], ReplayedOf(d, t2, L + m), s)
  BY <1>9
<1>11. ASSUME NEW m \in Nat, m <= Len(t2) PROVE Whole(ReplayedOf(d, t2, m))
  <2>1. CASE m <= L
    BY <1>1, <1>2, <1>5, <2>1 DEF LogInv
  <2>2. CASE ~(m <= L)
    <3>1. PICK k \in Nat : m = L + k /\ k <= n
      <4>1. m - L \in Nat /\ m = L + (m - L) /\ m - L <= n
        BY <1>2, <1>3, <1>11, <2>2
      <4> QED
        BY <4>1
    <3> QED
      BY <1>10, <3>1 DEF DroppedTo
  <2> QED
    BY <2>1, <2>2
<1>12. /\ f[n].files = s.files /\ Counted(f[n]) /\ PendingKept(s, f[n])
       /\ Recovers(ReplayedOf(d, t2, L + n), f[n])
  BY <1>10 DEF DroppedTo
<1>13. LogInv(f[n], d, t2)
  BY <1>3, <1>11, <1>12 DEF LogInv
<1>14. PendingInv(f[n], cl, sv)
  BY <1>12 DEF Tree, PendingInv, PendingKept
<1> QED
  BY <1>12, <1>13, <1>14 DEF Tree

\* The collector's records follow the others, in their order.
LEMMA DroppingOf ==
  ASSUME NEW t, IsSeq(t), NEW n \in Nat, NEW hs, NEW q, q = [i \in 1..n |-> q[i]],
         \A i \in 1..n : q[i].record = [op |-> "drop", handle |-> hs[i]],
         NEW t2, t2 = t \o q
  PROVE  Dropping(t2, t, hs, n)
<1>1. IsSeq(t2)
  BY ConcatFact DEF Extended
<1>2. PICK S : S = Range(t) \cup {q[i] : i \in 1..n}
  OBVIOUS
<1>3. t \in Seq(S)
  BY <1>2, SeqMonotonic DEF IsSeq
<1>4. q \in Seq(S) /\ Len(q) = n
  <2>1. \A i \in 1..n : q[i] \in S
    BY <1>2
  <2> QED
    BY <2>1, IsASeq
<1>5. /\ Len(t2) = Len(t) + Len(q)
      /\ \A i \in 1..(Len(t) + Len(q)) : t2[i] = IF i <= Len(t) THEN t[i] ELSE q[i - Len(t)]
  BY <1>3, <1>4, ConcatProperties
<1>6. Len(t) \in Nat
  BY SeqFact
<1>7. \A i \in 1..Len(t) : t2[i] = t[i]
  BY <1>4, <1>5, <1>6
<1>8. ASSUME NEW j \in 1..n PROVE t2[Len(t) + j].record = [op |-> "drop", handle |-> hs[j]]
  <2>1. Len(t) + j \in 1..(Len(t) + Len(q)) /\ ~(Len(t) + j <= Len(t)) /\ (Len(t) + j) - Len(t) = j
    BY <1>4, <1>6
  <2>2. t2[Len(t) + j] = q[j]
    BY <1>5, <2>1
  <2> QED
    BY <2>2
<1> QED
  BY <1>1, <1>4, <1>5, <1>7, <1>8 DEF Dropping

\* GcPass's drops keep the invariant.
LEMMA GcDropOrphansTree ==
  ASSUME TreeInv, GcDropOrphans
  PROVE  TreeInv'
<1> DEFINE record(h) == [op |-> "drop", handle |-> h]
           drops(hs) == [i \in DOMAIN hs |-> record(hs[i])]
           entries(hs) == [i \in DOMAIN drops(hs) |-> [record |-> drops(hs)[i], owner |-> "gc"]]
<1>1. MetaInv'
  BY GcDropOrphansStep DEF TreeInv
<1>2. PICK hs \in SetToSeqs(Orphans) :
        /\ st' = Replay(st, drops(hs)) /\ tail' = tail \o entries(hs)
        /\ UNCHANGED <<disk, call, served>>
  BY Zenon DEF GcDropOrphans
<1>3. PICK n : n = Cardinality(Orphans)
  OBVIOUS
<1>4. /\ World(st, disk, tail, call, served) /\ Tree(st, disk, tail, call, served)
      /\ Sane(st) /\ IsFiles(st.files) /\ IsSeq(tail)
  BY TreeFact
<1>5. n \in Nat
  <2>1. Orphans \subseteq 1..MaxHandle
    BY <1>4 DEF Orphans, Sane, IsChunks, Handle
  <2>2. IsFiniteSet(1..MaxHandle)
    BY HandleNat, FS_Interval
  <2> QED
    BY <1>3, <2>1, <2>2, FS_Subset, FS_CardinalityType
<1>6. DOMAIN hs = 1..n /\ \A i \in 1..n : hs[i] \in Orphans
  BY <1>2, <1>3, Zenon DEF SetToSeqs
<1>7. ASSUME NEW i \in 1..n PROVE hs[i] \notin Used(st.files)
  <2>1. References(st.files, DOMAIN st.files, hs[i]) = 0
    BY <1>6 DEF Orphans
  <2> QED
    BY <1>4, <2>1, Unreferenced
<1>8. PICK rs : rs = drops(hs)
  OBVIOUS
<1>9. rs = [i \in 1..n |-> rs[i]] /\ \A i \in 1..n : rs[i] = record(hs[i])
  BY <1>6, <1>8
<1>10. Len(rs) = n
  BY <1>5, <1>9
<1>11. PICK q : q = entries(hs)
  OBVIOUS
<1>12. /\ q = [i \in 1..n |-> q[i]]
       /\ \A i \in 1..n : q[i].record = record(hs[i])
  BY <1>6, <1>8, <1>9, <1>11
<1>13. st' = Replay(st, rs) /\ tail' = tail \o q
  BY <1>2, <1>8, <1>11
<1> HIDE DEF drops, entries
<1>14. PICK f : IsReplay(f, st, rs) /\ st' = f[n]
  BY <1>5, <1>10, <1>13, ReplayFact
<1>15. f[0] = st /\ \A m \in Nat : m + 1 <= n => f[m + 1] = Apply(f[m], rs[m + 1])
  BY <1>5, <1>10, <1>14, ReplaySteps DEF Steps
<1>16. ASSUME NEW m \in Nat, m + 1 <= n PROVE f[m + 1] = ApplyDropChunk(f[m], hs[m + 1])
  <2>1. m + 1 \in 1..n
    BY <1>5, <1>16
  <2>2. rs[m + 1] = [op |-> "drop", handle |-> hs[m + 1]]
    BY <1>9, <2>1
  <2>3. PICK r : r = rs[m + 1]
    OBVIOUS
  <2>4. r.op = "drop" /\ r.handle = hs[m + 1]
    BY <2>2, <2>3
  <2>5. f[m + 1] = Apply(f[m], r)
    BY <1>15, <1>16, <2>3
  <2> QED
    BY <2>4, <2>5 DEF Apply
<1>17. Drops(f, st, hs, n)
  BY <1>15, <1>16 DEF Drops
<1>18. PICK t2 : t2 = tail'
  OBVIOUS
<1>19. Dropping(t2, tail, hs, n)
  <2>1. \A i \in 1..n : q[i].record = [op |-> "drop", handle |-> hs[i]]
    BY <1>12
  <2>2. q = [i \in 1..n |-> q[i]] /\ t2 = tail \o q
    BY <1>12, <1>13, <1>18
  <2> QED
    BY <1>4, <1>5, <2>1, <2>2, DroppingOf
<1>20. Tree(f[n], disk, t2, call, served)
  BY <1>4, <1>5, <1>7, <1>17, <1>19, LogDrops
<1> QED
  BY <1>1, <1>2, <1>14, <1>18, <1>20 DEF TreeInv

-----------------------------------------------------------------------------
(* Flush, checkpoint, crash and recovery.                                  *)

\* Replay of the tail, as the model and as the lemmas write it.
LEMMA ReplayedSame ==
  \A n : Replayed(n) = ReplayedOf(disk, tail, n)
BY DEF Replayed, Records, ReplayedOf, RecordsOf

\* The flusher writes a part of the tail.
LEMMA FlushTree ==
  ASSUME TreeInv, NEW n \in 1..Len(tail), Flush(n)
  PROVE  TreeInv'
<1>1. MetaInv'
  BY FlushStep DEF TreeInv
<1>2. PICK d2 : d2 = disk'
  OBVIOUS
<1>3. PICK t2 : t2 = tail'
  OBVIOUS
<1>4. /\ d2 = ReplayedOf(disk, tail, n) /\ t2 = SubSeq(tail, n + 1, Len(tail))
      /\ UNCHANGED <<st, call, served>>
  BY <1>2, <1>3, ReplayedSame DEF Flush
<1>5. Tree(st, disk, tail, call, served) /\ IsSeq(tail) /\ LogInv(st, disk, tail)
  BY TreeFact DEF Tree
<1>6. LogInv(st, d2, t2)
  BY <1>4, <1>5, LogFlush
<1>7. Tree(st, d2, t2, call, served)
  BY <1>5, <1>6 DEF Tree
<1> QED
  BY <1>1, <1>2, <1>3, <1>4, <1>7 DEF TreeInv

\* A checkpoint has no counts and nothing pending, like replay.
LEMMA CheckpointTree ==
  ASSUME TreeInv, Checkpoint
  PROVE  TreeInv'
<1>1. MetaInv'
  BY CheckpointStep DEF TreeInv
<1>2. PICK d2 : d2 = disk'
  OBVIOUS
<1>3. d2 = Load(ToCheckpoint(st)) /\ tail' = <<>> /\ UNCHANGED <<st, call, served>>
  BY <1>2 DEF Checkpoint
<1>4. /\ Tree(st, disk, tail, call, served) /\ Sane(st) /\ Shape(st.files) /\ UsedInv(st)
  BY TreeFact
<1>5. Recovers(d2, st)
  BY <1>3, <1>4, LoadRecovers
<1>6. Whole(d2)
  BY <1>4, <1>5 DEF Whole, Recovers, UsedInv
<1>7. LogInv(st, d2, <<>>)
  BY <1>5, <1>6, LogEmpty
<1>8. Tree(st, d2, <<>>, call, served)
  BY <1>4, <1>7 DEF Tree
<1> QED
  BY <1>1, <1>2, <1>3, <1>8 DEF TreeInv

\* When the master starts, no call is in progress and nothing is pending.
LEMMA StartTree ==
  ASSUME NEW s, NEW d, NEW sv, NEW cl, cl = [c \in Call |-> Idle], Whole(d), Recovers(d, s),
         Counted(s), NonePending(s)
  PROVE  Tree(s, d, <<>>, cl, sv)
<1>1. \A c \in Call : cl[c] = Idle
  OBVIOUS
<1>2. LogInv(s, d, <<>>)
  BY LogEmpty
<1>3. Shape(s.files)
  BY DEF Whole, Recovers
<1>4. WriteLocks(Idle) = {} /\ Locks(Idle) = {}
  <2>1. Idle.op = "none"
    BY DEF Idle
  <2> QED
    BY <2>1, LocksOf
<1>5. Apart(cl)
  BY <1>1, <1>4 DEF Apart, Conflict
<1>6. \A c \in Call : CheckOK(cl[c], s.files) /\ ~Holds(cl[c])
  BY <1>1, IdleOK
<1>7. PendingInv(s, cl, sv)
  BY <1>6 DEF PendingInv, NonePending
<1> QED
  BY <1>2, <1>3, <1>5, <1>6, <1>7 DEF Tree

\* Recovery counts the references again, wherever the tail is cut.
LEMMA CrashTree ==
  ASSUME TreeInv, NEW n \in 0..Len(tail), Crash(n)
  PROVE  TreeInv'
<1>1. MetaInv'
  BY CrashStep DEF TreeInv
<1>2. PICK d2 : d2 = disk'
  OBVIOUS
<1>3. PICK s2 : s2 = st'
  OBVIOUS
<1>4. PICK cl2 : cl2 = call'
  OBVIOUS
<1>5. /\ d2 = ReplayedOf(disk, tail, n) /\ s2 = RecomputeRefcounts(d2) /\ tail' = <<>>
      /\ cl2 = [c \in Call |-> Idle] /\ UNCHANGED served
  BY <1>2, <1>3, <1>4, ReplayedSame DEF Crash
<1>6. DiskInv(st, disk, tail) /\ LogInv(st, disk, tail) /\ IsSeq(tail)
  BY DEF TreeInv, MetaInv, World, Tree, DiskInv
<1>7. n \in Nat /\ n <= Len(tail)
  BY <1>6, SeqFact
<1>8. Sane(d2) /\ NonePending(d2)
  BY <1>5, <1>6, <1>7, ReplayedSane
<1>9. Whole(d2)
  BY <1>5, <1>6, <1>7 DEF LogInv
<1>10. Counted(s2) /\ Recovers(d2, s2) /\ NonePending(s2)
  BY <1>5, <1>8, <1>9, RecomputeEffect
<1>11. Tree(s2, d2, <<>>, cl2, served)
  BY <1>5, <1>9, <1>10, StartTree
<1> QED
  BY <1>1, <1>2, <1>3, <1>4, <1>5, <1>11 DEF TreeInv

-----------------------------------------------------------------------------
(* The invariant is inductive.                                             *)

\* A master without a log begins in the invariant.
LEMMA InitTree == Init => TreeInv
<1> SUFFICES ASSUME Init PROVE TreeInv
  OBVIOUS
<1>1. PICK fs : fs = [p \in {} |-> <<>>]
  OBVIOUS
<1>2. PICK cs : cs = [h \in {} |-> NewChunk(1)]
  OBVIOUS
<1>3. st = [files |-> fs, chunks |-> cs, next |-> 1] /\ disk = st
  BY <1>1, <1>2 DEF Init, EmptyState
<1>4. DOMAIN fs = {} /\ DOMAIN cs = {}
  BY <1>1, <1>2
<1>5. st.files = fs /\ st.chunks = cs
  BY <1>3
<1>6. Counted(st) /\ NonePending(st)
  BY <1>4, <1>5 DEF Counted, NonePending
<1>7. Recovers(disk, st)
  BY <1>3, <1>4, <1>5 DEF Recovers
<1>8. Whole(disk)
  BY <1>3, <1>4, <1>5 DEF Whole, Shape, Used
<1>9. tail = <<>> /\ call = [c \in Call |-> Idle]
  BY DEF Init
<1>10. Tree(st, disk, <<>>, call, served)
  BY <1>6, <1>7, <1>8, <1>9, StartTree
<1> QED
  BY <1>9, <1>10, InitInv DEF TreeInv

\* Every step keeps the invariant.
LEMMA NextTree ==
  ASSUME PlainTargets
  PROVE  TreeInv /\ [Next]_vars => TreeInv'
<1> SUFFICES ASSUME TreeInv, [Next]_vars PROVE TreeInv'
  OBVIOUS
<1>1. ASSUME NEW c \in Call, NamespaceNext(c) PROVE TreeInv'
  BY <1>1, CreateTree, RemoveFileTree, CheckTwoPathsTree, RenameTree, SnapshotTree, ReturnTree
     DEF NamespaceNext
<1>2. ASSUME NEW c \in Call, ChunkNext(c) PROVE TreeInv'
  BY <1>2, AddChunkTree, FindLeaseHolderTree, AllocHandleTree, CreateChunkOnTree,
     CreateFailedTree, AddChunkFinishTree, CopyOnWriteTree, CopyOnWriteFinishTree,
     CopyOnWriteReturnTree
     DEF ChunkNext
<1>3. ASSUME NEW c \in Call, GrantNext(c) PROVE TreeInv'
  BY <1>3, RegrantTree, PrepareGrantTree, ReplicaUpdatedTree, GrantFinishTree, GrantNothingTree
     DEF GrantNext
<1>4. ASSUME NEW h \in Handle, HeartBeat(h) PROVE TreeInv'
  BY <1>4, HeartBeatTree
<1>5. CASE GcNext
  BY <1>5, GcPassTree, GcRemoveTree, GcDropOrphansTree, GcReturnTree DEF GcNext
<1>6. CASE DiskNext
  BY <1>6, FlushTree, CheckpointTree, CrashTree DEF DiskNext
<1>7. CASE UNCHANGED vars
  BY <1>7 DEF vars, TreeInv, MetaInv, OtherInv
<1> QED
  BY <1>1, <1>2, <1>3, <1>4, <1>5, <1>6, <1>7 DEF Next

\* Handlers, the collector, the flusher and Recover keep TreeInv.
THEOREM TreeInvariance ==
  ASSUME PlainTargets
  PROVE  Spec => []TreeInv
<1>1. TreeInv /\ [Next]_vars => TreeInv'
  BY NextTree
<1> QED
  BY <1>1, InitTree, PTL DEF Spec

-----------------------------------------------------------------------------
(* What follows from it.                                                   *)

\* If no request names a hidden name as a target (PlainTargets; the code does not
\* refuse one).  Master::Create, Rename, Snapshot and Remove, with PathLocks: no
\* file is made inside a file, however handlers interleave and whatever recovery
\* replays.
THEOREM NoFileInFile ==
  ASSUME PlainTargets
  PROVE  Spec => []TreeShape
<1>1. TreeInv => TreeShape
  BY ShapeTree DEF TreeInv, Tree, TreeShape
<1> QED
  BY <1>1, TreeInvariance, PTL

\* If no request names a hidden name as a target (with one, Rename overwrites a
\* file that Remove has hidden).  MasterState's Apply functions: the counts that
\* they keep one by one are the numbers of references that the files have.
THEOREM CountsAreExact ==
  ASSUME PlainTargets
  PROVE  Spec => []RefcountExact
<1>1. TreeInv => RefcountExact
  BY DEF TreeInv, Tree, Counted, RefcountExact
<1> QED
  BY <1>1, TreeInvariance, PTL

\* If no request names a hidden name as a target (Remove does not lock the name
\* that it makes).  Master::Rename, Snapshot, AddChunk and CopyOnWrite give up the
\* state mutex between their checks and their change: their path locks keep the
\* checks true.
THEOREM ChecksHold ==
  ASSUME PlainTargets
  PROVE  Spec => []ChecksStillHold
<1>1. ASSUME TreeInv, NEW c \in Call
      PROVE  /\ CheckOK(call[c], st.files)
             /\ Making(call[c]) => call[c].handle \in DOMAIN st.chunks
                                   /\ st.chunks[call[c].handle].pending
  BY <1>1 DEF TreeInv, Tree, MetaInv, World, CallInv, CallOK
<1>2. TreeInv => ChecksStillHold
  <2> SUFFICES ASSUME TreeInv, NEW c \in Call, NEW k, k = call[c]
               PROVE  /\ k.pc \in {"rename", "snapshot"} =>
                           /\ Exists(st.files, k.path) \/ IsDirectory(st.files, k.path)
                           /\ Free(k.target)
                      /\ k.op = "add" /\ k.pc \in {"alloc", "create", "created"} =>
                           Exists(st.files, k.path) /\ k.index = Len(st.files[k.path])
                      /\ k.pc \in {"create", "created"} =>
                           k.handle \in DOMAIN st.chunks /\ st.chunks[k.handle].pending
    BY DEF ChecksStillHold
  <2>1. CheckOK(k, st.files)
    BY <1>1
  <2>2. k.pc \in {"rename", "snapshot"} => Present(st.files, k.path) /\ FreeIn(st.files, k.target)
    BY <2>1 DEF CheckOK, TwoPathsOK
  <2>3. k.op = "add" /\ k.pc \in {"alloc", "create", "created"} =>
          k.path \in DOMAIN st.files /\ k.index = Len(st.files[k.path])
    BY <2>1 DEF CheckOK, AddOK
  <2>4. k.pc \in {"create", "created"} =>
          k.handle \in DOMAIN st.chunks /\ st.chunks[k.handle].pending
    BY <1>1 DEF Making
  <2> QED
    BY <2>2, <2>3, <2>4 DEF Present, FreeIn, Free, Exists
<1> QED
  BY <1>2, TreeInvariance, PTL

\* A chunk that is in one place only has at most one reference.
LEMMA OnePlace ==
  ASSUME NEW fs, IsFiles(fs), NEW h, NEW path, NEW index, OnlyAt(fs, h, path, index)
  PROVE  References(fs, DOMAIN fs, h) <= 1
<1>1. PICK T : T = Referring(fs, DOMAIN fs, h)
  OBVIOUS
<1>2. PICK x : x = <<path, index + 1>>
  OBVIOUS
<1>3. T \subseteq {x}
  BY <1>1, <1>2 DEF Referring, OnlyAt
<1>4. IsFiniteSet({x}) /\ Cardinality({x}) = 1
  BY FS_Singleton
<1>5. Cardinality(T) <= Cardinality({x})
  BY <1>3, <1>4, FS_Subset
<1>6. References(fs, DOMAIN fs, h) = Cardinality(T)
  BY <1>1, ReferencesFinite
<1> QED
  BY <1>4, <1>5, <1>6

\* If no request names a hidden name as a target, so that counts are right.
\* FindLeaseHolder and CopyOnWrite: the chunk whose lease is granted is in no
\* second file, even if Snapshot, Rename, Remove or another copy came between.
THEOREM LeaseIsNotShared ==
  ASSUME PlainTargets
  PROVE  Spec => []LeaseNotShared
<1>1. TreeInv => LeaseNotShared
  <2> SUFFICES ASSUME TreeInv, NEW c \in Call, call[c].op = "lease",
                      call[c].pc \in {"grant", "round"}
               PROVE  References(st.files, DOMAIN st.files, call[c].handle) <= 1
    BY DEF LeaseNotShared
  <2>1. CheckOK(call[c], st.files) /\ IsFiles(st.files)
    BY TreeFact
  <2>2. OnlyAt(st.files, call[c].handle, call[c].path, call[c].index)
    BY <2>1 DEF CheckOK, LeaseOK
  <2> QED
    BY <2>1, <2>2, OnePlace
<1> QED
  BY <1>1, TreeInvariance, PTL

\* A chunk that replay made, once it is counted.
LEMMA SameChunk ==
  ASSUME NEW a \in Chunk, NEW b \in Chunk, a.version = b.version, a.pending = b.pending,
         NEW n, b.refcount = n
  PROVE  [a EXCEPT !.refcount = n] = b
<1>1. a = [version |-> a.version, refcount |-> a.refcount, pending |-> a.pending]
  BY DEF Chunk
<1>2. b = [version |-> b.version, refcount |-> b.refcount, pending |-> b.pending]
  BY DEF Chunk
<1>3. [a EXCEPT !.refcount = n] = [version |-> a.version, refcount |-> n, pending |-> a.pending]
  BY <1>1
<1> QED
  BY <1>2, <1>3

\* State s without the chunks that are pending.
Settled(s) ==
  [files |-> s.files,
   chunks |-> [h \in {g \in DOMAIN s.chunks : ~s.chunks[g].pending} |-> s.chunks[h]],
   next |-> s.next]

\* What a state is without the chunks that are pending.
LEMMA SettledIs ==
  ASSUME NEW s, Sane(s), NEW s2,
         s2 = [s EXCEPT !.chunks = [h \in {g \in DOMAIN @ : ~@[g].pending} |-> @[h]]]
  PROVE  s2 = Settled(s)
<1>1. PICK cs : cs = [h \in {g \in DOMAIN s.chunks : ~s.chunks[g].pending} |-> s.chunks[h]]
  OBVIOUS
<1>2. s2 = [s EXCEPT !.chunks = cs]
  BY <1>1
<1>3. s = [files |-> s.files, chunks |-> s.chunks, next |-> s.next]
  BY DEF Sane
<1> QED
  BY <1>1, <1>2, <1>3 DEF Settled

\* Recovery from a state that stands for memory comes to what memory has.
LEMMA RecoveredIs ==
  ASSUME NEW s, Sane(s), Counted(s), UsedInv(s), NEW u, Sane(u), NonePending(u), Recovers(u, s),
         NEW t, t = RecomputeRefcounts(u)
  PROVE  t = Settled(s)
<1>1. /\ Sane(t) /\ NonePending(t) /\ t.files = u.files /\ t.next = u.next
      /\ DOMAIN t.chunks = DOMAIN u.chunks \cup Used(u.files)
      /\ \A h \in DOMAIN t.chunks :
           t.chunks[h] = [(IF h \in DOMAIN u.chunks THEN u.chunks[h] ELSE NewChunk(1))
                            EXCEPT !.refcount = References(u.files, DOMAIN u.files, h)]
  BY RecomputeFact
<1>2. PICK D : D = {g \in DOMAIN s.chunks : ~s.chunks[g].pending}
  OBVIOUS
<1>3. u.files = s.files /\ u.next = s.next /\ DOMAIN u.chunks = D
  BY <1>2 DEF Recovers
<1>4. DOMAIN t.chunks = D
  BY <1>1, <1>2, <1>3 DEF UsedInv
<1>5. ASSUME NEW h \in D PROVE t.chunks[h] = s.chunks[h]
  <2>1. h \in DOMAIN u.chunks /\ h \in DOMAIN s.chunks /\ h \in DOMAIN t.chunks
    BY <1>2, <1>3, <1>4
  <2>2. PICK a : a = u.chunks[h]
    OBVIOUS
  <2>3. PICK b : b = s.chunks[h]
    OBVIOUS
  <2>4. PICK n : n = References(s.files, DOMAIN s.files, h)
    OBVIOUS
  <2>5. a \in Chunk /\ b \in Chunk
    BY <2>1, <2>2, <2>3 DEF Sane, IsChunks
  <2>6. a.version = b.version /\ b.refcount = n
    BY <2>1, <2>2, <2>3, <2>4 DEF Recovers, Counted
  <2>7. ~a.pending /\ ~b.pending
    BY <1>2, <2>1, <2>2, <2>3 DEF NonePending
  <2>8. a.pending \in BOOLEAN /\ b.pending \in BOOLEAN
    BY <2>5 DEF Chunk
  <2>9. a.pending = b.pending
    BY <2>7, <2>8
  <2>10. t.chunks[h] = [a EXCEPT !.refcount = n]
    BY <1>1, <1>3, <2>1, <2>2, <2>4
  <2>11. [a EXCEPT !.refcount = n] = b
    BY <2>5, <2>6, <2>9, SameChunk
  <2> QED
    BY <2>3, <2>10, <2>11
<1>6. t.chunks = [h \in DOMAIN t.chunks |-> t.chunks[h]]
  BY <1>1 DEF Sane, IsChunks
<1>7. t.chunks = [h \in D |-> s.chunks[h]]
  BY <1>4, <1>5, <1>6
<1>8. t = [files |-> t.files, chunks |-> t.chunks, next |-> t.next]
  BY <1>1 DEF Sane
<1>9. t = [files |-> s.files, chunks |-> [h \in D |-> s.chunks[h]], next |-> s.next]
  BY <1>1, <1>3, <1>7, <1>8
<1> QED
  BY <1>2, <1>9 DEF Settled

\* If no request names a hidden name as a target, so that memory counts right.
\* Master::Recover: if the process died now and nothing of the log was lost, the
\* next one would have the same files, chunks, versions, counts and next handle.
THEOREM ReplayIsExact ==
  ASSUME PlainTargets
  PROVE  Spec => []ReplayExact
<1>1. TreeInv => ReplayExact
  <2> SUFFICES ASSUME TreeInv PROVE ReplayExact
    OBVIOUS
  <2>1. PICK u : u = ReplayedOf(disk, tail, Len(tail))
    OBVIOUS
  <2>2. /\ Sane(st) /\ Sane(u) /\ Recovers(u, st) /\ Counted(st) /\ UsedInv(st) /\ IsSeq(tail)
    BY <2>1, TreeFact
  <2>3. NonePending(u)
    <3>1. DiskInv(st, disk, tail)
      BY DEF TreeInv, MetaInv, World
    <3>2. Len(tail) \in Nat /\ Len(tail) <= Len(tail)
      BY <2>2, SeqFact
    <3> QED
      BY <2>1, <3>1, <3>2, ReplayedSane
  <2>4. PICK t : t = RecomputeRefcounts(Replayed(Len(tail)))
    OBVIOUS
  <2>5. t = RecomputeRefcounts(u)
    BY <2>1, <2>4, ReplayedSame
  <2>6. PICK s2 : s2 = [st EXCEPT !.chunks = [h \in {g \in DOMAIN @ : ~@[g].pending} |-> @[h]]]
    OBVIOUS
  <2>7. s2 = t
    BY <2>2, <2>3, <2>5, <2>6, SettledIs, RecoveredIs
  <2> QED
    BY <2>4, <2>6, <2>7 DEF ReplayExact
<1> QED
  BY <1>1, TreeInvariance, PTL
=============================================================================
