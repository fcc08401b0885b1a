------------------------- MODULE MetadataProofs -------------------------
(***************************************************************************)
(* Proofs about Metadata for every set of calls, paths and times, and      *)
(* every bound.                                                            *)
(*                                                                         *)
(* The argument.  Each Apply function brings into the table, and into      *)
(* files, only the chunk its record names, and only as a complete one      *)
(* (Applied); so any replay of records leads from a sane state to a sane   *)
(* one, and moves next no further than the handles in the records          *)
(* (Follows).  The invariant then says, of memory, of the disk and of the  *)
(* records between them, that                                              *)
(*   - a chunk that is not pending, and a handle that a chunkserver was    *)
(*     told of, is below next on disk, so that no crash and no checkpoint  *)
(*     can make Recover allocate it again (FreshInv);                      *)
(*   - the handle that a call has allocated is in the log, in the tail or  *)
(*     on disk, and its chunk is pending and no other call's (CallInv);    *)
(*   - files refer to chunks that are in the table and not pending         *)
(*     (UsedInv).                                                          *)
(* Without the second part a failed creation could erase a chunk that a    *)
(* file has; without the first a crash could bring a handle back.          *)
(***************************************************************************)
EXTENDS Metadata, FiniteSetTheorems, SequenceTheorems, WellFoundedInduction, TLAPS

-----------------------------------------------------------------------------
(* Sequences and paths.                                                    *)

\* A sequence, of anything.
IsSeq(p) == p \in Seq(Range(p))

\* A sequence over any set is one over its own elements.
LEMMA SeqIsSeq ==
  ASSUME NEW S, NEW p \in Seq(S)
  PROVE  IsSeq(p)
BY SeqOfRange DEF IsSeq

\* HiddenNameFor makes a path of a path.
LEMMA HiddenSeq ==
  ASSUME NEW p, IsSeq(p), NEW stamp
  PROVE  IsSeq(HiddenNameFor(p, stamp))
<1>1. PICK x : x = Append(Last(p), stamp)
  OBVIOUS
<1> DEFINE S == Range(p) \cup {x}
<1>2. p \in Seq(S) /\ x \in S
  BY SeqMonotonic DEF IsSeq
<1>3. Len(p) \in Nat
  BY LenProperties DEF IsSeq
<1> HIDE DEF S
<1>4. Front(p) \in Seq(S)
  <2>1. \A i \in 1..(Len(p) - 1) : p[i] \in S
    BY <1>2, <1>3
  <2>2. 1 \in Int /\ Len(p) - 1 \in Int
    BY <1>3
  <2> QED
    BY <2>1, <2>2, SubSeqProperties DEF Front
<1>5. Append(Front(p), x) \in Seq(S)
  BY <1>2, <1>4, AppendProperties
<1> QED
  BY <1>1, <1>5, SeqIsSeq DEF HiddenNameFor

\* What is moved from source to target is below target, and moves back.
LEMMA MovedBack ==
  ASSUME NEW p, IsSeq(p), NEW source, IsSeq(source), NEW target, IsSeq(target),
         IsPrefix(source, p)
  PROVE  /\ IsSeq(Moved(p, source, target))
         /\ Moved(Moved(p, source, target), target, source) = p
         /\ IsPrefix(target, Moved(p, source, target))
<1> DEFINE S == Range(p) \cup Range(source) \cup Range(target)
<1>1. p \in Seq(S) /\ source \in Seq(S) /\ target \in Seq(S)
  BY SeqMonotonic DEF IsSeq
<1> HIDE DEF S
<1>2. /\ Len(p) \in Nat /\ Len(source) \in Nat /\ Len(target) \in Nat
      /\ Len(source) <= Len(p) /\ SubSeq(source, 1, Len(source)) = SubSeq(p, 1, Len(source))
  BY <1>1, LenProperties DEF IsPrefix
<1>3. source = SubSeq(p, 1, Len(source))
  BY <1>1, <1>2, SubSeqFull
<1>4. PICK u : u = SubSeq(p, Len(source) + 1, Len(p))
  OBVIOUS
<1>5. u \in Seq(S) /\ Len(u) = Len(p) - Len(source)
  <2>1. \A i \in (Len(source) + 1)..Len(p) : p[i] \in S
    BY <1>1, <1>2
  <2>2. Len(source) + 1 \in Int /\ Len(p) \in Int
    BY <1>2
  <2>3. u \in Seq(S) /\ Len(u) = IF Len(source) + 1 <= Len(p) THEN Len(p) - (Len(source) + 1) + 1 ELSE 0
    BY <1>4, <2>1, <2>2, SubSeqProperties
  <2> QED
    BY <1>2, <2>3
<1>6. source \o u = p
  <2>1. 1 \in 1..(Len(p) + 1) /\ Len(source) \in (1 - 1)..Len(p) /\ Len(p) \in Len(source)..Len(p)
    BY <1>2
  <2>2. SubSeq(p, 1, Len(source)) \o SubSeq(p, Len(source) + 1, Len(p)) = SubSeq(p, 1, Len(p))
    BY <1>1, <2>1, ConcatAdjacentSubSeq
  <2> QED
    BY <1>1, <1>3, <1>4, <2>2, SubSeqFull
<1>7. PICK m : m = target \o u
  OBVIOUS
<1>8. /\ m \in Seq(S) /\ Len(m) = Len(target) + Len(u) /\ Len(u) \in Nat
      /\ \A i \in 1..(Len(target) + Len(u)) :
            m[i] = IF i <= Len(target) THEN target[i] ELSE u[i - Len(target)]
  BY <1>1, <1>5, <1>7, ConcatProperties, LenProperties
<1>9. SubSeq(m, Len(target) + 1, Len(m)) = u
  <2>1. \A i \in (Len(target) + 1)..Len(m) : m[i] \in S
    BY <1>2, <1>8
  <2>2. PICK v : v = SubSeq(m, Len(target) + 1, Len(m))
    OBVIOUS
  <2>3. /\ v \in Seq(S)
        /\ Len(v) = IF Len(target) + 1 <= Len(m) THEN Len(m) - (Len(target) + 1) + 1 ELSE 0
        /\ \A i \in 1..(Len(m) - (Len(target) + 1) + 1) : v[i] = m[(Len(target) + 1) + i - 1]
    <3>1. Len(target) + 1 \in Int /\ Len(m) \in Int
      BY <1>2, <1>8
    <3> QED
      BY <2>1, <2>2, <3>1, SubSeqProperties
  <2>4. Len(v) = Len(u)
    BY <1>2, <1>8, <2>3
  <2>5. ASSUME NEW i \in 1..Len(v) PROVE v[i] = u[i]
    <3>1. /\ i \in 1..(Len(m) - (Len(target) + 1) + 1)
          /\ (Len(target) + 1) + i - 1 = Len(target) + i
          /\ Len(target) + i \in 1..(Len(target) + Len(u))
          /\ ~(Len(target) + i <= Len(target)) /\ Len(target) + i - Len(target) = i
      BY <1>2, <1>8, <2>4
    <3> QED
      BY <1>8, <2>3, <3>1
  <2> QED
    BY <1>5, <2>2, <2>3, <2>4, <2>5, SeqEqual
<1>10. SubSeq(target, 1, Len(target)) = SubSeq(m, 1, Len(target))
  <2>1. PICK v : v = SubSeq(m, 1, Len(target))
    OBVIOUS
  <2>2. /\ v \in Seq(S) /\ Len(v) = IF 1 <= Len(target) THEN Len(target) - 1 + 1 ELSE 0
        /\ \A i \in 1..(Len(target) - 1 + 1) : v[i] = m[1 + i - 1]
    <3>1. \A i \in 1..Len(target) : m[i] \in S
      BY <1>2, <1>8
    <3> QED
      BY <1>2, <2>1, <3>1, SubSeqProperties
  <2>3. Len(v) = Len(target)
    BY <1>2, <2>2
  <2>4. ASSUME NEW i \in 1..Len(v) PROVE v[i] = target[i]
    <3>1. /\ i \in 1..(Len(target) - 1 + 1) /\ 1 + i - 1 = i /\ i <= Len(target)
          /\ i \in 1..(Len(target) + Len(u))
      BY <1>2, <1>8, <2>3
    <3> QED
      BY <1>8, <2>2, <3>1
  <2>5. v = target
    BY <1>1, <2>2, <2>3, <2>4, SeqEqual
  <2> QED
    BY <1>1, <2>1, <2>5, SubSeqFull
<1>11. Moved(p, source, target) = m
  BY <1>4, <1>7 DEF Moved
<1>12. Moved(m, target, source) = p
  BY <1>6, <1>9 DEF Moved
<1>13. IsPrefix(target, m)
  BY <1>2, <1>8, <1>10 DEF IsPrefix
<1> QED
  BY <1>8, <1>11, <1>12, <1>13, SeqIsSeq
-----------------------------------------------------------------------------
(* Files and chunks.                                                       *)

\* The files of a state: finitely many paths, each with the handles of its chunks.
IsFiles(fs) ==
  /\ fs = [p \in DOMAIN fs |-> fs[p]] /\ IsFiniteSet(DOMAIN fs)
  /\ \A p \in DOMAIN fs : IsSeq(p) /\ fs[p] \in Seq(Handle)

\* The chunks that files refer to.
Used(fs) == UNION {Range(fs[p]) : p \in DOMAIN fs}

\* The chunk table of a state.
IsChunks(cs) == cs \in [DOMAIN cs -> Chunk] /\ DOMAIN cs \subseteq Handle

\* A state of the master that log records add up to: handles are below next.
Sane(s) ==
  /\ s = [files |-> s.files, chunks |-> s.chunks, next |-> s.next]
  /\ IsFiles(s.files) /\ IsChunks(s.chunks) /\ s.next \in 1..(MaxHandle + 1)
  /\ \A h \in Used(s.files) \cup DOMAIN s.chunks : h < s.next

\* Handles are numbers from 1.
LEMMA HandleNat == Handle \subseteq Nat /\ MaxHandle \in Nat /\ 0 \notin Handle /\ 1 \in 1..MaxVersion
BY MetadataAssumption DEF Handle

\* Files refer to handles.
LEMMA UsedHandles ==
  ASSUME NEW fs, IsFiles(fs)
  PROVE  Used(fs) \subseteq Handle
<1>1. ASSUME NEW p \in DOMAIN fs PROVE Range(fs[p]) \subseteq Handle
  <2>1. fs[p] \in Seq(Handle)
    BY DEF IsFiles
  <2> QED
    BY <2>1, RangeOfSeq
<1> QED
  BY <1>1 DEF Used

\* A set that a function makes of a finite set is finite.
LEMMA ImageFinite ==
  ASSUME NEW f, IsFiniteSet(DOMAIN f)
  PROVE  IsFiniteSet({f[x] : x \in DOMAIN f})
<1> DEFINE T == {f[x] : x \in DOMAIN f}
           g == [x \in DOMAIN f |-> f[x]]
<1>1. g \in Surjection(DOMAIN f, T)
  BY DEF Surjection
<1> HIDE DEF T, g
<1> QED
  BY <1>1, FS_Surjection DEF T

\* Where the files ps refer to chunk h.
Referring(fs, ps, h) ==
  {x \in UNION {{p} \X DOMAIN fs[p] : p \in ps} : fs[x[1]][x[2]] = h}

\* The references that files make are finitely many.
LEMMA ReferencesFinite ==
  ASSUME NEW fs, IsFiles(fs), NEW ps, ps \subseteq DOMAIN fs, NEW h
  PROVE  IsFiniteSet(Referring(fs, ps, h)) /\ References(fs, ps, h) = Cardinality(Referring(fs, ps, h))
<1> DEFINE f == [p \in ps |-> {p} \X DOMAIN fs[p]]
           S == UNION {{p} \X DOMAIN fs[p] : p \in ps}
           T == {x \in S : fs[x[1]][x[2]] = h}
<1>1. IsFiniteSet(DOMAIN f)
  <2>1. IsFiniteSet(ps)
    BY FS_Subset DEF IsFiles
  <2> QED
    BY <2>1
<1>2. IsFiniteSet({f[p] : p \in DOMAIN f})
  <2> HIDE DEF f
  <2> QED
    BY <1>1, ImageFinite
<1>3. {f[p] : p \in DOMAIN f} = {{p} \X DOMAIN fs[p] : p \in ps}
  OBVIOUS
<1>4. ASSUME NEW p \in ps PROVE IsFiniteSet({p} \X DOMAIN fs[p])
  <2>1. fs[p] \in Seq(Handle)
    BY DEF IsFiles
  <2>2. DOMAIN fs[p] = 1..Len(fs[p]) /\ Len(fs[p]) \in Nat
    BY <2>1, LenProperties
  <2>3. IsFiniteSet(DOMAIN fs[p])
    BY <2>2, FS_Interval
  <2> QED
    BY <2>3, FS_Singleton, FS_Product
<1>5. IsFiniteSet(S)
  <2>1. IsFiniteSet({{p} \X DOMAIN fs[p] : p \in ps})
    BY <1>2, <1>3
  <2>2. \A Q \in {{p} \X DOMAIN fs[p] : p \in ps} : IsFiniteSet(Q)
    BY <1>4
  <2> QED
    BY <2>1, <2>2, FS_UNION
<1>6. T \in SUBSET S
  OBVIOUS
<1> HIDE DEF S, T
<1>7. IsFiniteSet(T)
  BY <1>5, <1>6, FS_Subset
<1>8. T = Referring(fs, ps, h)
  BY DEF T, S, Referring
<1>9. References(fs, ps, h) = Cardinality(T)
  BY DEF T, S, References
<1> QED
  BY <1>7, <1>8, <1>9

\* ChunkTable counts a finite number of references.
LEMMA ReferencesNat ==
  ASSUME NEW fs, IsFiles(fs), NEW ps, ps \subseteq DOMAIN fs, NEW h
  PROVE  References(fs, ps, h) \in Nat
BY ReferencesFinite, FS_CardinalityType

\* A chunk without references is in no file.
LEMMA Unreferenced ==
  ASSUME NEW fs, IsFiles(fs), NEW h, References(fs, DOMAIN fs, h) = 0
  PROVE  h \notin Used(fs)
<1> DEFINE ps == DOMAIN fs
           T == Referring(fs, ps, h)
<1>1. IsFiniteSet(T) /\ Cardinality(T) = 0
  BY ReferencesFinite
<1>2. T = {}
  <2> HIDE DEF T
  <2> QED
    BY <1>1, FS_EmptySet
<1>3. ASSUME NEW p \in ps, NEW i \in DOMAIN fs[p] PROVE fs[p][i] # h
  <2>1. <<p, i>> \in {p} \X DOMAIN fs[p]
    OBVIOUS
  <2>2. <<p, i>> \in UNION {{q} \X DOMAIN fs[q] : q \in ps}
    BY <2>1
  <2>3. <<p, i>> \notin T
    BY <1>2
  <2> QED
    BY <2>2, <2>3 DEF Referring
<1> QED
  BY <1>3 DEF Used, Range

\* Dropping references changes the count only.
LEMMA DroppedFact ==
  ASSUME NEW c \in Chunk, NEW n \in Nat
  PROVE  /\ Dropped(c, n) \in Chunk /\ Dropped(c, n).pending = c.pending
         /\ Dropped(c, n).version = c.version
         /\ Dropped(c, n).refcount = IF n > c.refcount THEN 0 ELSE c.refcount - n
BY DEF Chunk, Dropped

\* A snapshot's references change the count only.
LEMMA SharedFact ==
  ASSUME NEW c \in Chunk, NEW n \in Nat
  PROVE  /\ Shared(c, n) \in Chunk /\ Shared(c, n).pending = c.pending
         /\ Shared(c, n).version = c.version /\ Shared(c, n).refcount = c.refcount + n
BY DEF Chunk, Shared

\* ChunkTable::Create adds a chunk, or returns the one that is there.
LEMMA CreateFact ==
  ASSUME NEW cs, IsChunks(cs), NEW h \in Handle
  PROVE  LET ds == ChunkCreate(cs, h, 1) IN
         /\ IsChunks(ds) /\ DOMAIN ds = DOMAIN cs \cup {h}
         /\ \A g \in DOMAIN cs : ds[g] = cs[g]
         /\ h \notin DOMAIN cs => ds[h] = NewChunk(1)
<1>1. NewChunk(1) \in Chunk
  BY HandleNat DEF NewChunk, Chunk
<1>2. PICK ds : ds = ChunkCreate(cs, h, 1)
  OBVIOUS
<1>3. CASE h \in DOMAIN cs
  <2>1. ds = cs
    BY <1>2, <1>3 DEF ChunkCreate
  <2> QED
    BY <1>2, <1>3, <2>1
<1>4. CASE h \notin DOMAIN cs
  <2>1. ds = [g \in DOMAIN cs \cup {h} |-> IF g = h THEN NewChunk(1) ELSE cs[g]]
    BY <1>2, <1>4 DEF ChunkCreate
  <2>2. /\ DOMAIN ds = DOMAIN cs \cup {h} /\ ds[h] = NewChunk(1)
        /\ \A g \in DOMAIN cs : ds[g] = cs[g]
    BY <1>4, <2>1
  <2>3. IsChunks(ds)
    <3>1. \A g \in DOMAIN ds : ds[g] \in Chunk
      BY <1>1, <2>2 DEF IsChunks
    <3>2. ds = [g \in DOMAIN ds |-> ds[g]]
      BY <2>1
    <3> QED
      BY <2>2, <3>1, <3>2 DEF IsChunks
  <2> QED
    BY <1>2, <1>4, <2>2, <2>3
<1> QED
  BY <1>3, <1>4

\* A chunk that a file refers to is no longer pending.
LEMMA ReferencedFact ==
  ASSUME NEW cs, IsChunks(cs), NEW h \in Handle
  PROVE  LET ds == Referenced(cs, h) IN
         /\ IsChunks(ds) /\ DOMAIN ds = DOMAIN cs \cup {h}
         /\ \A g \in DOMAIN cs \ {h} : ds[g] = cs[g]
         /\ ds[h] = [version |-> IF h \in DOMAIN cs THEN cs[h].version ELSE 1, pending |-> FALSE,
                     refcount |-> (IF h \in DOMAIN cs THEN cs[h].refcount ELSE 0) + 1]
<1>1. PICK es : es = ChunkCreate(cs, h, 1)
  OBVIOUS
<1>2. /\ IsChunks(es) /\ DOMAIN es = DOMAIN cs \cup {h}
      /\ \A g \in DOMAIN cs : es[g] = cs[g]
      /\ h \notin DOMAIN cs => es[h] = NewChunk(1)
  BY <1>1, CreateFact
<1>3. PICK ds : ds = Referenced(cs, h)
  OBVIOUS
<1>4. ds = [es EXCEPT ![h].pending = FALSE, ![h].refcount = @ + 1]
  BY <1>1, <1>3 DEF Referenced
<1>5. es[h] \in Chunk /\ h \in DOMAIN es
  BY <1>2 DEF IsChunks
<1>6. /\ DOMAIN ds = DOMAIN es /\ \A g \in DOMAIN es \ {h} : ds[g] = es[g]
      /\ ds[h] = [version |-> es[h].version, pending |-> FALSE, refcount |-> es[h].refcount + 1]
  BY <1>4, <1>5 DEF Chunk
<1>7. ds[h] \in Chunk
  BY <1>5, <1>6 DEF Chunk
<1>8. IsChunks(ds)
  <2>1. \A g \in DOMAIN ds : ds[g] \in Chunk
    BY <1>2, <1>6, <1>7 DEF IsChunks
  <2>2. ds = [g \in DOMAIN ds |-> ds[g]]
    BY <1>4
  <2> QED
    BY <1>2, <1>6, <2>1, <2>2 DEF IsChunks
<1>9. es[h].version = (IF h \in DOMAIN cs THEN cs[h].version ELSE 1)
  BY <1>2 DEF NewChunk
<1>10. es[h].refcount = (IF h \in DOMAIN cs THEN cs[h].refcount ELSE 0)
  BY <1>2 DEF NewChunk
<1>11. es[h].refcount \in Nat
  BY <1>5 DEF Chunk
<1>12. ds[h] = [version |-> IF h \in DOMAIN cs THEN cs[h].version ELSE 1, pending |-> FALSE,
                refcount |-> (IF h \in DOMAIN cs THEN cs[h].refcount ELSE 0) + 1]
  BY <1>6, <1>9, <1>10, <1>11
<1> QED
  BY <1>2, <1>3, <1>6, <1>8, <1>12

-----------------------------------------------------------------------------
(* The namespace.                                                          *)

\* The files of a renamed subtree are at the target, the others where they were.
LEMMA RenameFact ==
  ASSUME NEW fs, IsFiles(fs), NEW source, IsSeq(source), NEW target, IsSeq(target)
  PROVE  LET sub == Subtree(fs, source, FALSE)
             moved == {Moved(p, source, target) : p \in sub}
             gs == RenameSubtree(fs, source, target)
         IN  /\ IsFiles(gs) /\ DOMAIN gs = (DOMAIN fs \ sub) \cup moved
             /\ sub = {p \in DOMAIN fs : IsPrefix(source, p)}
             /\ \A p \in sub : gs[Moved(p, source, target)] = fs[p]
             /\ \A p \in (DOMAIN fs \ sub) \ moved : gs[p] = fs[p]
             /\ Used(gs) \subseteq Used(fs)
<1> DEFINE sub == Subtree(fs, source, FALSE)
           moved == {Moved(p, source, target) : p \in sub}
           gs == RenameSubtree(fs, source, target)
<1>1. sub = {p \in DOMAIN fs : IsPrefix(source, p)}
  BY DEF Subtree
<1>2. gs = [q \in (DOMAIN fs \ sub) \cup moved |->
              IF q \in moved THEN fs[Moved(q, target, source)] ELSE fs[q]]
  BY DEF RenameSubtree
<1>3. ASSUME NEW p \in sub
      PROVE  IsSeq(Moved(p, source, target)) /\ Moved(Moved(p, source, target), target, source) = p
  <2>1. IsSeq(p) /\ IsPrefix(source, p)
    BY <1>1 DEF IsFiles
  <2> QED
    BY <2>1, MovedBack
<1> HIDE DEF sub, gs
<1>4. \A p \in sub : gs[Moved(p, source, target)] = fs[p] /\ p \in DOMAIN fs
  BY <1>1, <1>2, <1>3
<1>5. \A p \in (DOMAIN fs \ sub) \ moved : gs[p] = fs[p]
  BY <1>2
<1>6. DOMAIN gs = (DOMAIN fs \ sub) \cup moved /\ gs = [q \in DOMAIN gs |-> gs[q]]
  BY <1>2
<1>7. ASSUME NEW q \in DOMAIN gs PROVE IsSeq(q) /\ \E p \in DOMAIN fs : gs[q] = fs[p]
  <2>1. CASE q \in moved
    <3>1. PICK p \in sub : q = Moved(p, source, target)
      BY <2>1
    <3> QED
      BY <1>3, <1>4, <3>1
  <2>2. CASE q \notin moved
    <3>1. q \in (DOMAIN fs \ sub) \ moved
      BY <1>6, <2>2
    <3> QED
      BY <1>5, <3>1 DEF IsFiles
  <2> QED
    BY <2>1, <2>2
<1>8. IsFiniteSet(DOMAIN gs)
  <2>1. IsFiniteSet(sub) /\ IsFiniteSet(DOMAIN fs \ sub)
    BY <1>1, FS_Subset DEF IsFiles
  <2> DEFINE f == [p \in sub |-> Moved(p, source, target)]
  <2>2. IsFiniteSet({f[p] : p \in DOMAIN f})
    <3>1. IsFiniteSet(DOMAIN f)
      BY <2>1
    <3> HIDE DEF f
    <3> QED
      BY <3>1, ImageFinite
  <2>3. {f[p] : p \in DOMAIN f} = moved
    OBVIOUS
  <2> HIDE DEF f, moved
  <2>4. IsFiniteSet(moved)
    BY <2>2, <2>3
  <2>5. IsFiniteSet((DOMAIN fs \ sub) \cup moved)
    BY <2>1, <2>4, FS_Union
  <2> QED
    BY <1>6, <2>5
<1>9. IsFiles(gs)
  BY <1>6, <1>7, <1>8 DEF IsFiles
<1>10. Used(gs) \subseteq Used(fs)
  BY <1>7 DEF Used
<1> QED
  BY <1>1, <1>4, <1>5, <1>6, <1>9, <1>10 DEF sub, gs
-----------------------------------------------------------------------------
(* What a log record does to a state.                                      *)

\* State s becomes t, and files may refer to the chunks new as well: those are in
\* the table then and not pending; no other chunk comes, goes or is pending.
Applied(s, t, new) ==
  /\ Sane(t) /\ s.next <= t.next
  /\ \A n \in Nat : s.next <= n /\ (\A h \in new : h < n) => t.next <= n
  /\ Used(t.files) \subseteq Used(s.files) \cup new
  /\ DOMAIN s.chunks \subseteq DOMAIN t.chunks
  /\ \A h \in (Used(t.files) \ Used(s.files)) \cup (DOMAIN t.chunks \ DOMAIN s.chunks) :
        h \in new /\ h \in DOMAIN t.chunks /\ ~t.chunks[h].pending
  /\ \A h \in DOMAIN s.chunks :
        t.chunks[h].pending = s.chunks[h].pending \/ (h \in new /\ ~t.chunks[h].pending)

\* Records that bring no new chunk into the table or into a file.
LEMMA AppliedSame ==
  ASSUME NEW s, Sane(s), NEW fs, IsFiles(fs), Used(fs) \subseteq Used(s.files),
         NEW cs, IsChunks(cs), DOMAIN cs = DOMAIN s.chunks,
         \A h \in DOMAIN cs : cs[h].pending = s.chunks[h].pending,
         NEW t, t = [files |-> fs, chunks |-> cs, next |-> s.next]
  PROVE  Applied(s, t, {})
<1>1. t.files = fs /\ t.chunks = cs /\ t.next = s.next /\ s.next \in Nat
  BY HandleNat DEF Sane
<1>2. Sane(t)
  BY <1>1 DEF Sane
<1> QED
  BY <1>1, <1>2 DEF Applied

\* Records that put chunk h into a file, or allocate it.
LEMMA AppliedNew ==
  ASSUME NEW s, Sane(s), NEW h \in Handle,
         NEW fs, IsFiles(fs), Used(fs) \subseteq Used(s.files) \cup {h},
         NEW cs, IsChunks(cs), DOMAIN cs = DOMAIN s.chunks \cup {h}, ~cs[h].pending,
         \A g \in DOMAIN s.chunks : g # h => cs[g].pending = s.chunks[g].pending,
         NEW t, t = [files |-> fs, chunks |-> cs,
                     next |-> IF h + 1 > s.next THEN h + 1 ELSE s.next]
  PROVE  Applied(s, t, {h})
<1>1. /\ t.files = fs /\ t.chunks = cs /\ s.next \in Nat /\ h \in Nat /\ t.next \in Nat
      /\ t.next = IF h + 1 > s.next THEN h + 1 ELSE s.next
  BY HandleNat DEF Sane
<1>2. /\ s.next <= t.next /\ h < t.next /\ t.next \in 1..(MaxHandle + 1)
      /\ \A n \in Nat : (s.next <= n /\ h < n) => t.next <= n
  BY <1>1, HandleNat DEF Sane, Handle
<1>3. Sane(t)
  <2>1. \A g \in Used(fs) \cup DOMAIN cs : g \in Nat /\ (g = h \/ g < s.next)
    <3>1. Used(fs) \cup DOMAIN cs \subseteq Handle
      BY UsedHandles DEF IsChunks
    <3> QED
      BY <3>1, HandleNat DEF Sane
  <2>2. \A g \in Used(fs) \cup DOMAIN cs : g < t.next
    BY <1>1, <1>2, <2>1
  <2> QED
    BY <1>1, <1>2, <2>2 DEF Sane
<1>4. Used(t.files) \subseteq Used(s.files) \cup {h} /\ DOMAIN s.chunks \subseteq DOMAIN t.chunks
  BY <1>1
<1>5. ASSUME NEW g \in (Used(t.files) \ Used(s.files)) \cup (DOMAIN t.chunks \ DOMAIN s.chunks)
      PROVE  g \in {h} /\ g \in DOMAIN t.chunks /\ ~t.chunks[g].pending
  BY <1>1
<1>6. ASSUME NEW g \in DOMAIN s.chunks
      PROVE  t.chunks[g].pending = s.chunks[g].pending \/ (g \in {h} /\ ~t.chunks[g].pending)
  BY <1>1
<1> QED
  BY <1>1, <1>2, <1>3, <1>4, <1>5, <1>6 DEF Applied

\* Records that have no effect.
LEMMA AppliedNothing ==
  ASSUME NEW s, Sane(s), NEW new
  PROVE  Applied(s, s, new)
<1>1. s.next \in Nat
  BY HandleNat DEF Sane
<1> QED
  BY <1>1 DEF Applied

\* New chunks that are not used do not matter.
LEMMA AppliedMore ==
  ASSUME NEW s, NEW t, Applied(s, t, {}), NEW new
  PROVE  Applied(s, t, new)
BY DEF Applied

\* ApplyCreate adds an empty file.
LEMMA CreateApplied ==
  ASSUME NEW s, Sane(s), NEW path, IsSeq(path)
  PROVE  Applied(s, ApplyCreate(s, path), {})
<1>1. CASE Exists(s.files, path)
  BY <1>1, AppliedNothing DEF ApplyCreate
<1>2. CASE ~Exists(s.files, path)
  <2>1. PICK fs : fs = [p \in DOMAIN s.files \cup {path} |-> IF p = path THEN <<>> ELSE s.files[p]]
    OBVIOUS
  <2>2. ApplyCreate(s, path) = [files |-> fs, chunks |-> s.chunks, next |-> s.next]
    BY <1>2, <2>1 DEF ApplyCreate, Sane
  <2>3. IsFiles(s.files) /\ path \notin DOMAIN s.files
    BY <1>2 DEF Exists, Sane
  <2>4. IsFiles(fs)
    <3>1. IsFiniteSet(DOMAIN s.files \cup {path})
      BY <2>3, FS_AddElement DEF IsFiles
    <3>2. <<>> \in Seq(Handle)
      BY EmptySeq
    <3> QED
      BY <2>1, <2>3, <3>1, <3>2 DEF IsFiles
  <2>5. Used(fs) \subseteq Used(s.files)
    <3>1. Range(fs[path]) = {}
      BY <2>1, EmptySeq DEF Range
    <3>2. \A p \in DOMAIN fs : p # path => p \in DOMAIN s.files /\ fs[p] = s.files[p]
      BY <2>1
    <3> QED
      BY <3>1, <3>2 DEF Used
  <2> QED
    BY <2>2, <2>4, <2>5, AppliedSame DEF Sane
<1> QED
  BY <1>1, <1>2

\* ApplyRename moves files with their chunks.
LEMMA RenameApplied ==
  ASSUME NEW s, Sane(s), NEW source, IsSeq(source), NEW target, IsSeq(target)
  PROVE  Applied(s, ApplyRename(s, source, target), {})
<1>1. CASE Exists(s.files, source) \/ IsDirectory(s.files, source)
  <2>1. PICK fs : fs = RenameSubtree(s.files, source, target)
    OBVIOUS
  <2>2. ApplyRename(s, source, target) = [files |-> fs, chunks |-> s.chunks, next |-> s.next]
    BY <1>1, <2>1 DEF ApplyRename, Sane
  <2>3. IsFiles(fs) /\ Used(fs) \subseteq Used(s.files)
    BY <2>1, RenameFact DEF Sane
  <2> QED
    BY <2>2, <2>3, AppliedSame DEF Sane
<1>2. CASE ~(Exists(s.files, source) \/ IsDirectory(s.files, source))
  BY <1>2, AppliedNothing DEF ApplyRename
<1> QED
  BY <1>1, <1>2

\* Removal takes as many references from each chunk as the file has.
LEMMA RemoveFact ==
  ASSUME NEW s, Sane(s), NEW path, Exists(s.files, path)
  PROVE  LET t == ApplyRemove(s, path) IN
         /\ t = [files |-> t.files, chunks |-> t.chunks, next |-> s.next]
         /\ t.files = [p \in DOMAIN s.files \ {path} |-> s.files[p]]
         /\ DOMAIN t.chunks = DOMAIN s.chunks /\ IsChunks(t.chunks)
         /\ \A h \in DOMAIN s.chunks :
              /\ References(s.files, {path}, h) \in Nat
              /\ t.chunks[h] = Dropped(s.chunks[h], References(s.files, {path}, h))
<1>1. PICK fs : fs = [p \in DOMAIN s.files \ {path} |-> s.files[p]]
  OBVIOUS
<1>2. PICK cs : cs = [h \in DOMAIN s.chunks |-> Dropped(s.chunks[h], References(s.files, {path}, h))]
  OBVIOUS
<1>3. ApplyRemove(s, path) = [files |-> fs, chunks |-> cs, next |-> s.next]
  BY <1>1, <1>2 DEF ApplyRemove, Sane
<1>4. \A h : References(s.files, {path}, h) \in Nat
  <2>1. {path} \subseteq DOMAIN s.files /\ IsFiles(s.files)
    BY DEF Exists, Sane
  <2> QED
    BY <2>1, ReferencesNat
<1>5. \A h \in DOMAIN s.chunks : s.chunks[h] \in Chunk /\ h \in Handle
  BY DEF Sane, IsChunks
<1>6. \A h \in DOMAIN cs : cs[h] \in Chunk /\ cs[h] = Dropped(s.chunks[h], References(s.files, {path}, h))
  BY <1>2, <1>4, <1>5, DroppedFact
<1>7. IsChunks(cs)
  <2>1. DOMAIN cs \subseteq Handle /\ cs = [h \in DOMAIN cs |-> cs[h]]
    BY <1>2, <1>5
  <2>2. \A h \in DOMAIN cs : cs[h] \in Chunk
    BY <1>6
  <2> QED
    BY <2>1, <2>2 DEF IsChunks
<1>8. DOMAIN cs = DOMAIN s.chunks
  BY <1>2
<1> QED
  BY <1>1, <1>3, <1>4, <1>6, <1>7, <1>8

\* ApplyRemove drops references only.
LEMMA RemoveApplied ==
  ASSUME NEW s, Sane(s), NEW path
  PROVE  Applied(s, ApplyRemove(s, path), {})
<1>1. CASE ~Exists(s.files, path)
  BY <1>1, AppliedNothing DEF ApplyRemove
<1>2. CASE Exists(s.files, path)
  <2>1. PICK t : t = ApplyRemove(s, path)
    OBVIOUS
  <2>2. /\ t = [files |-> t.files, chunks |-> t.chunks, next |-> s.next]
        /\ t.files = [p \in DOMAIN s.files \ {path} |-> s.files[p]]
        /\ DOMAIN t.chunks = DOMAIN s.chunks /\ IsChunks(t.chunks)
        /\ \A h \in DOMAIN s.chunks :
             /\ References(s.files, {path}, h) \in Nat
             /\ t.chunks[h] = Dropped(s.chunks[h], References(s.files, {path}, h))
    BY <1>2, <2>1, RemoveFact
  <2>3. \A h \in DOMAIN t.chunks : t.chunks[h].pending = s.chunks[h].pending
    <3>1. \A h \in DOMAIN s.chunks : s.chunks[h] \in Chunk
      BY DEF Sane, IsChunks
    <3> QED
      BY <2>2, <3>1, DroppedFact
  <2>4. IsFiles(s.files)
    BY DEF Sane
  <2>5. IsFiles(t.files)
    <3>1. IsFiniteSet(DOMAIN s.files \ {path})
      BY <2>4, FS_RemoveElement DEF IsFiles
    <3> QED
      BY <2>2, <2>4, <3>1 DEF IsFiles
  <2>6. Used(t.files) \subseteq Used(s.files)
    <3>1. \A p \in DOMAIN t.files : p \in DOMAIN s.files /\ t.files[p] = s.files[p]
      BY <2>2
    <3> QED
      BY <3>1 DEF Used
  <2> QED
    BY <2>1, <2>2, <2>3, <2>5, <2>6, AppliedSame
<1> QED
  BY <1>1, <1>2

\* A chunk in a file is replaced by another.
LEMMA PutFact ==
  ASSUME NEW fs, IsFiles(fs), NEW path \in DOMAIN fs, NEW i \in DOMAIN fs[path],
         NEW h \in Handle
  PROVE  LET gs == [fs EXCEPT ![path][i] = h] IN
         /\ IsFiles(gs) /\ DOMAIN gs = DOMAIN fs
         /\ \A p \in DOMAIN fs : p # path => gs[p] = fs[p]
         /\ gs[path] = [fs[path] EXCEPT ![i] = h]
         /\ Used(gs) \subseteq Used(fs) \cup {h}
<1>1. PICK gs : gs = [fs EXCEPT ![path][i] = h]
  OBVIOUS
<1>2. /\ DOMAIN gs = DOMAIN fs /\ gs = [p \in DOMAIN gs |-> gs[p]]
      /\ \A p \in DOMAIN fs : p # path => gs[p] = fs[p]
      /\ gs[path] = [fs[path] EXCEPT ![i] = h]
  BY <1>1 DEF IsFiles
<1>3. fs[path] \in Seq(Handle)
  BY DEF IsFiles
<1>4. i \in 1..Len(fs[path])
  BY <1>3, LenProperties
<1>5. gs[path] \in Seq(Handle)
  BY <1>2, <1>3, <1>4, ExceptSeq
<1>6. IsFiles(gs)
  BY <1>2, <1>5 DEF IsFiles
<1>7. Range(gs[path]) \subseteq Range(fs[path]) \cup {h}
  BY <1>2 DEF Range
<1>8. Used(gs) \subseteq Used(fs) \cup {h}
  <2>1. ASSUME NEW p \in DOMAIN gs PROVE Range(gs[p]) \subseteq Range(fs[p]) \cup {h}
    BY <1>2, <1>7
  <2> QED
    BY <1>2, <2>1 DEF Used
<1> QED
  BY <1>1, <1>2, <1>6, <1>8

\* A chunk is added to the end of a file.
LEMMA AddFact ==
  ASSUME NEW fs, IsFiles(fs), NEW path \in DOMAIN fs, NEW h \in Handle
  PROVE  LET gs == [fs EXCEPT ![path] = Append(@, h)] IN
         /\ IsFiles(gs) /\ DOMAIN gs = DOMAIN fs
         /\ \A p \in DOMAIN fs : p # path => gs[p] = fs[p]
         /\ gs[path] = Append(fs[path], h)
         /\ Used(gs) \subseteq Used(fs) \cup {h}
<1>1. PICK gs : gs = [fs EXCEPT ![path] = Append(@, h)]
  OBVIOUS
<1>2. /\ DOMAIN gs = DOMAIN fs /\ gs = [p \in DOMAIN gs |-> gs[p]]
      /\ \A p \in DOMAIN fs : p # path => gs[p] = fs[p]
      /\ gs[path] = Append(fs[path], h)
  BY <1>1 DEF IsFiles
<1>3. fs[path] \in Seq(Handle)
  BY DEF IsFiles
<1>4. /\ gs[path] \in Seq(Handle) /\ Len(gs[path]) = Len(fs[path]) + 1
      /\ \A i \in 1..Len(fs[path]) : gs[path][i] = fs[path][i]
      /\ gs[path][Len(fs[path]) + 1] = h
  BY <1>2, <1>3, AppendProperties
<1>5. IsFiles(gs)
  BY <1>2, <1>4 DEF IsFiles
<1>6. Range(gs[path]) \subseteq Range(fs[path]) \cup {h}
  <2>1. Len(fs[path]) \in Nat /\ DOMAIN fs[path] = 1..Len(fs[path])
    BY <1>3, LenProperties
  <2>2. DOMAIN gs[path] = 1..(Len(fs[path]) + 1)
    BY <1>4, LenProperties
  <2>3. \A i \in DOMAIN gs[path] : i \in DOMAIN fs[path] \/ i = Len(fs[path]) + 1
    BY <2>1, <2>2
  <2>4. \A i \in DOMAIN gs[path] : gs[path][i] \in Range(fs[path]) \/ gs[path][i] = h
    BY <1>4, <2>1, <2>3 DEF Range
  <2> QED
    BY <2>4 DEF Range
<1>7. Used(gs) \subseteq Used(fs) \cup {h}
  BY <1>2, <1>6 DEF Used
<1> QED
  BY <1>1, <1>2, <1>5, <1>7

\* What ReplaceChunk changes, if it changes anything.
LEMMA ReplaceFact ==
  ASSUME NEW s, Sane(s), NEW path \in DOMAIN s.files, NEW index \in Nat, NEW h \in Handle,
         index < Len(s.files[path]), s.files[path][index + 1] # h
  PROVE  LET old == s.files[path][index + 1]
             t == ApplyReplaceChunk(s, path, index, h)
         IN  /\ t = [files |-> [s.files EXCEPT ![path][index + 1] = h], chunks |-> t.chunks,
                     next |-> IF h + 1 > s.next THEN h + 1 ELSE s.next]
             /\ \E cs : /\ IsChunks(cs) /\ DOMAIN cs = DOMAIN s.chunks
                        /\ \A g \in DOMAIN cs : g # old => cs[g] = s.chunks[g]
                        /\ old \in DOMAIN cs => cs[old] = Dropped(s.chunks[old], 1)
                        /\ t.chunks = Referenced(cs, h)
             /\ index + 1 \in DOMAIN s.files[path]
<1>1. PICK old : old = s.files[path][index + 1]
  OBVIOUS
<1>2. PICK cs : cs = IF old \in DOMAIN s.chunks
                     THEN [s.chunks EXCEPT ![old] = Dropped(@, 1)] ELSE s.chunks
  OBVIOUS
<1>3. PICK t : t = ApplyReplaceChunk(s, path, index, h)
  OBVIOUS
<1>4. PICK u : u = [s EXCEPT !.files[path][index + 1] = h, !.chunks = Referenced(cs, h)]
  OBVIOUS
<1>5. t = ApplyAllocHandle(u, h)
  BY <1>1, <1>2, <1>3, <1>4 DEF ApplyReplaceChunk, Exists
<1>6. u = [files |-> [s.files EXCEPT ![path][index + 1] = h], chunks |-> Referenced(cs, h),
           next |-> s.next]
  BY <1>4 DEF Sane
<1>7. t = [files |-> u.files, chunks |-> u.chunks,
           next |-> IF h + 1 > u.next THEN h + 1 ELSE u.next]
  BY <1>5, <1>6 DEF ApplyAllocHandle
<1>8. IsChunks(s.chunks)
  BY DEF Sane
<1>9. /\ IsChunks(cs) /\ DOMAIN cs = DOMAIN s.chunks
      /\ \A g \in DOMAIN cs : g # old => cs[g] = s.chunks[g]
      /\ old \in DOMAIN cs => cs[old] = Dropped(s.chunks[old], 1)
  <2>1. CASE old \in DOMAIN s.chunks
    <3>1. s.chunks[old] \in Chunk
      BY <1>8, <2>1 DEF IsChunks
    <3>2. Dropped(s.chunks[old], 1) \in Chunk
      BY <3>1, DroppedFact
    <3> QED
      BY <1>2, <1>8, <2>1, <3>2 DEF IsChunks
  <2>2. CASE old \notin DOMAIN s.chunks
    BY <1>2, <1>8, <2>2
  <2> QED
    BY <2>1, <2>2
<1>10. index + 1 \in DOMAIN s.files[path]
  <2>1. s.files[path] \in Seq(Handle)
    BY DEF Sane, IsFiles
  <2>2. DOMAIN s.files[path] = 1..Len(s.files[path]) /\ Len(s.files[path]) \in Nat
    BY <2>1, LenProperties
  <2> QED
    BY <2>2
<1> QED
  BY <1>1, <1>3, <1>6, <1>7, <1>9, <1>10

\* ApplyReplaceChunk brings the new chunk only.
LEMMA ReplaceApplied ==
  ASSUME NEW s, Sane(s), NEW path, NEW index \in Nat, NEW h \in Handle
  PROVE  Applied(s, ApplyReplaceChunk(s, path, index, h), {h})
<1>1. CASE \/ ~Exists(s.files, path)
           \/ index >= Len(s.files[path])
           \/ s.files[path][index + 1] = h
  BY <1>1, AppliedNothing DEF ApplyReplaceChunk
<1>2. CASE /\ Exists(s.files, path) /\ ~(index >= Len(s.files[path]))
           /\ s.files[path][index + 1] # h
  <2>1. path \in DOMAIN s.files
    BY <1>2 DEF Exists
  <2>2. IsFiles(s.files)
    BY DEF Sane
  <2>3. Len(s.files[path]) \in Nat
    <3>1. s.files[path] \in Seq(Handle)
      BY <2>1, <2>2 DEF IsFiles
    <3> QED
      BY <3>1, LenProperties
  <2>4. index < Len(s.files[path])
    BY <1>2, <2>3
  <2>5. PICK old : old = s.files[path][index + 1]
    OBVIOUS
  <2>6. PICK t : t = ApplyReplaceChunk(s, path, index, h)
    OBVIOUS
  <2>7. /\ t = [files |-> [s.files EXCEPT ![path][index + 1] = h], chunks |-> t.chunks,
                next |-> IF h + 1 > s.next THEN h + 1 ELSE s.next]
        /\ \E cs : /\ IsChunks(cs) /\ DOMAIN cs = DOMAIN s.chunks
                   /\ \A g \in DOMAIN cs : g # old => cs[g] = s.chunks[g]
                   /\ old \in DOMAIN cs => cs[old] = Dropped(s.chunks[old], 1)
                   /\ t.chunks = Referenced(cs, h)
        /\ index + 1 \in DOMAIN s.files[path]
    BY <1>2, <2>1, <2>4, <2>5, <2>6, ReplaceFact
  <2>8. PICK cs : /\ IsChunks(cs) /\ DOMAIN cs = DOMAIN s.chunks
                  /\ \A g \in DOMAIN cs : g # old => cs[g] = s.chunks[g]
                  /\ old \in DOMAIN cs => cs[old] = Dropped(s.chunks[old], 1)
                  /\ t.chunks = Referenced(cs, h)
    BY <2>7
  <2>9. \A g \in DOMAIN s.chunks : cs[g].pending = s.chunks[g].pending
    <3>1. \A g \in DOMAIN s.chunks : s.chunks[g] \in Chunk
      BY DEF Sane, IsChunks
    <3>2. old \in DOMAIN s.chunks => cs[old].pending = s.chunks[old].pending
      BY <2>8, <3>1, DroppedFact
    <3> QED
      BY <2>8, <3>2
  <2>10. /\ IsChunks(t.chunks) /\ DOMAIN t.chunks = DOMAIN s.chunks \cup {h}
         /\ ~t.chunks[h].pending
         /\ \A g \in DOMAIN s.chunks : g # h => t.chunks[g].pending = s.chunks[g].pending
    <3>1. /\ IsChunks(t.chunks) /\ DOMAIN t.chunks = DOMAIN cs \cup {h}
          /\ \A g \in DOMAIN cs \ {h} : t.chunks[g] = cs[g]
          /\ t.chunks[h] = [version |-> IF h \in DOMAIN cs THEN cs[h].version ELSE 1, pending |-> FALSE,
                            refcount |-> (IF h \in DOMAIN cs THEN cs[h].refcount ELSE 0) + 1]
      BY <2>8, ReferencedFact
    <3>2. ~t.chunks[h].pending
      BY <3>1
    <3> QED
      BY <2>8, <2>9, <3>1, <3>2
  <2>11. PICK fs : fs = [s.files EXCEPT ![path][index + 1] = h]
    OBVIOUS
  <2>12. IsFiles(fs) /\ Used(fs) \subseteq Used(s.files) \cup {h}
    BY <2>1, <2>2, <2>7, <2>11, PutFact
  <2> QED
    BY <2>6, <2>7, <2>10, <2>11, <2>12, AppliedNew
<1> QED
  BY <1>1, <1>2

\* ApplyAddChunk brings the new chunk only.
LEMMA AddApplied ==
  ASSUME NEW s, Sane(s), NEW path, NEW index \in Nat, NEW h \in Handle
  PROVE  Applied(s, ApplyAddChunk(s, path, index, h), {h})
<1>1. CASE ~Exists(s.files, path) \/ index > Len(s.files[path])
  BY <1>1, AppliedNothing DEF ApplyAddChunk
<1>2. CASE ~(~Exists(s.files, path) \/ index > Len(s.files[path])) /\ index < Len(s.files[path])
  <2>1. ApplyAddChunk(s, path, index, h) = ApplyReplaceChunk(s, path, index, h)
    BY <1>2 DEF ApplyAddChunk
  <2> QED
    BY <2>1, ReplaceApplied
<1>3. CASE ~(~Exists(s.files, path) \/ index > Len(s.files[path])) /\ ~(index < Len(s.files[path]))
  <2>1. path \in DOMAIN s.files
    BY <1>3 DEF Exists
  <2>2. PICK u : u = [s EXCEPT !.files[path] = Append(@, h), !.chunks = Referenced(@, h)]
    OBVIOUS
  <2>3. PICK t : t = ApplyAddChunk(s, path, index, h)
    OBVIOUS
  <2>4. t = ApplyAllocHandle(u, h)
    BY <1>3, <2>2, <2>3 DEF ApplyAddChunk
  <2>5. u = [files |-> [s.files EXCEPT ![path] = Append(@, h)], chunks |-> Referenced(s.chunks, h),
             next |-> s.next]
    BY <2>2 DEF Sane
  <2>6. t = [files |-> u.files, chunks |-> u.chunks,
             next |-> IF h + 1 > u.next THEN h + 1 ELSE u.next]
    BY <2>4, <2>5 DEF ApplyAllocHandle
  <2>7. PICK cs : cs = Referenced(s.chunks, h)
    OBVIOUS
  <2>8. /\ IsChunks(cs) /\ DOMAIN cs = DOMAIN s.chunks \cup {h}
        /\ \A g \in DOMAIN s.chunks \ {h} : cs[g] = s.chunks[g]
        /\ cs[h] = [version |-> IF h \in DOMAIN s.chunks THEN s.chunks[h].version ELSE 1, pending |-> FALSE,
                    refcount |-> (IF h \in DOMAIN s.chunks THEN s.chunks[h].refcount ELSE 0) + 1]
    <3>1. IsChunks(s.chunks)
      BY DEF Sane
    <3> QED
      BY <2>7, <3>1, ReferencedFact
  <2>9. ~cs[h].pending
    BY <2>8
  <2>10. PICK fs : fs = [s.files EXCEPT ![path] = Append(@, h)]
    OBVIOUS
  <2>11. IsFiles(fs) /\ Used(fs) \subseteq Used(s.files) \cup {h}
    BY <2>1, <2>10, AddFact DEF Sane
  <2>12. t = [files |-> fs, chunks |-> cs, next |-> IF h + 1 > s.next THEN h + 1 ELSE s.next]
    BY <2>5, <2>6, <2>7, <2>10
  <2>13. \A g \in DOMAIN s.chunks : g # h => cs[g].pending = s.chunks[g].pending
    BY <2>8
  <2> QED
    BY <2>3, <2>8, <2>9, <2>11, <2>12, <2>13, AppliedNew
<1> QED
  BY <1>1, <1>2, <1>3

\* ApplyAllocHandle moves next above the handle.
LEMMA AllocApplied ==
  ASSUME NEW s, Sane(s), NEW h \in Handle
  PROVE  /\ Applied(s, ApplyAllocHandle(s, h), {h})
         /\ ApplyAllocHandle(s, h) = [files |-> s.files, chunks |-> s.chunks,
                                      next |-> IF h + 1 > s.next THEN h + 1 ELSE s.next]
<1>1. PICK t : t = ApplyAllocHandle(s, h)
  OBVIOUS
<1>2. t = [files |-> s.files, chunks |-> s.chunks, next |-> IF h + 1 > s.next THEN h + 1 ELSE s.next]
  BY <1>1 DEF ApplyAllocHandle, Sane
<1>3. s.next \in 1..(MaxHandle + 1) /\ h \in Nat /\ h \in 1..MaxHandle /\ MaxHandle \in Nat
  BY HandleNat DEF Sane, Handle
<1>4. /\ t.files = s.files /\ t.chunks = s.chunks /\ s.next <= t.next
      /\ t.next \in 1..(MaxHandle + 1) /\ \A n \in Nat : (s.next <= n /\ h < n) => t.next <= n
  BY <1>2, <1>3
<1>5. \A g \in Used(s.files) \cup DOMAIN s.chunks : g \in Nat /\ g < s.next
  <2>1. Used(s.files) \cup DOMAIN s.chunks \subseteq Handle
    BY UsedHandles DEF Sane, IsChunks
  <2> QED
    BY <2>1, HandleNat DEF Sane
<1>6. Sane(t)
  <2>1. \A g \in Used(t.files) \cup DOMAIN t.chunks : g < t.next
    BY <1>3, <1>4, <1>5
  <2>2. t = [files |-> t.files, chunks |-> t.chunks, next |-> t.next]
    BY <1>2
  <2> QED
    BY <1>4, <2>1, <2>2 DEF Sane
<1>7. Applied(s, t, {h})
  BY <1>4, <1>6 DEF Applied
<1> QED
  BY <1>1, <1>2, <1>7

\* ApplyBumpVersion changes a version only.
LEMMA BumpApplied ==
  ASSUME NEW s, Sane(s), NEW h, NEW v \in 1..MaxVersion
  PROVE  Applied(s, ApplyBumpVersion(s, h, v), {})
<1>1. CASE h \notin DOMAIN s.chunks
  BY <1>1, AppliedNothing DEF ApplyBumpVersion
<1>2. CASE h \in DOMAIN s.chunks
  <2>1. PICK t : t = ApplyBumpVersion(s, h, v)
    OBVIOUS
  <2>2. PICK cs : cs = [s.chunks EXCEPT ![h].version = IF v > @ THEN v ELSE @]
    OBVIOUS
  <2>3. t = [files |-> s.files, chunks |-> cs, next |-> s.next]
    BY <1>2, <2>1, <2>2 DEF ApplyBumpVersion, Sane
  <2>4. s.chunks[h] \in Chunk /\ IsChunks(s.chunks)
    BY <1>2 DEF Sane, IsChunks
  <2>5. /\ DOMAIN cs = DOMAIN s.chunks /\ \A g \in DOMAIN cs : g # h => cs[g] = s.chunks[g]
        /\ cs[h] = [s.chunks[h] EXCEPT !.version = IF v > @ THEN v ELSE @]
    BY <1>2, <2>2
  <2>6. cs[h] \in Chunk /\ cs[h].pending = s.chunks[h].pending
    BY <2>4, <2>5 DEF Chunk
  <2>7. IsChunks(cs)
    BY <2>2, <2>4, <2>5, <2>6 DEF IsChunks
  <2>8. \A g \in DOMAIN cs : cs[g].pending = s.chunks[g].pending
    BY <2>5, <2>6
  <2> QED
    BY <2>1, <2>3, <2>5, <2>7, <2>8, AppliedSame DEF Sane
<1> QED
  BY <1>1, <1>2

\* The files that a snapshot copies.
Copied(fs, source, target) ==
  {p \in Subtree(fs, source, TRUE) : ~Exists(fs, Moved(p, source, target))}

\* A snapshot adds files that have the chunks of the files they are copies of.
LEMMA SnapshotFact ==
  ASSUME NEW s, Sane(s), NEW source, IsSeq(source), NEW target, IsSeq(target)
  PROVE  LET fs == s.files
             copied == Copied(fs, source, target)
             new == {Moved(p, source, target) : p \in copied}
             t == ApplySnapshot(s, source, target)
         IN  /\ t = [files |-> t.files, chunks |-> t.chunks, next |-> s.next]
             /\ IsFiles(t.files) /\ DOMAIN t.files = DOMAIN fs \cup new
             /\ \A p \in DOMAIN fs : t.files[p] = fs[p]
             /\ \A p \in copied : t.files[Moved(p, source, target)] = fs[p]
             /\ Used(t.files) \subseteq Used(fs)
             /\ IsChunks(t.chunks) /\ DOMAIN t.chunks = DOMAIN s.chunks
             /\ \A h \in DOMAIN s.chunks :
                  /\ References(fs, copied, h) \in Nat
                  /\ t.chunks[h] = Shared(s.chunks[h], References(fs, copied, h))
<1> DEFINE fs == s.files
           copied == Copied(fs, source, target)
           new == {Moved(p, source, target) : p \in copied}
           t == ApplySnapshot(s, source, target)
           gs == [q \in DOMAIN fs \cup new |->
                    IF q \in new THEN fs[Moved(q, target, source)] ELSE fs[q]]
           cs == [h \in DOMAIN s.chunks |-> Shared(s.chunks[h], References(fs, copied, h))]
<1>1. t = [files |-> gs, chunks |-> cs, next |-> s.next]
  <2>1. t = [s EXCEPT !.files = gs, !.chunks = cs]
    BY Zenon DEF ApplySnapshot, Copied
  <2>2. s = [files |-> s.files, chunks |-> s.chunks, next |-> s.next]
    BY DEF Sane
  <2> HIDE DEF t, gs, cs
  <2> QED
    BY <2>1, <2>2
<1>2. IsFiles(fs) /\ IsChunks(s.chunks)
  BY DEF Sane
<1>3. ASSUME NEW p \in copied
      PROVE  /\ p \in DOMAIN fs /\ IsSeq(Moved(p, source, target)) /\ Moved(p, source, target) \notin DOMAIN fs
             /\ Moved(Moved(p, source, target), target, source) = p
  <2>1. p \in DOMAIN fs /\ IsSeq(p) /\ IsPrefix(source, p) /\ Moved(p, source, target) \notin DOMAIN fs
    BY <1>2 DEF Subtree, IsFiles, Exists, Copied
  <2> QED
    BY <2>1, MovedBack
<1> HIDE DEF fs, copied, t
<1>4. \A p \in copied : gs[Moved(p, source, target)] = fs[p]
  BY <1>3
<1>5. \A p \in DOMAIN fs : gs[p] = fs[p]
  BY <1>3
<1>6. DOMAIN gs = DOMAIN fs \cup new /\ gs = [q \in DOMAIN gs |-> gs[q]]
  OBVIOUS
<1>7. ASSUME NEW q \in DOMAIN gs PROVE IsSeq(q) /\ \E p \in DOMAIN fs : gs[q] = fs[p]
  <2>1. CASE q \in new
    <3>1. PICK p \in copied : q = Moved(p, source, target)
      BY <2>1
    <3>2. gs[q] = fs[p] /\ p \in DOMAIN fs /\ IsSeq(q)
      BY <1>3, <1>4, <3>1
    <3> HIDE DEF gs
    <3> QED
      BY <3>2
  <2>2. CASE q \notin new
    <3>1. q \in DOMAIN fs
      BY <2>2
    <3>2. gs[q] = fs[q] /\ IsSeq(q)
      BY <1>2, <1>5, <3>1 DEF IsFiles
    <3> HIDE DEF gs
    <3> QED
      BY <3>1, <3>2
  <2> QED
    BY <2>1, <2>2
<1>8. IsFiniteSet(DOMAIN gs)
  <2>1. IsFiniteSet(copied) /\ IsFiniteSet(DOMAIN fs)
    BY <1>2, <1>3, FS_Subset DEF IsFiles
  <2> DEFINE f == [p \in copied |-> Moved(p, source, target)]
  <2>2. IsFiniteSet({f[p] : p \in DOMAIN f})
    <3>1. IsFiniteSet(DOMAIN f)
      BY <2>1
    <3> HIDE DEF f
    <3> QED
      BY <3>1, ImageFinite
  <2>3. {f[p] : p \in DOMAIN f} = new
    OBVIOUS
  <2> HIDE DEF f, new, gs
  <2>4. IsFiniteSet(new)
    BY <2>2, <2>3
  <2>5. IsFiniteSet(DOMAIN fs \cup new)
    BY <2>1, <2>4, FS_Union
  <2> QED
    BY <1>6, <2>5
<1> HIDE DEF gs
<1>9. IsFiles(gs)
  <2>1. \A q \in DOMAIN gs : IsSeq(q) /\ gs[q] \in Seq(Handle)
    BY <1>2, <1>7 DEF IsFiles
  <2> QED
    BY <1>6, <1>8, <2>1 DEF IsFiles
<1>10. Used(gs) \subseteq Used(fs)
  BY <1>7 DEF Used
<1>11. \A h \in DOMAIN s.chunks : References(fs, copied, h) \in Nat
  <2>1. copied \subseteq DOMAIN fs
    BY <1>3
  <2> QED
    BY <1>2, <2>1, ReferencesNat
<1>12. /\ IsChunks(cs) /\ DOMAIN cs = DOMAIN s.chunks
       /\ \A h \in DOMAIN s.chunks : cs[h] = Shared(s.chunks[h], References(fs, copied, h))
  <2>1. \A h \in DOMAIN cs : cs[h] \in Chunk
    BY <1>2, <1>11, SharedFact DEF IsChunks
  <2> QED
    BY <1>2, <2>1 DEF IsChunks
<1> HIDE DEF cs
<1>13. t.files = gs /\ t.chunks = cs
  BY <1>1
<1> QED
  BY <1>1, <1>4, <1>5, <1>6, <1>9, <1>10, <1>11, <1>12, <1>13 DEF fs, copied, t

\* ApplySnapshot shares the chunks that are there.
LEMMA SnapshotApplied ==
  ASSUME NEW s, Sane(s), NEW source, IsSeq(source), NEW target, IsSeq(target)
  PROVE  Applied(s, ApplySnapshot(s, source, target), {})
<1> DEFINE t == ApplySnapshot(s, source, target)
           copied == Copied(s.files, source, target)
<1>2. PICK n : n = [h \in DOMAIN s.chunks |-> References(s.files, copied, h)]
  OBVIOUS
<1>3. /\ t = [files |-> t.files, chunks |-> t.chunks, next |-> s.next]
      /\ IsFiles(t.files) /\ Used(t.files) \subseteq Used(s.files)
      /\ IsChunks(t.chunks) /\ DOMAIN t.chunks = DOMAIN s.chunks
      /\ \A h \in DOMAIN s.chunks : n[h] \in Nat /\ t.chunks[h] = Shared(s.chunks[h], n[h])
  <2>1. /\ t = [files |-> t.files, chunks |-> t.chunks, next |-> s.next]
        /\ IsFiles(t.files) /\ Used(t.files) \subseteq Used(s.files)
        /\ IsChunks(t.chunks) /\ DOMAIN t.chunks = DOMAIN s.chunks
        /\ \A h \in DOMAIN s.chunks : /\ References(s.files, copied, h) \in Nat
                                      /\ t.chunks[h] = Shared(s.chunks[h], References(s.files, copied, h))
    BY SnapshotFact
  <2> HIDE DEF copied, t
  <2> QED
    BY <1>2, <2>1
<1> HIDE DEF t
<1>4. \A h \in DOMAIN t.chunks : t.chunks[h].pending = s.chunks[h].pending
  <2>1. \A h \in DOMAIN s.chunks : s.chunks[h] \in Chunk
    BY DEF Sane, IsChunks
  <2> QED
    BY <1>3, <2>1, SharedFact
<1> QED
  BY <1>3, <1>4, AppliedSame DEF t

\* The chunks of the others stay as they are.
LEMMA DropFact ==
  ASSUME NEW s, Sane(s), NEW h
  PROVE  LET t == ApplyDropChunk(s, h) IN
         /\ Sane(t) /\ t.files = s.files /\ t.next = s.next
         /\ DOMAIN t.chunks = DOMAIN s.chunks \ {h}
         /\ \A g \in DOMAIN t.chunks : t.chunks[g] = s.chunks[g]
<1>1. PICK cs : cs = [g \in DOMAIN s.chunks \ {h} |-> s.chunks[g]]
  OBVIOUS
<1>2. PICK t : t = ApplyDropChunk(s, h)
  OBVIOUS
<1>3. t = [files |-> s.files, chunks |-> cs, next |-> s.next]
  BY <1>1, <1>2 DEF ApplyDropChunk, ChunkErase, Sane
<1>4. t.files = s.files /\ t.chunks = cs /\ t.next = s.next
  BY <1>3
<1>5. DOMAIN cs = DOMAIN s.chunks \ {h} /\ \A g \in DOMAIN cs : cs[g] = s.chunks[g]
  BY <1>1
<1>6. IsChunks(cs)
  <2>1. IsChunks(s.chunks)
    BY DEF Sane
  <2> QED
    BY <1>1, <2>1 DEF IsChunks
<1>7. Sane(t)
  <2>1. \A g \in Used(t.files) \cup DOMAIN t.chunks : g < t.next
    BY <1>4, <1>5 DEF Sane
  <2>2. t = [files |-> t.files, chunks |-> t.chunks, next |-> t.next]
    BY <1>3
  <2> QED
    BY <1>4, <1>6, <2>1, <2>2 DEF Sane
<1> QED
  BY <1>2, <1>4, <1>5, <1>7
-----------------------------------------------------------------------------
(* Log records, and their replay.                                          *)

\* A record that a handler may append.
RecordOK(r) ==
  /\ r.op \in {"create", "rename", "remove", "alloc", "add", "replace", "bump", "snapshot", "drop"}
  /\ r.op \in {"create", "rename", "snapshot"} => IsSeq(r.path)
  /\ r.op \in {"rename", "snapshot"} => IsSeq(r.target)
  /\ r.op \in {"add", "replace"} => r.index \in Nat
  /\ r.op \in {"alloc", "add", "replace"} => r.handle \in Handle
  /\ r.op = "bump" => r.version \in 1..MaxVersion

\* Records that move next above their handle when they are replayed.
Allocates(r) == r.op \in {"alloc", "add", "replace"}

\* What is on disk knows no pending chunks.
NonePending(s) == \A h \in DOMAIN s.chunks : ~s.chunks[h].pending

\* State s becomes t by records that allocate only handles below bound.
Follows(s, t, bound) ==
  /\ Sane(t) /\ s.next <= t.next
  /\ s.next <= bound => t.next <= bound
  /\ NonePending(s) => NonePending(t)

\* What one record does, in terms of the handles it allocates.
LEMMA AppliedFollows ==
  ASSUME NEW s, NEW t, NEW new, Applied(s, t, new), NEW bound \in Nat, \A h \in new : h < bound
  PROVE  Follows(s, t, bound)
<1>1. ASSUME NonePending(s), NEW h \in DOMAIN t.chunks PROVE ~t.chunks[h].pending
  <2>1. CASE h \in DOMAIN s.chunks
    BY <1>1, <2>1 DEF Applied, NonePending
  <2>2. CASE h \notin DOMAIN s.chunks
    BY <1>1, <2>2 DEF Applied
  <2> QED
    BY <2>1, <2>2
<1> QED
  BY <1>1 DEF Applied, Follows, NonePending

\* Every record that is replayed keeps the state sane.
LEMMA ApplyFollows ==
  ASSUME NEW s, Sane(s), NEW r, RecordOK(r), NEW bound \in Nat,
         Allocates(r) => r.handle < bound
  PROVE  Follows(s, Apply(s, r), bound)
<1>1. CASE r.op = "create"
  <2>1. Apply(s, r) = ApplyCreate(s, r.path) /\ IsSeq(r.path)
    BY <1>1 DEF Apply, RecordOK
  <2> QED
    BY <2>1, CreateApplied, AppliedFollows
<1>2. CASE r.op = "rename"
  <2>1. Apply(s, r) = ApplyRename(s, r.path, r.target) /\ IsSeq(r.path) /\ IsSeq(r.target)
    BY <1>2 DEF Apply, RecordOK
  <2> QED
    BY <2>1, RenameApplied, AppliedFollows
<1>3. CASE r.op = "remove"
  <2>1. Apply(s, r) = ApplyRemove(s, r.path)
    BY <1>3 DEF Apply
  <2> QED
    BY <2>1, RemoveApplied, AppliedFollows
<1>4. CASE r.op = "alloc"
  <2>1. Apply(s, r) = ApplyAllocHandle(s, r.handle) /\ r.handle \in Handle /\ r.handle < bound
    BY <1>4 DEF Apply, RecordOK, Allocates
  <2>2. Applied(s, Apply(s, r), {r.handle})
    BY <2>1, AllocApplied
  <2> QED
    BY <2>1, <2>2, AppliedFollows
<1>5. CASE r.op = "add"
  <2>1. /\ Apply(s, r) = ApplyAddChunk(s, r.path, r.index, r.handle)
        /\ r.handle \in Handle /\ r.handle < bound /\ r.index \in Nat
    BY <1>5 DEF Apply, RecordOK, Allocates
  <2>2. Applied(s, Apply(s, r), {r.handle})
    BY <2>1, AddApplied
  <2> QED
    BY <2>1, <2>2, AppliedFollows
<1>6. CASE r.op = "replace"
  <2>1. /\ Apply(s, r) = ApplyReplaceChunk(s, r.path, r.index, r.handle)
        /\ r.handle \in Handle /\ r.handle < bound /\ r.index \in Nat
    BY <1>6 DEF Apply, RecordOK, Allocates
  <2>2. Applied(s, Apply(s, r), {r.handle})
    BY <2>1, ReplaceApplied
  <2> QED
    BY <2>1, <2>2, AppliedFollows
<1>7. CASE r.op = "bump"
  <2>1. Apply(s, r) = ApplyBumpVersion(s, r.handle, r.version) /\ r.version \in 1..MaxVersion
    BY <1>7 DEF Apply, RecordOK
  <2> QED
    BY <2>1, BumpApplied, AppliedFollows
<1>8. CASE r.op = "snapshot"
  <2>1. Apply(s, r) = ApplySnapshot(s, r.path, r.target) /\ IsSeq(r.path) /\ IsSeq(r.target)
    BY <1>8 DEF Apply, RecordOK
  <2> QED
    BY <2>1, SnapshotApplied, AppliedFollows
<1>9. CASE r.op = "drop"
  <2>1. Apply(s, r) = ApplyDropChunk(s, r.handle)
    BY <1>9 DEF Apply
  <2>2. PICK t : t = Apply(s, r)
    OBVIOUS
  <2>3. /\ Sane(t) /\ t.files = s.files /\ t.next = s.next
        /\ DOMAIN t.chunks = DOMAIN s.chunks \ {r.handle}
        /\ \A g \in DOMAIN t.chunks : t.chunks[g] = s.chunks[g]
    BY <2>1, <2>2, DropFact
  <2>4. s.next \in Nat
    BY HandleNat DEF Sane
  <2> QED
    BY <2>2, <2>3, <2>4 DEF Follows, NonePending
<1> QED
  BY <1>1, <1>2, <1>3, <1>4, <1>5, <1>6, <1>7, <1>8, <1>9 DEF RecordOK

\* A set of numbers that is not empty has a least one.
LEMMA LeastNumber ==
  ASSUME NEW T, T \subseteq Nat, T # {}
  PROVE  \E x \in T : \A y \in T : x <= y
<1>1. PICK R : R = {ss \in Nat \X Nat : ss[1] < ss[2]} /\ IsWellFoundedOn(R, Nat)
  BY NatLessThanWellFounded DEF OpToRel
<1>2. \E x \in T : \A y \in T : <<y, x>> \notin R
  BY <1>1, WFMin
<1>3. PICK x \in T : \A y \in T : <<y, x>> \notin R
  BY <1>2
<1>4. \A y \in T : y \in Nat /\ x \in Nat /\ ~(y < x)
  BY <1>1, <1>3
<1> QED
  BY <1>4

\* Induction, for a set of numbers.
LEMMA Induction ==
  ASSUME NEW P, 0 \in P, \A n \in Nat : n \in P => n + 1 \in P
  PROVE  Nat \subseteq P
<1> SUFFICES ASSUME ~(Nat \subseteq P) PROVE FALSE
  OBVIOUS
<1>1. PICK T : T = Nat \ P /\ T \subseteq Nat /\ T # {}
  OBVIOUS
<1>2. PICK x \in T : \A y \in T : x <= y
  BY <1>1, LeastNumber
<1>3. x \in Nat /\ x # 0
  BY <1>1
<1>4. x - 1 \in Nat /\ ~(x <= x - 1) /\ x - 1 + 1 = x
  BY <1>3
<1>5. x - 1 \in P
  BY <1>1, <1>2, <1>4
<1> QED
  BY <1>1, <1>2, <1>4, <1>5

\* f[n] is the state after n of the records rs.
IsReplay(f, s, rs) ==
  f = [n \in 0..Len(rs) |-> IF n = 0 THEN s ELSE Apply(f[n - 1], rs[n])]

\* Replay's recursive function exists.
LEMMA ReplayExists ==
  ASSUME NEW s, NEW rs, Len(rs) \in Nat
  PROVE  \E f : IsReplay(f, s, rs)
<1> DEFINE Upto(N, f) == f = [n \in 0..N |-> IF n = 0 THEN s ELSE Apply(f[n - 1], rs[n])]
           P == {N \in Nat : \E f : Upto(N, f)}
<1>1. 0 \in P
  <2> DEFINE f == [n \in 0..0 |-> s]
  <2>1. Upto(0, f)
    OBVIOUS
  <2> HIDE DEF f, Upto
  <2> QED
    BY <2>1
<1>2. ASSUME NEW N \in Nat, N \in P PROVE N + 1 \in P
  <2>1. PICK f : Upto(N, f)
    <3> HIDE DEF Upto
    <3> QED
      BY <1>2
  <2> DEFINE g == [n \in 0..(N + 1) |-> IF n <= N THEN f[n] ELSE Apply(f[N], rs[N + 1])]
  <2>2. ASSUME NEW n \in 0..(N + 1)
        PROVE  g[n] = IF n = 0 THEN s ELSE Apply(g[n - 1], rs[n])
    <3>1. CASE n = 0
      BY <2>1, <3>1
    <3>2. CASE n \in 1..N
      <4>1. g[n] = f[n] /\ g[n - 1] = f[n - 1]
        BY <3>2
      <4>2. f[n] = Apply(f[n - 1], rs[n])
        BY <2>1, <3>2
      <4> QED
        BY <3>2, <4>1, <4>2
    <3>3. CASE n = N + 1
      <4>1. g[n] = Apply(f[N], rs[N + 1]) /\ g[n - 1] = f[N]
        BY <3>3
      <4> QED
        BY <3>3, <4>1
    <3> QED
      BY <3>1, <3>2, <3>3
  <2>3. Upto(N + 1, g)
    <3>1. g = [n \in 0..(N + 1) |-> g[n]]
      OBVIOUS
    <3> HIDE DEF g
    <3> QED
      BY <2>2, <3>1
  <2> HIDE DEF g, Upto
  <2> QED
    BY <2>3
<1>3. Nat \subseteq P
  <2> HIDE DEF P
  <2> QED
    BY <1>1, <1>2, Induction
<1>4. \E f : Upto(Len(rs), f)
  <2>1. Len(rs) \in P
    BY <1>3
  <2> HIDE DEF Upto
  <2> QED
    BY <2>1
<1> QED
  BY <1>4 DEF IsReplay

\* Replay is the last of the states that the records make.
LEMMA ReplayFact ==
  ASSUME NEW s, NEW rs, Len(rs) \in Nat
  PROVE  \E f : IsReplay(f, s, rs) /\ Replay(s, rs) = f[Len(rs)]
<1> DEFINE state == CHOOSE f : IsReplay(f, s, rs)
<1>1. IsReplay(state, s, rs)
  BY ReplayExists, Zenon
<1>2. Replay(s, rs) = state[Len(rs)]
  BY Zenon DEF Replay, IsReplay
<1> QED
  BY <1>1, <1>2, Zenon

\* The states of a replay, without the recursive definition.
Steps(f, s, rs) ==
  /\ f[0] = s
  /\ \A n \in Nat : n + 1 <= Len(rs) => f[n + 1] = Apply(f[n], rs[n + 1])

\* Each state of a replay is the one before with one record applied.
LEMMA ReplaySteps ==
  ASSUME NEW s, NEW rs, Len(rs) \in Nat, NEW f, IsReplay(f, s, rs)
  PROVE  Steps(f, s, rs)
<1>1. \A n \in 0..Len(rs) : f[n] = IF n = 0 THEN s ELSE Apply(f[n - 1], rs[n])
  BY DEF IsReplay
<1>2. f[0] = s
  BY <1>1
<1>3. ASSUME NEW n \in Nat, n + 1 <= Len(rs) PROVE f[n + 1] = Apply(f[n], rs[n + 1])
  <2>1. n + 1 \in 0..Len(rs) /\ n + 1 # 0 /\ (n + 1) - 1 = n
    BY <1>3
  <2> QED
    BY <1>1, <2>1
<1> QED
  BY <1>2, <1>3 DEF Steps

\* Records that begin alike make the same states.
LEMMA ReplayAgrees ==
  ASSUME NEW s, NEW rs, Len(rs) \in Nat, NEW f, IsReplay(f, s, rs),
         NEW qs, Len(qs) \in Nat, NEW g, IsReplay(g, s, qs),
         NEW N \in Nat, N <= Len(rs), N <= Len(qs), \A n \in 1..N : rs[n] = qs[n]
  PROVE  f[N] = g[N]
<1>1. /\ f[0] = s /\ \A n \in Nat : n + 1 <= Len(rs) => f[n + 1] = Apply(f[n], rs[n + 1])
      /\ g[0] = s /\ \A n \in Nat : n + 1 <= Len(qs) => g[n + 1] = Apply(g[n], qs[n + 1])
  <2>1. Steps(f, s, rs) /\ Steps(g, s, qs)
    BY ReplaySteps
  <2> QED
    BY <2>1 DEF Steps
<1> DEFINE P == {n \in Nat : n <= N => f[n] = g[n]}
<1>2. 0 \in P
  BY <1>1
<1>3. ASSUME NEW n \in Nat, n \in P PROVE n + 1 \in P
  <2> SUFFICES ASSUME n + 1 <= N PROVE f[n + 1] = g[n + 1]
    OBVIOUS
  <2>1. f[n] = g[n] /\ n + 1 <= Len(rs) /\ n + 1 <= Len(qs) /\ n + 1 \in 1..N
    BY <1>3
  <2> QED
    BY <1>1, <2>1
<1>4. Nat \subseteq P
  <2> HIDE DEF P
  <2> QED
    BY <1>2, <1>3, Induction
<1>5. N \in P /\ N <= N
  BY <1>4
<1> QED
  BY <1>5

\* Replay of any number of records keeps the state sane.
LEMMA ReplayFollows ==
  ASSUME NEW s, Sane(s), NEW rs, Len(rs) \in Nat, NEW bound \in Nat,
         \A i \in 1..Len(rs) : RecordOK(rs[i]) /\ (Allocates(rs[i]) => rs[i].handle < bound),
         NEW f, IsReplay(f, s, rs), NEW N \in Nat, N <= Len(rs)
  PROVE  Follows(s, f[N], bound)
<1>1. f[0] = s /\ \A n \in Nat : n + 1 <= Len(rs) => f[n + 1] = Apply(f[n], rs[n + 1])
  <2>1. Steps(f, s, rs)
    BY ReplaySteps
  <2> QED
    BY <2>1 DEF Steps
<1> DEFINE P == {n \in Nat : n <= Len(rs) => Follows(s, f[n], bound)}
<1>2. 0 \in P
  <2>1. s.next \in Nat
    BY HandleNat DEF Sane
  <2>2. Follows(s, s, bound)
    BY <2>1 DEF Follows
  <2> QED
    BY <1>1, <2>2
<1>3. ASSUME NEW n \in Nat, n \in P PROVE n + 1 \in P
  <2> SUFFICES ASSUME n + 1 <= Len(rs) PROVE Follows(s, f[n + 1], bound)
    OBVIOUS
  <2>1. Follows(s, f[n], bound) /\ n + 1 \in 1..Len(rs)
    BY <1>3
  <2>2. Follows(f[n], f[n + 1], bound)
    BY <1>1, <2>1, ApplyFollows DEF Follows
  <2>3. s.next \in Nat /\ f[n].next \in Nat /\ f[n + 1].next \in Nat
    BY <2>1, <2>2, HandleNat DEF Sane, Follows
  <2> QED
    BY <2>1, <2>2, <2>3 DEF Follows
<1>4. Nat \subseteq P
  <2> HIDE DEF P
  <2> QED
    BY <1>2, <1>3, Induction
<1>5. N \in P
  BY <1>4
<1> QED
  BY <1>5
-----------------------------------------------------------------------------
(* Checkpoints and recovery.                                               *)

\* The greatest of a set of numbers is Max.
LEMMA MaxIs ==
  ASSUME NEW S, S \subseteq Nat, NEW m \in S, \A x \in S : x <= m
  PROVE  Max(S) = m
<1>1. \A y \in S : (\A x \in S : y >= x) => y = m
  OBVIOUS
<1>2. \A x \in S : m >= x
  OBVIOUS
<1> DEFINE y == CHOOSE y \in S : \A x \in S : y >= x
<1>3. y \in S /\ \A x \in S : y >= x
  BY <1>2, Zenon
<1> HIDE DEF y
<1>4. y = m
  BY <1>1, <1>3
<1> QED
  BY <1>4, Zenon DEF Max, y

\* A checkpoint has all but the pending chunks, without their references.
LEMMA LoadFact ==
  ASSUME NEW s, Sane(s)
  PROVE  LET t == Load(ToCheckpoint(s)) IN
         /\ Sane(t) /\ NonePending(t) /\ t.files = s.files /\ t.next = s.next
         /\ DOMAIN t.chunks = {h \in DOMAIN s.chunks : ~s.chunks[h].pending}
         /\ \A h \in DOMAIN t.chunks : t.chunks[h] = NewChunk(s.chunks[h].version)
<1> DEFINE kept == {h \in DOMAIN s.chunks : ~s.chunks[h].pending}
           versions == [h \in kept |-> s.chunks[h].version]
           t == Load(ToCheckpoint(s))
           cs == [h \in DOMAIN versions |-> NewChunk(versions[h])]
           S == {1, s.next} \cup {h + 1 : h \in DOMAIN versions}
<1>1. ToCheckpoint(s) = [files |-> s.files, next |-> s.next, versions |-> versions]
  BY DEF ToCheckpoint
<1>2. t = [files |-> s.files, chunks |-> cs, next |-> Max(S)]
  BY <1>1 DEF Load
<1>3. DOMAIN versions = kept /\ kept \subseteq Handle /\ \A h \in kept : h < s.next
  BY DEF Sane, IsChunks
<1>4. Max(S) = s.next
  <2>1. s.next \in Nat /\ 1 <= s.next
    BY HandleNat DEF Sane
  <2>2. ASSUME NEW h \in kept PROVE h \in Nat /\ h + 1 <= s.next
    <3>1. h \in Nat /\ h < s.next
      BY <1>3, HandleNat
    <3> QED
      BY <2>1, <3>1
  <2>3. S \subseteq Nat /\ s.next \in S /\ \A x \in S : x <= s.next
    BY <1>3, <2>1, <2>2
  <2> HIDE DEF S
  <2> QED
    BY <2>3, MaxIs
<1>5. \A h \in kept : s.chunks[h].version \in 1..MaxVersion
  BY DEF Sane, IsChunks, Chunk
<1>6. /\ DOMAIN cs = kept /\ cs = [h \in DOMAIN cs |-> cs[h]]
      /\ \A h \in kept : cs[h] = NewChunk(s.chunks[h].version)
  BY <1>3
<1> HIDE DEF cs, kept
<1>7. ASSUME NEW h \in kept PROVE cs[h] \in Chunk /\ ~cs[h].pending
  <2>1. PICK v \in 1..MaxVersion : v = s.chunks[h].version
    BY <1>5
  <2>2. cs[h] = [version |-> v, refcount |-> 0, pending |-> FALSE]
    BY <1>6, <2>1 DEF NewChunk
  <2> QED
    BY <2>2 DEF Chunk
<1>8. IsChunks(cs)
  BY <1>3, <1>6, <1>7 DEF IsChunks
<1>9. t.files = s.files /\ t.chunks = cs /\ t.next = s.next
  BY <1>2, <1>4
<1>10. Sane(t)
  <2>1. \A h \in Used(t.files) \cup DOMAIN t.chunks : h < t.next
    BY <1>3, <1>6, <1>9 DEF Sane
  <2>2. t = [files |-> t.files, chunks |-> t.chunks, next |-> t.next]
    BY <1>2, <1>9
  <2> HIDE DEF t
  <2> QED
    BY <1>8, <1>9, <2>1, <2>2 DEF Sane
<1>11. NonePending(t)
  BY <1>6, <1>7, <1>9 DEF NonePending
<1> QED
  BY <1>6, <1>9, <1>10, <1>11 DEF kept

\* Recovery counts the references again, and all chunks of files are in the table.
LEMMA RecomputeFact ==
  ASSUME NEW s, Sane(s)
  PROVE  LET t == RecomputeRefcounts(s) IN
         /\ Sane(t) /\ (NonePending(s) => NonePending(t))
         /\ t.files = s.files /\ t.next = s.next
         /\ DOMAIN t.chunks = DOMAIN s.chunks \cup Used(s.files)
         /\ \A h \in DOMAIN t.chunks :
              t.chunks[h] = [(IF h \in DOMAIN s.chunks THEN s.chunks[h] ELSE NewChunk(1))
                               EXCEPT !.refcount = References(s.files, DOMAIN s.files, h)]
<1> DEFINE used == Used(s.files)
           all == DOMAIN s.chunks \cup used
           old(h) == IF h \in DOMAIN s.chunks THEN s.chunks[h] ELSE NewChunk(1)
           refs(h) == References(s.files, DOMAIN s.files, h)
           cs == [h \in all |-> [old(h) EXCEPT !.refcount = refs(h)]]
           S == {s.next} \cup {h + 1 : h \in used}
           t == RecomputeRefcounts(s)
<1>1. t = [files |-> s.files, chunks |-> cs, next |-> Max(S)]
  <2>1. UNION {{s.files[p][i] : i \in DOMAIN s.files[p]} : p \in DOMAIN s.files} = used
    BY DEF Used, Range
  <2>2. t = [s EXCEPT !.chunks = cs, !.next = Max(S)]
    BY <2>1, Zenon DEF RecomputeRefcounts
  <2>3. s = [files |-> s.files, chunks |-> s.chunks, next |-> s.next]
    BY DEF Sane
  <2> HIDE DEF t, cs, S
  <2> QED
    BY <2>2, <2>3
<1>2. used \subseteq Handle /\ all \subseteq Handle /\ \A h \in all : h < s.next
  BY UsedHandles DEF Sane, IsChunks
<1>3. Max(S) = s.next
  <2>1. s.next \in Nat
    BY HandleNat DEF Sane
  <2>2. ASSUME NEW h \in used PROVE h \in Nat /\ h + 1 <= s.next
    <3>1. h \in Nat /\ h < s.next
      BY <1>2, HandleNat
    <3> QED
      BY <2>1, <3>1
  <2> HIDE DEF used
  <2>3. S \subseteq Nat /\ s.next \in S /\ \A x \in S : x <= s.next
    BY <2>1, <2>2
  <2> HIDE DEF S
  <2> QED
    BY <2>3, MaxIs
<1>4. ASSUME NEW h \in all
      PROVE  /\ cs[h] = [old(h) EXCEPT !.refcount = refs(h)]
             /\ cs[h] \in Chunk /\ (NonePending(s) => ~cs[h].pending)
  <2>1. old(h) \in Chunk
    BY HandleNat DEF Sane, IsChunks, NewChunk, Chunk
  <2>2. refs(h) \in Nat
    <3>1. IsFiles(s.files) /\ DOMAIN s.files \subseteq DOMAIN s.files
      BY DEF Sane
    <3> QED
      BY <3>1, ReferencesNat
  <2>3. cs[h] = [old(h) EXCEPT !.refcount = refs(h)]
    OBVIOUS
  <2>4. NonePending(s) => ~old(h).pending
    BY DEF NonePending, NewChunk
  <2> HIDE DEF cs, old, refs
  <2> QED
    BY <2>1, <2>2, <2>3, <2>4 DEF Chunk
<1>5. DOMAIN cs = all /\ cs = [h \in DOMAIN cs |-> cs[h]]
  OBVIOUS
<1> HIDE DEF cs
<1>6. IsChunks(cs)
  BY <1>2, <1>4, <1>5 DEF IsChunks
<1>7. t.files = s.files /\ t.chunks = cs /\ t.next = s.next
  BY <1>1, <1>3
<1>8. Sane(t)
  <2>1. \A h \in Used(t.files) \cup DOMAIN t.chunks : h < t.next
    BY <1>2, <1>5, <1>7
  <2>2. t = [files |-> t.files, chunks |-> t.chunks, next |-> t.next]
    BY <1>1, <1>7
  <2> HIDE DEF t
  <2> QED
    BY <1>6, <1>7, <2>1, <2>2 DEF Sane
<1>9. NonePending(s) => NonePending(t)
  BY <1>4, <1>5, <1>7 DEF NonePending
<1> HIDE DEF t
<1>10. \A h \in DOMAIN t.chunks : t.chunks[h] = [old(h) EXCEPT !.refcount = refs(h)]
  BY <1>4, <1>5, <1>7
<1> QED
  BY <1>5, <1>7, <1>8, <1>9, <1>10 DEF t

-----------------------------------------------------------------------------
(* The invariant, of the values s, d, t, cl and sv of the variables st, disk, *)
(* tail, call and served.                                                   *)

\* Memory and disk are states that records add up to, and the records that are
\* not flushed allocate no handle that memory would allocate again.
DiskInv(s, d, t) ==
  /\ Sane(s) /\ Sane(d) /\ NonePending(d) /\ d.next <= s.next
  /\ IsSeq(t)
  /\ \A i \in DOMAIN t :
       /\ t[i] = [record |-> t[i].record, owner |-> t[i].owner]
       /\ RecordOK(t[i].record) /\ t[i].owner \in Owner
       /\ Allocates(t[i].record) => t[i].record.handle < s.next

\* The types of a call's fields.
CallType(k) ==
  /\ k = [pc |-> k.pc, op |-> k.op, path |-> k.path, target |-> k.target,
          index |-> k.index, handle |-> k.handle, version |-> k.version]
  /\ k.pc \in PC /\ k.op \in Op /\ IsSeq(k.path) /\ IsSeq(k.target)
  /\ k.index \in Nat /\ k.handle \in 0..MaxHandle /\ k.version \in 0..MaxVersion
  /\ k.pc = "round" => k.version \in 1..MaxVersion

\* The record of the handle that call c allocated waits for the flush.
Allocated(t, c, h) ==
  \E i \in DOMAIN t : /\ t[i].owner = c /\ t[i].record.op = "alloc"
                      /\ t[i].record.handle = h

\* Between the allocation of a chunk and the record of its file.
Making(k) == k.pc \in {"create", "created", "failed"}

\* Chunkservers may be told of the handle.
Told(k) == k.pc \in {"created", "failed", "replaced", "grant", "round"}

\* A chunk that is being created is in the table and pending, and chunkservers
\* are told of no handle before its record is flushed.
CallOK(c, k, s, d, t) ==
  /\ CallType(k)
  /\ Making(k) => k.handle \in DOMAIN s.chunks /\ s.chunks[k.handle].pending
  /\ Told(k) => k.handle \in Handle /\ k.handle < d.next
  /\ k.pc = "create" => k.handle < d.next \/ Allocated(t, c, k.handle)

\* Every call creates a chunk of its own.
CallInv(cl, s, d, t) ==
  /\ cl = [c \in Call |-> cl[c]]
  /\ \A c \in Call : CallOK(c, cl[c], s, d, t)
  /\ \A c, e \in Call : c # e /\ Making(cl[c]) /\ Making(cl[e]) =>
       cl[c].handle # cl[e].handle

\* What chunkservers may have, or files refer to, is allocated on disk.
FreshInv(s, d, sv) ==
  /\ sv \in [Handle -> 0..MaxVersion]
  /\ \A h \in Handle : sv[h] > 0 => h < d.next
  /\ \A h \in DOMAIN s.chunks : ~s.chunks[h].pending => h < d.next

\* Files refer to chunks that are in the table, and complete.
UsedInv(s) == \A h \in Used(s.files) : h \in DOMAIN s.chunks /\ ~s.chunks[h].pending

\* The four parts.
World(s, d, t, cl, sv) ==
  DiskInv(s, d, t) /\ CallInv(cl, s, d, t) /\ FreshInv(s, d, sv) /\ UsedInv(s)

\* cow_mutex_ and the collector.
OtherInv ==
  /\ cow \in Call \cup {"none"}
  /\ gc = [pc |-> gc.pc, expired |-> gc.expired]
  /\ gc.pc \in {"idle", "remove", "flush"}

\* The inductive invariant.
MetaInv == World(st, disk, tail, call, served) /\ OtherInv

\* The handles of a sane state are numbers below next.
LEMMA SaneNumbers ==
  ASSUME NEW s, Sane(s)
  PROVE  /\ s.next \in Nat /\ 1 <= s.next
         /\ \A h \in DOMAIN s.chunks : h \in Handle /\ h \in Nat /\ h < s.next
BY HandleNat DEF Sane, IsChunks

-----------------------------------------------------------------------------
(* Steps that change one call.                                             *)

\* The paths of requests are sequences.
LEMMA PathSeq == IsSeq(<<>>) /\ \A p \in Source \cup Target : IsSeq(p)
<1>1. <<>> \in Seq({})
  BY EmptySeq
<1>2. IsSeq(<<>>)
  BY <1>1, SeqIsSeq
<1> QED
  BY <1>2, MetadataAssumption DEF IsSeq

\* A call that has not begun is typed.
LEMMA IdleType == CallType(Idle)
<1>1. IsSeq(<<>>) /\ 0 \in 0..MaxHandle /\ 0 \in 0..MaxVersion /\ 0 \in Nat
  BY PathSeq, MetadataAssumption
<1> QED
  BY <1>1 DEF CallType, Idle, PC, Op

\* A call that neither creates nor leases a chunk.
Quiet(k) == k.pc \in {"idle", "rename", "snapshot", "alloc", "cow", "flush"}

\* Nothing is asked of a quiet call.
LEMMA QuietOK ==
  ASSUME NEW c, NEW k, CallType(k), Quiet(k), NEW s, NEW d, NEW t
  PROVE  CallOK(c, k, s, d, t) /\ ~Making(k)
BY DEF CallOK, Quiet, Making, Told

\* What other calls may do to the state while call c is in progress.
LEMMA CallStays ==
  ASSUME NEW c, NEW k, NEW s, NEW d, NEW t, CallOK(c, k, s, d, t),
         NEW s2, NEW d2, NEW t2, d.next \in Nat, d2.next \in Nat, d.next <= d2.next,
         Making(k) => k.handle \in DOMAIN s2.chunks /\ s2.chunks[k.handle].pending,
         \A h \in Nat : Allocated(t, c, h) => Allocated(t2, c, h) \/ h < d2.next
  PROVE  CallOK(c, k, s2, d2, t2)
<1>1. k.handle \in Nat
  BY HandleNat DEF CallOK, CallType
<1>2. Told(k) => k.handle \in Handle /\ k.handle < d2.next
  BY <1>1 DEF CallOK
<1>3. k.pc = "create" => k.handle < d2.next \/ Allocated(t2, c, k.handle)
  BY <1>1 DEF CallOK
<1> QED
  BY <1>2, <1>3 DEF CallOK

\* One call changes, the others stay.
LEMMA CallsChange ==
  ASSUME NEW cl, NEW s, NEW d, NEW t, CallInv(cl, s, d, t), NEW s2, NEW d2, NEW t2,
         NEW c \in Call, NEW k, CallOK(c, k, s2, d2, t2),
         \A e \in Call : e # c => CallOK(e, cl[e], s2, d2, t2),
         \A e \in Call : e # c /\ Making(k) /\ Making(cl[e]) => k.handle # cl[e].handle,
         NEW cl2, cl2 = [cl EXCEPT ![c] = k]
  PROVE  CallInv(cl2, s2, d2, t2)
<1>1. cl = [e \in Call |-> cl[e]]
  BY DEF CallInv
<1>2. /\ cl2 = [e \in Call |-> cl2[e]] /\ cl2[c] = k
      /\ \A e \in Call : e # c => cl2[e] = cl[e]
  BY <1>1
<1>3. ASSUME NEW e \in Call PROVE CallOK(e, cl2[e], s2, d2, t2)
  BY <1>2
<1>4. ASSUME NEW a \in Call, NEW e \in Call, a # e, Making(cl2[a]), Making(cl2[e])
      PROVE  cl2[a].handle # cl2[e].handle
  <2>1. CASE a # c /\ e # c
    BY <1>2, <1>4, <2>1 DEF CallInv
  <2>2. CASE a = c
    BY <1>2, <1>4, <2>2
  <2>3. CASE e = c
    BY <1>2, <1>4, <2>3
  <2> QED
    BY <2>1, <2>2, <2>3
<1> QED
  BY <1>2, <1>3, <1>4 DEF CallInv

\* Steps that change nothing but a call.
LEMMA CallChange ==
  ASSUME NEW s, NEW d, NEW t, NEW cl, NEW sv, World(s, d, t, cl, sv),
         NEW c \in Call, NEW k, CallOK(c, k, s, d, t),
         Making(k) => Making(cl[c]) /\ k.handle = cl[c].handle,
         NEW cl2, cl2 = [cl EXCEPT ![c] = k]
  PROVE  World(s, d, t, cl2, sv)
<1>1. CallInv(cl, s, d, t)
  BY DEF World
<1>2. \A e \in Call : CallOK(e, cl[e], s, d, t)
  BY <1>1 DEF CallInv
<1>3. \A e \in Call : e # c /\ Making(k) /\ Making(cl[e]) => k.handle # cl[e].handle
  BY <1>1 DEF CallInv
<1>4. CallInv(cl2, s, d, t)
  BY <1>1, <1>2, <1>3, CallsChange
<1> QED
  BY <1>4 DEF World

\* A call becomes quiet, and nothing else changes.
LEMMA QuietChange ==
  ASSUME NEW s, NEW d, NEW t, NEW cl, NEW sv, World(s, d, t, cl, sv),
         NEW c \in Call, NEW k, CallType(k), Quiet(k),
         NEW cl2, cl2 = [cl EXCEPT ![c] = k]
  PROVE  World(s, d, t, cl2, sv)
BY QuietOK, CallChange

-----------------------------------------------------------------------------
(* Steps that write a record.                                              *)

\* What Append does, without its definition.
Appended(t, e, t2) ==
  /\ IsSeq(t2) /\ Len(t) \in Nat /\ DOMAIN t = 1..Len(t)
  /\ DOMAIN t2 = 1..(Len(t) + 1) /\ t2[Len(t) + 1] = e
  /\ \A i \in DOMAIN t : i \in DOMAIN t2 /\ t2[i] = t[i]
  /\ \A i \in DOMAIN t2 : i \in DOMAIN t \/ i = Len(t) + 1

\* Log appends to the tail.
LEMMA AppendFact ==
  ASSUME NEW t, IsSeq(t), NEW e
  PROVE  Appended(t, e, Append(t, e))
<1> DEFINE S == Range(t) \cup {e}
           t2 == Append(t, e)
<1>1. t \in Seq(S) /\ e \in S
  <2> DEFINE R == Range(t)
  <2>1. t \in Seq(R) /\ R \subseteq S
    BY DEF IsSeq
  <2>2. e \in S
    OBVIOUS
  <2> HIDE DEF S, R
  <2>3. Len(t) \in Nat /\ DOMAIN t = 1..Len(t) /\ \A i \in 1..Len(t) : t[i] \in S
    BY <2>1
  <2>4. t = [i \in 1..Len(t) |-> t[i]]
    BY <2>1
  <2> QED
    BY <2>2, <2>3, <2>4
<1>2. e \in S
  BY <1>1
<1> HIDE DEF S
<1>3. t2 \in Seq(S)
  BY <1>1, <1>2
<1>4. IsSeq(t2)
  BY <1>3, SeqIsSeq
<1>5. /\ Len(t) \in Nat /\ DOMAIN t = 1..Len(t) /\ DOMAIN t2 = 1..(Len(t) + 1)
      /\ t2[Len(t) + 1] = e /\ \A i \in 1..Len(t) : t2[i] = t[i]
  BY <1>1, <1>2
<1> QED
  BY <1>4, <1>5 DEF Appended

\* A record and the state that it makes, new being the chunks that it brings
\* into files.
LEMMA LogState ==
  ASSUME NEW s, NEW d, NEW t, NEW cl, NEW sv, World(s, d, t, cl, sv),
         NEW s2, NEW new, Applied(s, s2, new), \A h \in new : h < d.next,
         NEW r, RecordOK(r), Allocates(r) => r.handle < s2.next,
         NEW o \in Owner, NEW t2, t2 = Append(t, [record |-> r, owner |-> o])
  PROVE  /\ DiskInv(s2, d, t2) /\ FreshInv(s2, d, sv) /\ UsedInv(s2)
         /\ \A e \in Call : (Making(cl[e]) => cl[e].handle \notin new) =>
              CallOK(e, cl[e], s2, d, t2)
<1>1. DiskInv(s, d, t) /\ CallInv(cl, s, d, t) /\ FreshInv(s, d, sv) /\ UsedInv(s)
  BY DEF World
<1>2. Sane(s) /\ Sane(d) /\ Sane(s2) /\ s.next <= s2.next /\ IsSeq(t)
  BY <1>1 DEF DiskInv, Applied
<1>3. s.next \in Nat /\ d.next \in Nat /\ s2.next \in Nat
  BY <1>2, SaneNumbers
<1> DEFINE x == [record |-> r, owner |-> o]
<1>4. x = [record |-> x.record, owner |-> x.owner] /\ x.record = r /\ x.owner = o
      /\ t2 = Append(t, x)
  OBVIOUS
<1> HIDE DEF x
<1>5. /\ IsSeq(t2) /\ t2[Len(t) + 1] = x
      /\ \A i \in DOMAIN t : i \in DOMAIN t2 /\ t2[i] = t[i]
      /\ \A i \in DOMAIN t2 : i \in DOMAIN t \/ i = Len(t) + 1
  <2>1. Appended(t, x, t2)
    BY <1>2, <1>4, AppendFact, Zenon
  <2> QED
    BY <2>1 DEF Appended
<1>6. DiskInv(s2, d, t2)
  <2>1. ASSUME NEW i \in DOMAIN t2
        PROVE  /\ t2[i] = [record |-> t2[i].record, owner |-> t2[i].owner]
               /\ RecordOK(t2[i].record) /\ t2[i].owner \in Owner
               /\ Allocates(t2[i].record) => t2[i].record.handle < s2.next
    <3>1. CASE i \in DOMAIN t
      <4>1. t2[i] = t[i]
        BY <1>5, <3>1
      <4>2. Allocates(t[i].record) => t[i].record.handle \in Nat
        BY <1>1, <3>1, HandleNat DEF DiskInv, RecordOK, Allocates
      <4>3. Allocates(t[i].record) => t[i].record.handle < s2.next
        BY <1>1, <1>2, <1>3, <3>1, <4>2 DEF DiskInv
      <4> QED
        BY <1>1, <3>1, <4>1, <4>3 DEF DiskInv
    <3>2. CASE i = Len(t) + 1
      BY <1>4, <1>5, <3>2
    <3> QED
      BY <1>5, <3>1, <3>2
  <2>2. d.next <= s2.next
    BY <1>1, <1>2, <1>3 DEF DiskInv
  <2> QED
    BY <1>1, <1>2, <1>5, <2>1, <2>2 DEF DiskInv
<1>7. FreshInv(s2, d, sv)
  <2>1. ASSUME NEW h \in DOMAIN s2.chunks, ~s2.chunks[h].pending PROVE h < d.next
    <3>1. CASE h \in DOMAIN s.chunks
      BY <1>1, <2>1, <3>1 DEF FreshInv, Applied
    <3>2. CASE h \notin DOMAIN s.chunks
      BY <3>2 DEF Applied
    <3> QED
      BY <3>1, <3>2
  <2> QED
    BY <1>1, <2>1 DEF FreshInv
<1>8. UsedInv(s2)
  <2>1. ASSUME NEW h \in Used(s2.files) PROVE h \in DOMAIN s2.chunks /\ ~s2.chunks[h].pending
    <3>1. CASE h \in Used(s.files)
      BY <1>1, <3>1 DEF UsedInv, Applied
    <3>2. CASE h \notin Used(s.files)
      BY <3>2 DEF Applied
    <3> QED
      BY <3>1, <3>2
  <2> QED
    BY <2>1 DEF UsedInv
<1>9. ASSUME NEW e \in Call, Making(cl[e]) => cl[e].handle \notin new
      PROVE  CallOK(e, cl[e], s2, d, t2)
  <2>1. CallOK(e, cl[e], s, d, t)
    BY <1>1 DEF CallInv
  <2>2. Making(cl[e]) =>
          cl[e].handle \in DOMAIN s2.chunks /\ s2.chunks[cl[e].handle].pending
    BY <1>9, <2>1 DEF CallOK, Applied
  <2>3. \A h \in Nat : Allocated(t, e, h) => Allocated(t2, e, h)
    BY <1>5 DEF Allocated
  <2> QED
    BY <1>3, <2>1, <2>2, <2>3, CallStays
<1> QED
  BY <1>6, <1>7, <1>8, <1>9

\* The last section of a handler: the call changes the state, and no longer
\* makes a chunk.
LEMMA LogCall ==
  ASSUME NEW s, NEW d, NEW t, NEW cl, NEW sv, World(s, d, t, cl, sv),
         NEW s2, NEW new, Applied(s, s2, new), \A h \in new : h < d.next,
         NEW r, RecordOK(r), Allocates(r) => r.handle < s2.next,
         NEW c \in Call, NEW t2, t2 = Append(t, [record |-> r, owner |-> c]),
         NEW k, CallType(k), ~Making(k), Told(k) => k.handle \in Handle /\ k.handle < d.next,
         \A e \in Call : e # c /\ Making(cl[e]) => cl[e].handle \notin new,
         NEW cl2, cl2 = [cl EXCEPT ![c] = k]
  PROVE  World(s2, d, t2, cl2, sv)
<1>1. c \in Owner
  BY DEF Owner
<1>2. /\ DiskInv(s2, d, t2) /\ FreshInv(s2, d, sv) /\ UsedInv(s2)
      /\ \A e \in Call : (Making(cl[e]) => cl[e].handle \notin new) =>
           CallOK(e, cl[e], s2, d, t2)
  BY <1>1, LogState
<1>3. CallOK(c, k, s2, d, t2)
  BY DEF CallOK, Making
<1>4. CallInv(cl2, s2, d, t2)
  <2>1. CallInv(cl, s, d, t)
    BY DEF World
  <2>2. \A e \in Call : e # c => CallOK(e, cl[e], s2, d, t2)
    BY <1>2
  <2> QED
    BY <1>3, <2>1, <2>2, CallsChange
<1> QED
  BY <1>2, <1>4 DEF World
\* A handler changes the namespace and then waits for its record.
LEMMA LogQuiet ==
  ASSUME NEW s, NEW d, NEW t, NEW cl, NEW sv, World(s, d, t, cl, sv),
         NEW s2, Applied(s, s2, {}), NEW r, RecordOK(r), ~Allocates(r),
         NEW c \in Call, NEW t2, t2 = Append(t, [record |-> r, owner |-> c]),
         NEW k, CallType(k), Quiet(k), NEW cl2, cl2 = [cl EXCEPT ![c] = k]
  PROVE  World(s2, d, t2, cl2, sv)
<1>1. ~Making(k) /\ ~Told(k)
  BY DEF Quiet, Making, Told
<1> DEFINE new == {}
<1>2. /\ \A h \in new : h < d.next
      /\ \A e \in Call : e # c /\ Making(cl[e]) => cl[e].handle \notin new
  OBVIOUS
<1>3. Applied(s, s2, new)
  OBVIOUS
<1> HIDE DEF new
<1> QED
  BY <1>1, <1>2, <1>3, LogCall

-----------------------------------------------------------------------------
(* The actions of calls.                                                   *)

\* What the invariant says of one call.
LEMMA CallFact ==
  ASSUME MetaInv, NEW c \in Call
  PROVE  /\ CallOK(c, call[c], st, disk, tail) /\ CallType(call[c])
         /\ Sane(st) /\ Sane(disk) /\ World(st, disk, tail, call, served)
         /\ call = [e \in Call |-> call[e]]
         /\ \A e \in Call : e # c /\ Making(call[c]) /\ Making(call[e]) =>
              call[e].handle # call[c].handle
BY DEF MetaInv, World, DiskInv, CallInv, CallOK

\* A call goes on to another section.
LEMMA PcFact ==
  ASSUME NEW k, CallType(k), NEW pc \in PC, pc # "round"
  PROVE  /\ CallType([k EXCEPT !.pc = pc]) /\ [k EXCEPT !.pc = pc].pc = pc
         /\ [k EXCEPT !.pc = pc].handle = k.handle
<1> DEFINE l == [k EXCEPT !.pc = pc]
<1>1. k = [pc |-> k.pc, op |-> k.op, path |-> k.path, target |-> k.target,
           index |-> k.index, handle |-> k.handle, version |-> k.version]
  BY DEF CallType
<1>2. l = [pc |-> pc, op |-> k.op, path |-> k.path, target |-> k.target,
           index |-> k.index, handle |-> k.handle, version |-> k.version]
  BY <1>1
<1> HIDE DEF l
<1>3. CallType(l) /\ l.pc = pc /\ l.handle = k.handle
  BY <1>2 DEF CallType
<1> QED
  BY <1>3 DEF l

\* The requests that a call begins with.
LEMMA BeginType ==
  ASSUME NEW k, NEW pc \in PC \ {"round"}, NEW op \in Op, NEW path, IsSeq(path),
         NEW target, IsSeq(target), NEW index \in Nat,
         k = [pc |-> pc, op |-> op, path |-> path, target |-> target,
              index |-> index, handle |-> 0, version |-> 0]
  PROVE  CallType(k) /\ k.pc = pc
<1>1. /\ k.pc = pc /\ k.op = op /\ k.path = path /\ k.target = target
      /\ k.index = index /\ k.handle = 0 /\ k.version = 0
      /\ k = [pc |-> k.pc, op |-> k.op, path |-> k.path, target |-> k.target,
              index |-> k.index, handle |-> k.handle, version |-> k.version]
  OBVIOUS
<1>2. 0 \in 0..MaxHandle /\ 0 \in 0..MaxVersion
  BY MetadataAssumption
<1>3. pc \in PC /\ pc # "round"
  OBVIOUS
<1> QED
  BY <1>1, <1>2, <1>3, Zenon DEF CallType

\* Requests that name one path.
LEMMA BeginOne ==
  ASSUME NEW pc, NEW op, NEW path
  PROVE  [Idle EXCEPT !.pc = pc, !.op = op, !.path = path] =
           [pc |-> pc, op |-> op, path |-> path, target |-> <<>>,
             index |-> 0, handle |-> 0, version |-> 0]
<1> DEFINE k1 == [Idle EXCEPT !.pc = pc]
           k2 == [k1 EXCEPT !.op = op]
           k3 == [k2 EXCEPT !.path = path]
<1>1. k1 =
      [pc |-> pc, op |-> "none", path |-> <<>>, target |-> <<>>,
             index |-> 0, handle |-> 0, version |-> 0]
  BY DEF Idle
<1>2. k2 =
      [pc |-> pc, op |-> op, path |-> <<>>, target |-> <<>>,
             index |-> 0, handle |-> 0, version |-> 0]
  <2> HIDE DEF k1
  <2> QED
    BY <1>1
<1>3. k3 =
      [pc |-> pc, op |-> op, path |-> path, target |-> <<>>,
             index |-> 0, handle |-> 0, version |-> 0]
  <2> HIDE DEF k2
  <2> QED
    BY <1>2
<1> QED
  BY <1>3

\* The request of Rename and Snapshot.
TwoPaths(pc, op, path, target) ==
  [Idle EXCEPT !.pc = pc, !.op = op, !.path = path, !.target = target]

\* Requests that name two paths.
LEMMA BeginTwo ==
  ASSUME NEW pc, NEW op, NEW path, NEW target
  PROVE  TwoPaths(pc, op, path, target) =
           [pc |-> pc, op |-> op, path |-> path, target |-> target,
             index |-> 0, handle |-> 0, version |-> 0]
<1> DEFINE k1 == [Idle EXCEPT !.pc = pc]
           k2 == [k1 EXCEPT !.op = op]
           k3 == [k2 EXCEPT !.path = path]
           k4 == [k3 EXCEPT !.target = target]
<1>1. k1 =
      [pc |-> pc, op |-> "none", path |-> <<>>, target |-> <<>>,
             index |-> 0, handle |-> 0, version |-> 0]
  BY DEF Idle
<1>2. k2 =
      [pc |-> pc, op |-> op, path |-> <<>>, target |-> <<>>,
             index |-> 0, handle |-> 0, version |-> 0]
  <2> HIDE DEF k1
  <2> QED
    BY <1>1
<1>3. k3 =
      [pc |-> pc, op |-> op, path |-> path, target |-> <<>>,
             index |-> 0, handle |-> 0, version |-> 0]
  <2> HIDE DEF k2
  <2> QED
    BY <1>2
<1>4. k4 =
      [pc |-> pc, op |-> op, path |-> path, target |-> target,
             index |-> 0, handle |-> 0, version |-> 0]
  <2> HIDE DEF k3
  <2> QED
    BY <1>3
<1> QED
  BY <1>4 DEF TwoPaths

\* The request of AddChunk.
AtEnd(pc, op, path, index) ==
  [Idle EXCEPT !.pc = pc, !.op = op, !.path = path, !.index = index]

\* AddChunk.
LEMMA BeginAdd ==
  ASSUME NEW pc, NEW op, NEW path, NEW index
  PROVE  AtEnd(pc, op, path, index) =
           [pc |-> pc, op |-> op, path |-> path, target |-> <<>>,
             index |-> index, handle |-> 0, version |-> 0]
<1> DEFINE k1 == [Idle EXCEPT !.pc = pc]
           k2 == [k1 EXCEPT !.op = op]
           k3 == [k2 EXCEPT !.path = path]
           k4 == [k3 EXCEPT !.index = index]
<1>1. k1 =
      [pc |-> pc, op |-> "none", path |-> <<>>, target |-> <<>>,
             index |-> 0, handle |-> 0, version |-> 0]
  BY DEF Idle
<1>2. k2 =
      [pc |-> pc, op |-> op, path |-> <<>>, target |-> <<>>,
             index |-> 0, handle |-> 0, version |-> 0]
  <2> HIDE DEF k1
  <2> QED
    BY <1>1
<1>3. k3 =
      [pc |-> pc, op |-> op, path |-> path, target |-> <<>>,
             index |-> 0, handle |-> 0, version |-> 0]
  <2> HIDE DEF k2
  <2> QED
    BY <1>2
<1>4. k4 =
      [pc |-> pc, op |-> op, path |-> path, target |-> <<>>,
             index |-> index, handle |-> 0, version |-> 0]
  <2> HIDE DEF k3
  <2> QED
    BY <1>3
<1> QED
  BY <1>4 DEF AtEnd

\* The request of FindLeaseHolder.
LeaseOn(op, path, index) ==
  [Idle EXCEPT !.op = op, !.path = path, !.index = index]

\* FindLeaseHolder.
LEMMA BeginLease ==
  ASSUME NEW op, NEW path, NEW index
  PROVE  LeaseOn(op, path, index) =
           [pc |-> "idle", op |-> op, path |-> path, target |-> <<>>,
             index |-> index, handle |-> 0, version |-> 0]
<1> DEFINE k1 == [Idle EXCEPT !.op = op]
           k2 == [k1 EXCEPT !.path = path]
           k3 == [k2 EXCEPT !.index = index]
<1>1. k1 =
      [pc |-> "idle", op |-> op, path |-> <<>>, target |-> <<>>,
             index |-> 0, handle |-> 0, version |-> 0]
  BY DEF Idle
<1>2. k2 =
      [pc |-> "idle", op |-> op, path |-> path, target |-> <<>>,
             index |-> 0, handle |-> 0, version |-> 0]
  <2> HIDE DEF k1
  <2> QED
    BY <1>1
<1>3. k3 =
      [pc |-> "idle", op |-> op, path |-> path, target |-> <<>>,
             index |-> index, handle |-> 0, version |-> 0]
  <2> HIDE DEF k2
  <2> QED
    BY <1>2
<1> QED
  BY <1>3 DEF LeaseOn

\* The request of a regrant.
Round(pc, op, h, v) ==
  [Idle EXCEPT !.pc = pc, !.op = op, !.handle = h, !.version = v]

\* A regrant.
LEMMA BeginRegrant ==
  ASSUME NEW pc, NEW op, NEW h, NEW v
  PROVE  Round(pc, op, h, v) =
           [pc |-> pc, op |-> op, path |-> <<>>, target |-> <<>>,
             index |-> 0, handle |-> h, version |-> v]
<1> DEFINE k1 == [Idle EXCEPT !.pc = pc]
           k2 == [k1 EXCEPT !.op = op]
           k3 == [k2 EXCEPT !.handle = h]
           k4 == [k3 EXCEPT !.version = v]
<1>1. k1 =
      [pc |-> pc, op |-> "none", path |-> <<>>, target |-> <<>>,
             index |-> 0, handle |-> 0, version |-> 0]
  BY DEF Idle
<1>2. k2 =
      [pc |-> pc, op |-> op, path |-> <<>>, target |-> <<>>,
             index |-> 0, handle |-> 0, version |-> 0]
  <2> HIDE DEF k1
  <2> QED
    BY <1>1
<1>3. k3 =
      [pc |-> pc, op |-> op, path |-> <<>>, target |-> <<>>,
             index |-> 0, handle |-> h, version |-> 0]
  <2> HIDE DEF k2
  <2> QED
    BY <1>2
<1>4. k4 =
      [pc |-> pc, op |-> op, path |-> <<>>, target |-> <<>>,
             index |-> 0, handle |-> h, version |-> v]
  <2> HIDE DEF k3
  <2> QED
    BY <1>3
<1> QED
  BY <1>4 DEF Round

\* A handler returns.
LEMMA ReturnStep ==
  ASSUME MetaInv, NEW c \in Call, Return(c)
  PROVE  MetaInv'
<1>1. CallType(Idle) /\ Quiet(Idle)
  BY IdleType DEF Idle, Quiet
<1>2. World(st, disk, tail, call', served)
  BY <1>1, CallFact, QuietChange DEF Return
<1> QED
  BY <1>2 DEF Return, MetaInv, OtherInv

\* Master::Create keeps the invariant.
LEMMA CreateStep ==
  ASSUME MetaInv, NEW c \in Call, NEW path \in Target, Create(c, path)
  PROVE  MetaInv'
<1> DEFINE k == [Idle EXCEPT !.pc = "flush", !.op = "create", !.path = path]
           r == [op |-> "create", path |-> path]
<1>1. /\ st' = ApplyCreate(st, path) /\ tail' = Append(tail, [record |-> r, owner |-> c])
      /\ call' = [call EXCEPT ![c] = k] /\ UNCHANGED <<disk, cow, gc, served>>
  BY Zenon DEF Create, Log
<1>2. IsSeq(path)
  BY PathSeq
<1>3. CallType(k) /\ Quiet(k)
  <2>1. k = [pc |-> "flush", op |-> "create", path |-> path, target |-> <<>>,
             index |-> 0, handle |-> 0, version |-> 0]
    BY BeginOne
  <2>2. "flush" \in PC \ {"round"} /\ "create" \in Op /\ IsSeq(<<>>) /\ 0 \in Nat
    BY PathSeq DEF PC, Op
  <2> HIDE DEF k
  <2> QED
    BY <1>2, <2>1, <2>2, BeginType DEF Quiet
<1>4. RecordOK(r) /\ ~Allocates(r)
  BY <1>2 DEF RecordOK, Allocates
<1> HIDE DEF k, r
<1>5. Applied(st, st', {})
  BY <1>1, <1>2, CallFact, CreateApplied
<1>6. World(st', disk, tail', call', served)
  BY <1>1, <1>3, <1>4, <1>5, CallFact, LogQuiet
<1> QED
  BY <1>1, <1>6 DEF MetaInv, OtherInv

\* Master::Remove keeps the invariant, whether it hides the file or removes it.
LEMMA RemoveFileStep ==
  ASSUME MetaInv, NEW c \in Call, NEW path \in Source, RemoveFile(c, path)
  PROVE  MetaInv'
<1> DEFINE k == [Idle EXCEPT !.pc = "flush", !.op = "remove", !.path = path]
           remove == [op |-> "remove", path |-> path]
           rename(hidden) == [op |-> "rename", path |-> path, target |-> hidden]
<1>1. /\ \/ /\ st' = ApplyRemove(st, path)
            /\ tail' = Append(tail, [record |-> remove, owner |-> c])
         \/ \E hidden \in {HiddenNameFor(path, s) : s \in Stamp} :
              /\ st' = ApplyRename(st, path, hidden)
              /\ tail' = Append(tail, [record |-> rename(hidden), owner |-> c])
      /\ call' = [call EXCEPT ![c] = k] /\ UNCHANGED <<disk, cow, gc, served>>
  BY Zenon DEF RemoveFile, Log
<1>2. IsSeq(path)
  BY PathSeq
<1>3. CallType(k) /\ Quiet(k)
  <2>1. k = [pc |-> "flush", op |-> "remove", path |-> path, target |-> <<>>,
             index |-> 0, handle |-> 0, version |-> 0]
    BY BeginOne
  <2>2. "flush" \in PC \ {"round"} /\ "remove" \in Op /\ IsSeq(<<>>) /\ 0 \in Nat
    BY PathSeq DEF PC, Op
  <2> HIDE DEF k
  <2> QED
    BY <1>2, <2>1, <2>2, BeginType DEF Quiet
<1>4. PICK r, s2 : /\ st' = s2 /\ Applied(st, s2, {}) /\ RecordOK(r) /\ ~Allocates(r)
                   /\ tail' = Append(tail, [record |-> r, owner |-> c])
  <2>1. CASE /\ st' = ApplyRemove(st, path)
             /\ tail' = Append(tail, [record |-> remove, owner |-> c])
    <3>1. RecordOK(remove) /\ ~Allocates(remove)
      BY DEF RecordOK, Allocates
    <3>2. Applied(st, ApplyRemove(st, path), {})
      BY CallFact, RemoveApplied
    <3> HIDE DEF remove
    <3> QED
      BY <2>1, <3>1, <3>2
  <2>2. ASSUME NEW hidden \in {HiddenNameFor(path, s) : s \in Stamp},
               st' = ApplyRename(st, path, hidden),
               tail' = Append(tail, [record |-> rename(hidden), owner |-> c])
        PROVE  \E r, s2 : /\ st' = s2 /\ Applied(st, s2, {}) /\ RecordOK(r) /\ ~Allocates(r)
                          /\ tail' = Append(tail, [record |-> r, owner |-> c])
    <3>1. IsSeq(hidden)
      BY <1>2, HiddenSeq
    <3>2. PICK r : r = rename(hidden)
      OBVIOUS
    <3>3. RecordOK(r) /\ ~Allocates(r)
      BY <1>2, <3>1, <3>2 DEF RecordOK, Allocates
    <3>4. Applied(st, ApplyRename(st, path, hidden), {})
      BY <1>2, <3>1, CallFact, RenameApplied
    <3> HIDE DEF rename
    <3> QED
      BY <2>2, <3>2, <3>3, <3>4
  <2> HIDE DEF remove, rename
  <2> QED
    BY <1>1, <2>1, <2>2
<1> HIDE DEF k
<1>5. World(st', disk, tail', call', served)
  BY <1>1, <1>3, <1>4, CallFact, LogQuiet
<1> QED
  BY <1>1, <1>5 DEF MetaInv, OtherInv

\* The checks of Rename and Snapshot keep the invariant.
LEMMA CheckTwoPathsStep ==
  ASSUME MetaInv, NEW c \in Call, NEW op \in {"rename", "snapshot"}, NEW path \in Source,
         NEW target \in Target, CheckTwoPaths(c, op, path, target)
  PROVE  MetaInv'
<1> DEFINE k == [Idle EXCEPT !.pc = op, !.op = op, !.path = path, !.target = target]
<1>1. call' = [call EXCEPT ![c] = k] /\ UNCHANGED <<st, disk, tail, cow, gc, served>>
  BY Zenon DEF CheckTwoPaths
<1>2. CallType(k) /\ Quiet(k)
  <2>1. k = [pc |-> op, op |-> op, path |-> path, target |-> target,
             index |-> 0, handle |-> 0, version |-> 0]
    <3>1. k = TwoPaths(op, op, path, target)
      BY DEF TwoPaths
    <3> HIDE DEF k
    <3> QED
      BY <3>1, BeginTwo, Zenon
  <2>2. op \in PC \ {"round"} /\ op \in Op /\ IsSeq(path) /\ IsSeq(target) /\ 0 \in Nat
    BY PathSeq DEF PC, Op
  <2> HIDE DEF k
  <2> QED
    BY <2>1, <2>2, BeginType DEF Quiet
<1> HIDE DEF k
<1>3. World(st, disk, tail, call', served)
  BY <1>1, <1>2, CallFact, QuietChange
<1> QED
  BY <1>1, <1>3 DEF MetaInv, OtherInv

\* Master::Rename keeps the invariant.
LEMMA RenameStep ==
  ASSUME MetaInv, NEW c \in Call, Rename(c)
  PROVE  MetaInv'
<1> DEFINE k == call[c]
           l == [k EXCEPT !.pc = "flush"]
           r == [op |-> "rename", path |-> k.path, target |-> k.target]
<1>1. /\ st' = ApplyRename(st, k.path, k.target)
      /\ tail' = Append(tail, [record |-> r, owner |-> c])
      /\ call' = [call EXCEPT ![c] = l] /\ UNCHANGED <<disk, cow, gc, served>>
  BY Zenon DEF Rename, Log
<1>2. CallType(k) /\ IsSeq(k.path) /\ IsSeq(k.target)
  BY CallFact DEF CallType
<1>3. RecordOK(r) /\ ~Allocates(r)
  BY <1>2 DEF RecordOK, Allocates
<1>4. CallType(l) /\ Quiet(l)
  BY <1>2, PcFact DEF Quiet, PC
<1> HIDE DEF k, l, r
<1>5. Applied(st, st', {})
  BY <1>1, <1>2, CallFact, RenameApplied
<1>6. World(st', disk, tail', call', served)
  BY <1>1, <1>3, <1>4, <1>5, CallFact, LogQuiet
<1> QED
  BY <1>1, <1>6 DEF MetaInv, OtherInv

\* Master::Snapshot keeps the invariant.
LEMMA SnapshotStep ==
  ASSUME MetaInv, NEW c \in Call, SnapshotFinish(c)
  PROVE  MetaInv'
<1> DEFINE k == call[c]
           l == [k EXCEPT !.pc = "flush"]
           r == [op |-> "snapshot", path |-> k.path, target |-> k.target]
<1>1. /\ st' = ApplySnapshot(st, k.path, k.target)
      /\ tail' = Append(tail, [record |-> r, owner |-> c])
      /\ call' = [call EXCEPT ![c] = l] /\ UNCHANGED <<disk, cow, gc, served>>
  BY Zenon DEF SnapshotFinish, Log
<1>2. CallType(k) /\ IsSeq(k.path) /\ IsSeq(k.target)
  BY CallFact DEF CallType
<1>3. RecordOK(r) /\ ~Allocates(r)
  BY <1>2 DEF RecordOK, Allocates
<1>4. CallType(l) /\ Quiet(l)
  BY <1>2, PcFact DEF Quiet, PC
<1> HIDE DEF k, l, r
<1>5. Applied(st, st', {})
  BY <1>1, <1>2, CallFact, SnapshotApplied
<1>6. World(st', disk, tail', call', served)
  BY <1>1, <1>3, <1>4, <1>5, CallFact, LogQuiet
<1> QED
  BY <1>1, <1>6 DEF MetaInv, OtherInv
\* The chunk that a file has is complete, and its handle is on disk.
LEMMA CurrentFact ==
  ASSUME MetaInv, NEW k, k.index \in Nat, NEW h, h = Current(k), h \in DOMAIN st.chunks
  PROVE  h \in Handle /\ h < disk.next /\ ~st.chunks[h].pending
<1>1. Sane(st) /\ FreshInv(st, disk, served) /\ UsedInv(st)
  BY DEF MetaInv, World, DiskInv
<1>2. h \in Handle /\ h # 0
  BY <1>1, HandleNat DEF Sane, IsChunks
<1>3. k.path \in DOMAIN st.files /\ k.index < Len(st.files[k.path]) /\ h = st.files[k.path][k.index + 1]
  BY <1>2 DEF Current, Exists
<1>4. st.files[k.path] \in Seq(Handle)
  BY <1>1, <1>3 DEF Sane, IsFiles
<1>5. k.index + 1 \in DOMAIN st.files[k.path]
  BY <1>3, <1>4
<1>6. h \in Used(st.files)
  BY <1>3, <1>5 DEF Used, Range
<1> QED
  BY <1>1, <1>2, <1>6 DEF FreshInv, UsedInv

\* The checks of AddChunk keep the invariant.
LEMMA AddChunkStep ==
  ASSUME MetaInv, NEW c \in Call, NEW path \in Source, AddChunk(c, path)
  PROVE  MetaInv'
<1> DEFINE n == Len(st.files[path])
           k == [Idle EXCEPT !.pc = "alloc", !.op = "add", !.path = path, !.index = n]
<1>1. /\ call' = [call EXCEPT ![c] = k] /\ Exists(st.files, path)
      /\ UNCHANGED <<st, disk, tail, cow, gc, served>>
  BY Zenon DEF AddChunk
<1>2. n \in Nat
  BY <1>1, CallFact DEF Exists, Sane, IsFiles
<1> HIDE DEF n
<1>3. CallType(k) /\ Quiet(k)
  <2>1. k = [pc |-> "alloc", op |-> "add", path |-> path, target |-> <<>>,
             index |-> n, handle |-> 0, version |-> 0]
    <3>1. k = AtEnd("alloc", "add", path, n)
      BY DEF AtEnd
    <3> HIDE DEF k
    <3> QED
      BY <3>1, BeginAdd, Zenon
  <2>2. "alloc" \in PC \ {"round"} /\ "add" \in Op /\ IsSeq(<<>>) /\ IsSeq(path)
    BY PathSeq DEF PC, Op
  <2> HIDE DEF k
  <2> QED
    BY <1>2, <2>1, <2>2, BeginType DEF Quiet
<1> HIDE DEF k
<1>4. World(st, disk, tail, call', served)
  BY <1>1, <1>3, CallFact, QuietChange
<1> QED
  BY <1>1, <1>4 DEF MetaInv, OtherInv

\* What AllocHandle makes of state s.
WithPending(s, h) ==
  [ApplyAllocHandle(s, h) EXCEPT
    !.chunks = [ChunkCreate(@, h, 1) EXCEPT ![h].pending = TRUE]]

\* A chunk that is allocated is above all others.
LEMMA AllocState ==
  ASSUME NEW s, Sane(s), NEW h, h = s.next, h <= MaxHandle, NEW s2, s2 = WithPending(s, h)
  PROVE  /\ Sane(s2) /\ s2.next = h + 1 /\ s2.files = s.files /\ h \in Handle
         /\ h \notin DOMAIN s.chunks /\ DOMAIN s2.chunks = DOMAIN s.chunks \cup {h}
         /\ s2.chunks[h].pending /\ \A g \in DOMAIN s.chunks : s2.chunks[g] = s.chunks[g]
<1>1. h \in Handle /\ h \in Nat /\ \A g \in Used(s.files) \cup DOMAIN s.chunks : g < h
  BY HandleNat DEF Sane, Handle
<1>2. h \notin DOMAIN s.chunks /\ IsChunks(s.chunks) /\ DOMAIN s.chunks \subseteq Nat
      /\ Used(s.files) \subseteq Nat
  <2>1. IsFiles(s.files)
    BY DEF Sane
  <2> QED
    BY <1>1, <2>1, HandleNat, UsedHandles DEF Sane, IsChunks
<1> DEFINE ds == ChunkCreate(s.chunks, h, 1)
           cs == [ds EXCEPT ![h].pending = TRUE]
           u == ApplyAllocHandle(s, h)
<1>3. /\ IsChunks(ds) /\ DOMAIN ds = DOMAIN s.chunks \cup {h}
      /\ \A g \in DOMAIN s.chunks : ds[g] = s.chunks[g]
      /\ ds[h] = NewChunk(1)
  BY <1>1, <1>2, CreateFact
<1>4. u = [files |-> s.files, chunks |-> s.chunks, next |-> h + 1]
  <2>1. h + 1 > s.next
    BY <1>1
  <2> QED
    BY <1>1, <2>1, AllocApplied
<1>5. s2 = [files |-> s.files, chunks |-> cs, next |-> h + 1]
  <2>1. u.chunks = s.chunks
    BY <1>4
  <2>2. s2 = [u EXCEPT !.chunks = [ChunkCreate(u.chunks, h, 1) EXCEPT ![h].pending = TRUE]]
    BY DEF WithPending
  <2>3. s2 = [u EXCEPT !.chunks = cs]
    BY <2>1, <2>2
  <2> HIDE DEF u, cs
  <2> QED
    BY <1>4, <2>3
<1> HIDE DEF ds
<1>6. /\ IsChunks(cs) /\ DOMAIN cs = DOMAIN s.chunks \cup {h} /\ cs[h].pending
      /\ \A g \in DOMAIN s.chunks : cs[g] = s.chunks[g]
  <2>1. cs[h] = [NewChunk(1) EXCEPT !.pending = TRUE] /\ \A g \in DOMAIN ds : g # h => cs[g] = ds[g]
    BY <1>3 DEF IsChunks
  <2>2. cs[h] \in Chunk /\ cs[h].pending
    <3> HIDE DEF cs
    <3>1. cs[h] = [version |-> 1, refcount |-> 0, pending |-> TRUE]
      BY <2>1 DEF NewChunk
    <3>2. [version |-> 1, refcount |-> 0, pending |-> TRUE] \in Chunk
      BY HandleNat DEF Chunk
    <3> QED
      BY <3>1, <3>2
  <2>3. DOMAIN cs = DOMAIN ds /\ cs = [g \in DOMAIN cs |-> cs[g]]
    OBVIOUS
  <2> HIDE DEF cs
  <2>4. \A g \in DOMAIN cs : cs[g] \in Chunk
    BY <1>3, <2>1, <2>2, <2>3 DEF IsChunks
  <2>5. cs \in [DOMAIN cs -> Chunk]
    BY <2>3, <2>4
  <2>6. DOMAIN cs \subseteq Handle
    BY <1>3, <2>3 DEF IsChunks
  <2> QED
    BY <1>2, <1>3, <2>1, <2>2, <2>3, <2>5, <2>6 DEF IsChunks
<1> HIDE DEF cs, u
<1>7. s2.files = s.files /\ s2.chunks = cs /\ s2.next = h + 1
      /\ s2 = [files |-> s2.files, chunks |-> s2.chunks, next |-> s2.next]
  BY <1>5
<1>8. s2.next \in 1..(MaxHandle + 1)
  BY <1>1, <1>7, HandleNat
<1>9. \A g \in Used(s2.files) \cup DOMAIN s2.chunks : g < s2.next
  BY <1>1, <1>2, <1>6, <1>7
<1>10. Sane(s2)
  BY <1>6, <1>7, <1>8, <1>9 DEF Sane
<1> QED
  BY <1>1, <1>2, <1>6, <1>7, <1>10
\* AllocHandle keeps the invariant: nobody has the handle, and its record is in the log.
LEMMA AllocHandleStep ==
  ASSUME MetaInv, NEW c \in Call, AllocHandle(c)
  PROVE  MetaInv'
<1> DEFINE l == [call[c] EXCEPT !.pc = "create", !.handle = st.next]
           r == [op |-> "alloc", handle |-> st.next]
<1>1. /\ st.next <= MaxHandle
      /\ st' = WithPending(st, st.next)
      /\ tail' = Append(tail, [record |-> r, owner |-> c])
      /\ call' = [call EXCEPT ![c] = l]
      /\ UNCHANGED <<disk, cow, gc, served>>
  BY Zenon DEF AllocHandle, Log, WithPending
<1>2. PICK h : h = st.next
  OBVIOUS
<1>3. World(st, disk, tail, call, served) /\ Sane(st) /\ Sane(disk)
  BY CallFact
<1>4. /\ Sane(st') /\ st'.next = h + 1 /\ st'.files = st.files /\ h \in Handle /\ h \in Nat
      /\ h \notin DOMAIN st.chunks /\ DOMAIN st'.chunks = DOMAIN st.chunks \cup {h}
      /\ st'.chunks[h].pending /\ \A g \in DOMAIN st.chunks : st'.chunks[g] = st.chunks[g]
  BY <1>1, <1>2, <1>3, AllocState, HandleNat
<1>5. l.pc = "create" /\ l.handle = h /\ CallType(l)
  <2> DEFINE k == call[c]
             m == [k EXCEPT !.pc = "create"]
  <2>1. CallType(m) /\ m.pc = "create"
    BY CallFact, PcFact DEF PC
  <2>2. l = [m EXCEPT !.handle = h]
    BY <1>2
  <2> HIDE DEF m, l
  <2>3. m = [pc |-> m.pc, op |-> m.op, path |-> m.path, target |-> m.target,
             index |-> m.index, handle |-> m.handle, version |-> m.version]
    BY <2>1 DEF CallType
  <2>4. l = [pc |-> m.pc, op |-> m.op, path |-> m.path, target |-> m.target,
             index |-> m.index, handle |-> h, version |-> m.version]
    BY <2>2, <2>3
  <2>5. h \in 0..MaxHandle
    BY <1>4 DEF Handle
  <2> QED
    BY <2>1, <2>4, <2>5 DEF CallType
<1>6. RecordOK(r) /\ r.op = "alloc" /\ r.handle = h
  BY <1>2, <1>4 DEF RecordOK
<1> DEFINE x == [record |-> r, owner |-> c]
<1>7. x.record = r /\ x.owner = c /\ x = [record |-> x.record, owner |-> x.owner]
      /\ tail' = Append(tail, x) /\ c \in Owner
  BY <1>1 DEF Owner
<1> HIDE DEF l, r, x
<1>8. DiskInv(st, disk, tail) /\ CallInv(call, st, disk, tail) /\ FreshInv(st, disk, served) /\ UsedInv(st)
  BY <1>3 DEF World
<1>9. Appended(tail, x, tail')
  BY <1>7, <1>8, AppendFact DEF DiskInv
<1>10. disk.next \in Nat /\ disk.next <= h
  BY <1>2, <1>3, <1>8, SaneNumbers DEF DiskInv
<1>11. DiskInv(st', disk, tail')
  <2>1. ASSUME NEW i \in DOMAIN tail'
        PROVE  /\ tail'[i] = [record |-> tail'[i].record, owner |-> tail'[i].owner]
               /\ RecordOK(tail'[i].record) /\ tail'[i].owner \in Owner
               /\ Allocates(tail'[i].record) => tail'[i].record.handle < h + 1
    <3>1. CASE i \in DOMAIN tail
      <4>1. tail'[i] = tail[i]
        BY <1>9, <3>1 DEF Appended
      <4>2. Allocates(tail[i].record) => tail[i].record.handle \in Nat
        BY <1>8, <3>1, HandleNat DEF DiskInv, RecordOK, Allocates
      <4>3. Allocates(tail[i].record) => tail[i].record.handle < h + 1
        BY <1>2, <1>4, <1>8, <3>1, <4>2 DEF DiskInv
      <4> QED
        BY <1>8, <3>1, <4>1, <4>3 DEF DiskInv
    <3>2. CASE i = Len(tail) + 1
      <4>1. tail'[i] = x
        BY <1>9, <3>2 DEF Appended
      <4> QED
        BY <1>4, <1>6, <1>7, <4>1
    <3> QED
      BY <1>9, <3>1, <3>2 DEF Appended
  <2>2. disk.next <= h + 1
    BY <1>4, <1>10
  <2> QED
    BY <1>4, <1>8, <1>9, <2>1, <2>2 DEF DiskInv, Appended
<1>12. FreshInv(st', disk, served)
  BY <1>4, <1>8 DEF FreshInv
<1>13. UsedInv(st')
  BY <1>4, <1>8 DEF UsedInv
<1>14. CallOK(c, l, st', disk, tail')
  <2>1. Allocated(tail', c, h)
    <3>1. Len(tail) + 1 \in DOMAIN tail' /\ tail'[Len(tail) + 1] = x
      BY <1>9 DEF Appended
    <3> QED
      BY <1>6, <1>7, <3>1 DEF Allocated
  <2> QED
    BY <1>4, <1>5, <2>1 DEF CallOK, Told
<1>15. ASSUME NEW e \in Call PROVE CallOK(e, call[e], st', disk, tail')
  <2>1. CallOK(e, call[e], st, disk, tail)
    BY <1>8 DEF CallInv
  <2>2. Making(call[e]) =>
          call[e].handle \in DOMAIN st'.chunks /\ st'.chunks[call[e].handle].pending
    BY <1>4, <2>1 DEF CallOK
  <2>3. \A g \in Nat : Allocated(tail, e, g) => Allocated(tail', e, g)
    BY <1>9 DEF Allocated, Appended
  <2> QED
    BY <1>10, <2>1, <2>2, <2>3, CallStays
<1>16. \A e \in Call : e # c /\ Making(l) /\ Making(call[e]) => l.handle # call[e].handle
  BY <1>4, <1>5, <1>8 DEF CallInv, CallOK
<1>17. CallInv(call', st', disk, tail')
  BY <1>1, <1>8, <1>14, <1>15, <1>16, CallsChange
<1>18. World(st', disk, tail', call', served)
  BY <1>11, <1>12, <1>13, <1>17 DEF World
<1> QED
  BY <1>1, <1>18 DEF MetaInv, OtherInv

\* A chunkserver gets a chunk or a version.
LEMMA ServedChange ==
  ASSUME NEW s, NEW d, NEW t, NEW cl, NEW sv, World(s, d, t, cl, sv),
         NEW h \in Handle, h < d.next, NEW v \in 0..MaxVersion,
         NEW sv2, sv2 = [sv EXCEPT ![h] = v]
  PROVE  World(s, d, t, cl, sv2)
<1>1. FreshInv(s, d, sv)
  BY DEF World
<1>2. sv2 \in [Handle -> 0..MaxVersion] /\ \A g \in Handle : g # h => sv2[g] = sv[g]
  BY <1>1 DEF FreshInv
<1>3. FreshInv(s, d, sv2)
  BY <1>1, <1>2 DEF FreshInv
<1> QED
  BY <1>3 DEF World

\* CreateChunkOn keeps the invariant: it has waited for the record of the handle.
LEMMA CreateChunkOnStep ==
  ASSUME MetaInv, NEW c \in Call, CreateChunkOn(c)
  PROVE  MetaInv'
<1> DEFINE k == call[c]
           h == k.handle
           l(pc) == [k EXCEPT !.pc = pc]
<1>1. /\ k.pc = "create" /\ Flushed(c)
      /\ served' = served \/ served' = [served EXCEPT ![h] = 1]
      /\ \E pc \in {"created", "failed"} : call' = [call EXCEPT ![c] = l(pc)]
      /\ UNCHANGED <<st, disk, tail, cow, gc>>
  BY DEF CreateChunkOn
<1>2. CallOK(c, k, st, disk, tail) /\ CallType(k) /\ World(st, disk, tail, call, served)
  BY CallFact
<1>3. h \in Handle /\ h < disk.next
  <2>1. h < disk.next
    BY <1>1, <1>2 DEF CallOK, Flushed, Allocated
  <2>2. h \in DOMAIN st.chunks /\ Sane(st)
    BY <1>1, <1>2, CallFact DEF CallOK, Making
  <2> QED
    BY <2>1, <2>2 DEF Sane, IsChunks
<1>4. PICK pc \in {"created", "failed"} : call' = [call EXCEPT ![c] = l(pc)]
  BY <1>1
<1>5. PICK m : m = l(pc)
  OBVIOUS
<1>6. CallType(m) /\ m.pc = pc /\ m.handle = h
  <2>1. pc \in PC /\ pc # "round"
    BY DEF PC
  <2> HIDE DEF k
  <2> QED
    BY <1>2, <1>5, <2>1, PcFact
<1>7. CallOK(c, m, st, disk, tail)
  BY <1>1, <1>2, <1>3, <1>6 DEF CallOK, Making
<1>8. Making(k)
  BY <1>1 DEF Making
<1>9. call' = [call EXCEPT ![c] = m]
  BY <1>4, <1>5
<1>10. World(st, disk, tail, call', served)
  <2> HIDE DEF l
  <2> QED
    BY <1>2, <1>6, <1>7, <1>8, <1>9, CallChange
<1>11. World(st, disk, tail, call', served')
  <2>1. CASE served' = served
    BY <1>10, <2>1
  <2>2. CASE served' = [served EXCEPT ![h] = 1]
    <3>1. 1 \in 0..MaxVersion
      BY MetadataAssumption
    <3> QED
      BY <1>3, <1>10, <2>2, <3>1, ServedChange
  <2> QED
    BY <1>1, <2>1, <2>2
<1> QED
  BY <1>1, <1>11 DEF MetaInv, OtherInv

\* A chunk that no file refers to may be dropped.
LEMMA DropState ==
  ASSUME NEW s, NEW d, NEW t, NEW cl, NEW sv, World(s, d, t, cl, sv),
         NEW h, h \notin Used(s.files), NEW s2, s2 = ApplyDropChunk(s, h)
  PROVE  /\ DiskInv(s2, d, t) /\ FreshInv(s2, d, sv) /\ UsedInv(s2)
         /\ \A e \in Call : (Making(cl[e]) => cl[e].handle # h) => CallOK(e, cl[e], s2, d, t)
<1>1. DiskInv(s, d, t) /\ CallInv(cl, s, d, t) /\ FreshInv(s, d, sv) /\ UsedInv(s)
  BY DEF World
<1>2. /\ Sane(s2) /\ s2.files = s.files /\ s2.next = s.next
      /\ DOMAIN s2.chunks = DOMAIN s.chunks \ {h}
      /\ \A g \in DOMAIN s2.chunks : s2.chunks[g] = s.chunks[g]
  BY <1>1, DropFact DEF DiskInv
<1>3. DiskInv(s2, d, t)
  BY <1>1, <1>2 DEF DiskInv
<1>4. FreshInv(s2, d, sv)
  BY <1>1, <1>2 DEF FreshInv
<1>5. UsedInv(s2)
  BY <1>1, <1>2 DEF UsedInv
<1>6. ASSUME NEW e \in Call, Making(cl[e]) => cl[e].handle # h
      PROVE  CallOK(e, cl[e], s2, d, t)
  <2>1. CallOK(e, cl[e], s, d, t)
    BY <1>1 DEF CallInv
  <2> QED
    BY <1>2, <1>6, <2>1 DEF CallOK
<1> QED
  BY <1>3, <1>4, <1>5, <1>6

\* A failed creation keeps the invariant: no file refers to the chunk that is erased.
LEMMA CreateFailedStep ==
  ASSUME MetaInv, NEW c \in Call, CreateFailed(c)
  PROVE  MetaInv'
<1>1. PICK h : h = call[c].handle
  OBVIOUS
<1>2. /\ call[c].pc = "failed" /\ st' = ApplyDropChunk(st, h)
      /\ cow' \in {cow, "none"} /\ call' = [call EXCEPT ![c] = Idle]
      /\ UNCHANGED <<disk, tail, gc, served>>
  BY <1>1 DEF CreateFailed, ApplyDropChunk
<1>3. /\ CallOK(c, call[c], st, disk, tail) /\ World(st, disk, tail, call, served)
      /\ Making(call[c])
  BY <1>2, CallFact DEF Making
<1>4. h \notin Used(st.files)
  BY <1>1, <1>3 DEF World, UsedInv, CallOK
<1>5. /\ DiskInv(st', disk, tail) /\ FreshInv(st', disk, served) /\ UsedInv(st')
      /\ \A e \in Call : (Making(call[e]) => call[e].handle # h) =>
           CallOK(e, call[e], st', disk, tail)
  BY <1>2, <1>3, <1>4, DropState
<1>6. CallOK(c, Idle, st', disk, tail) /\ ~Making(Idle)
  <2>1. Quiet(Idle)
    BY DEF Quiet, Idle
  <2> QED
    BY <2>1, IdleType, QuietOK
<1>7. CallInv(call', st', disk, tail)
  <2>1. CallInv(call, st, disk, tail)
    BY <1>3 DEF World
  <2>2. \A e \in Call : e # c => CallOK(e, call[e], st', disk, tail)
    BY <1>1, <1>3, <1>5, CallFact
  <2> QED
    BY <1>2, <1>6, <2>1, <2>2, CallsChange
<1>8. World(st', disk, tail, call', served)
  BY <1>5, <1>7 DEF World
<1> QED
  BY <1>2, <1>8 DEF MetaInv, OtherInv
\* A call that created its chunk puts it into a file.
LEMMA CreatedFact ==
  ASSUME MetaInv, NEW c \in Call, call[c].pc = "created"
  PROVE  LET h == call[c].handle IN
         /\ h \in Handle /\ h < disk.next /\ h < st.next
         /\ \A e \in Call : e # c /\ Making(call[e]) => call[e].handle \notin {h}
<1>1. Making(call[c]) /\ Told(call[c])
  BY DEF Making, Told
<1>2. call[c].handle \in Handle /\ call[c].handle < disk.next /\ call[c].handle \in DOMAIN st.chunks
  BY <1>1, CallFact DEF CallOK
<1>3. call[c].handle < st.next
  BY <1>2, CallFact, SaneNumbers
<1> QED
  BY <1>1, <1>2, <1>3, CallFact

\* The last part of AddChunk keeps the invariant.
LEMMA AddChunkFinishStep ==
  ASSUME MetaInv, NEW c \in Call, AddChunkFinish(c)
  PROVE  MetaInv'
<1> DEFINE k == call[c]
           h == k.handle
           new == {h}
           l == [k EXCEPT !.pc = "flush"]
           r == [op |-> "add", path |-> k.path, index |-> k.index, handle |-> k.handle]
<1>1. /\ k.pc = "created" /\ st' = ApplyAddChunk(st, k.path, k.index, h)
      /\ tail' = Append(tail, [record |-> r, owner |-> c])
      /\ call' = [call EXCEPT ![c] = l] /\ UNCHANGED <<disk, cow, gc, served>>
  BY Zenon DEF AddChunkFinish, Log
<1>2. /\ h \in Handle /\ h < disk.next /\ h < st.next
      /\ \A e \in Call : e # c /\ Making(call[e]) => call[e].handle \notin new
  BY <1>1, CreatedFact
<1>3. CallType(k) /\ k.index \in Nat /\ World(st, disk, tail, call, served) /\ Sane(st)
  BY CallFact DEF CallType
<1>4. RecordOK(r) /\ r.handle = h
  BY <1>2, <1>3 DEF RecordOK
<1>5. CallType(l) /\ ~Making(l) /\ ~Told(l)
  <2>1. CallType(l) /\ l.pc = "flush"
    BY <1>3, PcFact DEF PC
  <2> QED
    BY <2>1 DEF Making, Told
<1>6. \A g \in new : g < disk.next
  BY <1>2
<1> HIDE DEF k, l, r, h
<1>7. Applied(st, st', new)
  BY <1>1, <1>2, <1>3, AddApplied
<1>8. Allocates(r) => r.handle < st'.next
  <2>1. st.next \in Nat /\ st'.next \in Nat /\ st.next <= st'.next /\ h \in Nat
    BY <1>2, <1>3, <1>7, SaneNumbers, HandleNat DEF Applied
  <2> QED
    BY <1>2, <1>4, <2>1
<1> HIDE DEF new
<1>9. World(st', disk, tail', call', served)
  BY <1>1, <1>2, <1>3, <1>4, <1>5, <1>6, <1>7, <1>8, LogCall
<1> QED
  BY <1>1, <1>9 DEF MetaInv, OtherInv

\* The replacement of a shared chunk keeps the invariant.
LEMMA CopyOnWriteFinishStep ==
  ASSUME MetaInv, NEW c \in Call, CopyOnWriteFinish(c)
  PROVE  MetaInv'
<1> DEFINE k == call[c]
           h == k.handle
           new == {h}
           l == [k EXCEPT !.pc = "replaced"]
           r == [op |-> "replace", path |-> k.path, index |-> k.index, handle |-> k.handle]
<1>1. /\ k.pc = "created" /\ st' = ApplyReplaceChunk(st, k.path, k.index, h)
      /\ tail' = Append(tail, [record |-> r, owner |-> c])
      /\ call' = [call EXCEPT ![c] = l] /\ UNCHANGED <<disk, cow, gc, served>>
  BY Zenon DEF CopyOnWriteFinish, Log
<1>2. /\ h \in Handle /\ h < disk.next /\ h < st.next
      /\ \A e \in Call : e # c /\ Making(call[e]) => call[e].handle \notin new
  BY <1>1, CreatedFact
<1>3. CallType(k) /\ k.index \in Nat /\ World(st, disk, tail, call, served) /\ Sane(st)
  BY CallFact DEF CallType
<1>4. RecordOK(r) /\ r.handle = h
  BY <1>2, <1>3 DEF RecordOK
<1>5. CallType(l) /\ ~Making(l) /\ l.handle = h
  <2>1. CallType(l) /\ l.pc = "replaced" /\ l.handle = h
    BY <1>3, PcFact DEF PC
  <2> QED
    BY <2>1 DEF Making
<1>6. \A g \in new : g < disk.next
  BY <1>2
<1> HIDE DEF k, l, r, h
<1>7. Applied(st, st', new)
  BY <1>1, <1>2, <1>3, ReplaceApplied
<1>8. Allocates(r) => r.handle < st'.next
  <2>1. st.next \in Nat /\ st'.next \in Nat /\ st.next <= st'.next /\ h \in Nat
    BY <1>2, <1>3, <1>7, SaneNumbers, HandleNat DEF Applied
  <2> QED
    BY <1>2, <1>4, <2>1
<1> HIDE DEF new
<1>9. World(st', disk, tail', call', served)
  BY <1>1, <1>2, <1>3, <1>4, <1>5, <1>6, <1>7, <1>8, LogCall
<1> QED
  BY <1>1, <1>9 DEF MetaInv, OtherInv

\* A call that goes on with the chunk that its file has.
LEMMA AttemptFact ==
  ASSUME MetaInv, NEW c, NEW k, CallType(k), NEW h, h = Current(k), h \in DOMAIN st.chunks,
         NEW pc \in {"cow", "grant"}, NEW l, l = [k EXCEPT !.handle = h, !.pc = pc]
  PROVE  CallOK(c, l, st, disk, tail) /\ ~Making(l)
<1>1. h \in Handle /\ h < disk.next
  BY CurrentFact DEF CallType
<1> DEFINE m == [k EXCEPT !.handle = h]
<1>2. k = [pc |-> k.pc, op |-> k.op, path |-> k.path, target |-> k.target,
           index |-> k.index, handle |-> k.handle, version |-> k.version]
  BY DEF CallType
<1>3. m = [pc |-> k.pc, op |-> k.op, path |-> k.path, target |-> k.target,
           index |-> k.index, handle |-> h, version |-> k.version]
  BY <1>2
<1>4. l = [m EXCEPT !.pc = pc]
  OBVIOUS
<1> HIDE DEF m
<1>5. l = [pc |-> pc, op |-> k.op, path |-> k.path, target |-> k.target,
           index |-> k.index, handle |-> h, version |-> k.version]
  BY <1>3, <1>4
<1>6. pc \in PC /\ pc # "round" /\ h \in 0..MaxHandle
  BY <1>1 DEF PC, Handle
<1>7. CallType(l) /\ l.pc = pc /\ l.handle = h
  BY <1>5, <1>6 DEF CallType
<1>8. ~Making(l) /\ l.pc # "create"
  BY <1>7 DEF Making
<1> QED
  BY <1>1, <1>7, <1>8 DEF CallOK

\* FindLeaseHolder's first section keeps the invariant.
LEMMA FindLeaseHolderStep ==
  ASSUME MetaInv, NEW c \in Call, NEW path \in Source, NEW index \in 0..(MaxChunks - 1),
         FindLeaseHolder(c, path, index)
  PROVE  MetaInv'
<1> DEFINE k == [Idle EXCEPT !.op = "lease", !.path = path, !.index = index]
<1>1. /\ Attempt(k) # Idle /\ call' = [call EXCEPT ![c] = Attempt(k)]
      /\ UNCHANGED <<st, disk, tail, cow, gc, served>>
  BY Zenon DEF FindLeaseHolder
<1>2. CallType(k)
  <2>1. k = [pc |-> "idle", op |-> "lease", path |-> path, target |-> <<>>,
             index |-> index, handle |-> 0, version |-> 0]
    <3>1. k = LeaseOn("lease", path, index)
      BY DEF LeaseOn
    <3> HIDE DEF k
    <3> QED
      BY <3>1, BeginLease, Zenon
  <2>2. /\ "idle" \in PC \ {"round"} /\ "lease" \in Op /\ IsSeq(<<>>) /\ IsSeq(path)
        /\ index \in Nat
    BY PathSeq, MetadataAssumption DEF PC, Op
  <2> HIDE DEF k
  <2> QED
    BY <2>1, <2>2, BeginType
<1> HIDE DEF k
<1>3. PICK h : h = Current(k)
  OBVIOUS
<1>4. PICK pc \in {"cow", "grant"} : pc = IF st.chunks[h].refcount > 1 THEN "cow" ELSE "grant"
  OBVIOUS
<1>5. h \in DOMAIN st.chunks
  BY <1>1, <1>3 DEF Attempt
<1>6. PICK l : l = Attempt(k)
  OBVIOUS
<1>7. l = [k EXCEPT !.handle = h, !.pc = pc]
  BY <1>3, <1>4, <1>5, <1>6 DEF Attempt
<1>8. CallOK(c, l, st, disk, tail) /\ ~Making(l)
  BY <1>2, <1>3, <1>5, <1>7, AttemptFact
<1>9. World(st, disk, tail, call', served)
  BY <1>1, <1>6, <1>8, CallFact, CallChange
<1> QED
  BY <1>1, <1>9 DEF MetaInv, OtherInv

\* CopyOnWrite's second look keeps the invariant.
LEMMA CopyOnWriteStep ==
  ASSUME MetaInv, NEW c \in Call, CopyOnWrite(c)
  PROVE  MetaInv'
<1> DEFINE k == call[c]
           h == Current(k)
<1>1. /\ cow' \in {cow, c}
      /\ \/ call' = [call EXCEPT ![c] = [k EXCEPT !.pc = "alloc"]]
         \/ /\ h \in DOMAIN st.chunks
            /\ call' = [call EXCEPT ![c] = [k EXCEPT !.pc = "grant", !.handle = h]]
         \/ call' = [call EXCEPT ![c] = Idle]
      /\ UNCHANGED <<st, disk, tail, gc, served>>
  BY DEF CopyOnWrite
<1>2. CallType(k) /\ World(st, disk, tail, call, served)
  BY CallFact
<1>3. World(st, disk, tail, call', served)
  <2>1. CASE call' = [call EXCEPT ![c] = [k EXCEPT !.pc = "alloc"]]
    <3>1. PICK l : l = [k EXCEPT !.pc = "alloc"]
      OBVIOUS
    <3>2. CallType(l) /\ Quiet(l)
      BY <1>2, <3>1, PcFact DEF PC, Quiet
    <3> QED
      BY <1>2, <2>1, <3>1, <3>2, QuietChange
  <2>2. CASE /\ h \in DOMAIN st.chunks
             /\ call' = [call EXCEPT ![c] = [k EXCEPT !.pc = "grant", !.handle = h]]
    <3>1. PICK l : l = [k EXCEPT !.pc = "grant", !.handle = h]
      OBVIOUS
    <3>2. l = [k EXCEPT !.handle = h, !.pc = "grant"]
      <4>1. k = [pc |-> k.pc, op |-> k.op, path |-> k.path, target |-> k.target,
                 index |-> k.index, handle |-> k.handle, version |-> k.version]
        BY <1>2 DEF CallType
      <4> HIDE DEF k, h
      <4> QED
        BY <3>1, <4>1
    <3>3. "grant" \in {"cow", "grant"}
      OBVIOUS
    <3>4. CallOK(c, l, st, disk, tail) /\ ~Making(l)
      BY <1>2, <2>2, <3>2, <3>3, AttemptFact
    <3> HIDE DEF k, h
    <3> QED
      BY <1>2, <2>2, <3>1, <3>4, CallChange
  <2>3. CASE call' = [call EXCEPT ![c] = Idle]
    <3>1. CallType(Idle) /\ Quiet(Idle)
      BY IdleType DEF Idle, Quiet
    <3> QED
      BY <1>2, <2>3, <3>1, QuietChange
  <2> QED
    BY <1>1, <2>1, <2>2, <2>3
<1> QED
  BY <1>1, <1>3 DEF MetaInv, OtherInv

\* CopyOnWrite's return keeps the invariant.
LEMMA CopyOnWriteReturnStep ==
  ASSUME MetaInv, NEW c \in Call, CopyOnWriteReturn(c)
  PROVE  MetaInv'
<1> DEFINE k == call[c]
           l == [k EXCEPT !.pc = "grant"]
<1>1. /\ k.pc = "replaced" /\ cow' = "none" /\ call' = [call EXCEPT ![c] = l]
      /\ UNCHANGED <<st, disk, tail, gc, served>>
  BY Zenon DEF CopyOnWriteReturn
<1>2. CallType(k) /\ CallOK(c, k, st, disk, tail) /\ World(st, disk, tail, call, served)
  BY CallFact
<1>3. CallType(l) /\ l.pc = "grant" /\ l.handle = k.handle
  BY <1>2, PcFact DEF PC
<1> HIDE DEF k, l
<1>4. CallOK(c, l, st, disk, tail) /\ ~Making(l)
  BY <1>1, <1>2, <1>3 DEF CallOK, Making, Told
<1>5. World(st, disk, tail, call', served)
  BY <1>1, <1>2, <1>4, CallChange
<1> QED
  BY <1>1, <1>5 DEF MetaInv, OtherInv
\* A regrant keeps the invariant: the chunk is not pending, so its handle is on disk.
LEMMA RegrantStep ==
  ASSUME MetaInv, NEW c \in Call, NEW h \in Handle, Regrant(c, h)
  PROVE  MetaInv'
<1>1. PICK v : v = st.chunks[h].version + 1
  OBVIOUS
<1>2. PICK k : k = [Idle EXCEPT !.pc = "round", !.op = "regrant", !.handle = h, !.version = v]
  OBVIOUS
<1>3. /\ h \in DOMAIN st.chunks /\ ~st.chunks[h].pending /\ v - 1 < MaxVersion
      /\ call' = [call EXCEPT ![c] = k] /\ UNCHANGED <<st, disk, tail, cow, gc, served>>
  <2>1. /\ h \in DOMAIN st.chunks /\ ~st.chunks[h].pending
        /\ st.chunks[h].version < MaxVersion
        /\ call' = [call EXCEPT ![c] = k] /\ UNCHANGED <<st, disk, tail, cow, gc, served>>
    BY <1>1, <1>2, Zenon DEF Regrant
  <2>2. st.chunks[h].version \in 1..MaxVersion
    BY <2>1, CallFact DEF Sane, IsChunks, Chunk
  <2>3. v - 1 = st.chunks[h].version
    BY <1>1, <2>2
  <2> QED
    BY <2>1, <2>3
<1>4. v \in 1..MaxVersion
  <2>1. st.chunks[h].version \in 1..MaxVersion
    BY <1>3, CallFact DEF Sane, IsChunks, Chunk
  <2> QED
    BY <1>1, <1>3, <2>1, MetadataAssumption
<1>5. k = [pc |-> "round", op |-> "regrant", path |-> <<>>, target |-> <<>>,
           index |-> 0, handle |-> h, version |-> v]
  <2>1. k = Round("round", "regrant", h, v)
    BY <1>2 DEF Round
  <2> QED
    BY <2>1, BeginRegrant, Zenon
<1>6. CallType(k) /\ k.pc = "round" /\ k.handle = h
  <2>1. "round" \in PC /\ "regrant" \in Op /\ IsSeq(<<>>) /\ h \in 0..MaxHandle /\ v \in 0..MaxVersion
    BY <1>4, PathSeq DEF PC, Op, Handle
  <2>2. PICK e : e = <<>>
    OBVIOUS
  <2>3. /\ k.pc = "round" /\ k.op = "regrant" /\ k.path = e /\ k.target = e
        /\ k.index = 0 /\ k.handle = h /\ k.version = v
        /\ k = [pc |-> k.pc, op |-> k.op, path |-> k.path, target |-> k.target,
                index |-> k.index, handle |-> k.handle, version |-> k.version]
    BY <1>5, <2>2
  <2> QED
    BY <1>4, <2>1, <2>2, <2>3 DEF CallType
<1>7. h < disk.next
  BY <1>3 DEF MetaInv, World, FreshInv
<1>8. CallOK(c, k, st, disk, tail) /\ ~Making(k)
  BY <1>6, <1>7 DEF CallOK, Making
<1>9. World(st, disk, tail, call', served)
  BY <1>3, <1>8, CallFact, CallChange
<1> QED
  BY <1>3, <1>9 DEF MetaInv, OtherInv

\* LeaseManager::PrepareLocked keeps the invariant.
LEMMA PrepareGrantStep ==
  ASSUME MetaInv, NEW c \in Call, PrepareGrant(c)
  PROVE  MetaInv'
<1>1. PICK k : k = call[c]
  OBVIOUS
<1>2. PICK v : v = st.chunks[k.handle].version + 1
  OBVIOUS
<1>3. PICK l : l = [k EXCEPT !.pc = "round", !.version = v]
  OBVIOUS
<1>4. /\ k.pc = "grant" /\ k.handle \in DOMAIN st.chunks
      /\ st.chunks[k.handle].version < MaxVersion
      /\ call' = [call EXCEPT ![c] = l] /\ UNCHANGED <<st, disk, tail, cow, gc, served>>
  BY <1>1, <1>2, <1>3, Zenon DEF PrepareGrant
<1>5. CallType(k) /\ CallOK(c, k, st, disk, tail) /\ World(st, disk, tail, call, served) /\ Sane(st)
  BY <1>1, CallFact
<1>6. v \in 1..MaxVersion
  <2>1. st.chunks[k.handle].version \in 1..MaxVersion
    BY <1>4, <1>5 DEF Sane, IsChunks, Chunk
  <2> QED
    BY <1>2, <1>4, <2>1, MetadataAssumption
<1>7. CallType(l) /\ l.pc = "round" /\ l.handle = k.handle
  <2>1. l = [pc |-> "round", op |-> k.op, path |-> k.path, target |-> k.target,
             index |-> k.index, handle |-> k.handle, version |-> v]
    <3>1. k = [pc |-> k.pc, op |-> k.op, path |-> k.path, target |-> k.target,
               index |-> k.index, handle |-> k.handle, version |-> k.version]
      BY <1>5 DEF CallType
    <3> QED
      BY <1>3, <3>1
  <2>2. "round" \in PC /\ v \in 0..MaxVersion
    BY <1>6 DEF PC
  <2> QED
    BY <1>5, <1>6, <2>1, <2>2 DEF CallType
<1>8. CallOK(c, l, st, disk, tail) /\ ~Making(l)
  BY <1>4, <1>5, <1>7 DEF CallOK, Making, Told
<1>9. World(st, disk, tail, call', served)
  BY <1>4, <1>5, <1>8, CallChange
<1> QED
  BY <1>4, <1>9 DEF MetaInv, OtherInv

\* A replica that takes a version keeps the invariant: it was told of the handle.
LEMMA ReplicaUpdatedStep ==
  ASSUME MetaInv, NEW c \in Call, ReplicaUpdated(c)
  PROVE  MetaInv'
<1>1. PICK k : k = call[c]
  OBVIOUS
<1>2. /\ k.pc = "round" /\ served' = [served EXCEPT ![k.handle] = k.version]
      /\ UNCHANGED <<st, disk, tail, call, cow, gc>>
  BY <1>1 DEF ReplicaUpdated
<1>3. CallOK(c, k, st, disk, tail) /\ World(st, disk, tail, call, served) /\ k.version \in 0..MaxVersion
  BY <1>1, CallFact DEF CallType
<1>4. k.handle \in Handle /\ k.handle < disk.next
  BY <1>2, <1>3 DEF CallOK, Told
<1>5. World(st, disk, tail, call, served')
  BY <1>2, <1>3, <1>4, ServedChange
<1> QED
  BY <1>2, <1>5 DEF MetaInv, OtherInv

\* The log record of a grant keeps the invariant.
LEMMA GrantFinishStep ==
  ASSUME MetaInv, NEW c \in Call, GrantFinish(c)
  PROVE  MetaInv'
<1>1. PICK k : k = call[c]
  OBVIOUS
<1>2. PICK v : v = ApplyBumpVersion(st, k.handle, k.version).chunks[k.handle].version
  OBVIOUS
<1> DEFINE l == [k EXCEPT !.pc = "flush"]
           r == [op |-> "bump", handle |-> k.handle, version |-> v]
<1>3. /\ k.pc = "round" /\ k.handle \in DOMAIN st.chunks
      /\ st' = ApplyBumpVersion(st, k.handle, k.version)
      /\ tail' = Append(tail, [record |-> r, owner |-> c])
      /\ call' = [call EXCEPT ![c] = l] /\ UNCHANGED <<disk, cow, gc, served>>
  BY <1>1, <1>2, Zenon DEF GrantFinish, Log
<1>4. CallType(k) /\ World(st, disk, tail, call, served) /\ Sane(st)
  BY <1>1, CallFact
<1>5. k.version \in 1..MaxVersion
  BY <1>3, <1>4 DEF CallType
<1>6. Applied(st, st', {})
  BY <1>3, <1>4, <1>5, BumpApplied
<1>7. v \in 1..MaxVersion
  BY <1>2, <1>3, <1>6 DEF Applied, Sane, IsChunks, Chunk
<1>8. RecordOK(r) /\ ~Allocates(r)
  BY <1>7 DEF RecordOK, Allocates
<1>9. CallType(l) /\ Quiet(l)
  BY <1>4, PcFact DEF Quiet, PC
<1> HIDE DEF l, r
<1>10. World(st', disk, tail', call', served)
  BY <1>3, <1>4, <1>6, <1>8, <1>9, LogQuiet
<1> QED
  BY <1>3, <1>10 DEF MetaInv, OtherInv

\* A grant that is given up keeps the invariant.
LEMMA GrantNothingStep ==
  ASSUME MetaInv, NEW c \in Call, GrantNothing(c)
  PROVE  MetaInv'
<1>1. CallType(Idle) /\ Quiet(Idle)
  BY IdleType DEF Idle, Quiet
<1>2. World(st, disk, tail, call', served)
  BY <1>1, CallFact, QuietChange DEF GrantNothing
<1> QED
  BY <1>2 DEF GrantNothing, MetaInv, OtherInv

\* A record of nobody's, or of the collector's.
LEMMA LogOther ==
  ASSUME NEW s, NEW d, NEW t, NEW cl, NEW sv, World(s, d, t, cl, sv),
         NEW s2, Applied(s, s2, {}), NEW r, RecordOK(r), ~Allocates(r),
         NEW o \in Owner, NEW t2, t2 = Append(t, [record |-> r, owner |-> o])
  PROVE  World(s2, d, t2, cl, sv)
<1> DEFINE new == {}
<1>1. \A h \in new : h < d.next
  OBVIOUS
<1>2. Applied(s, s2, new)
  OBVIOUS
<1>3. \A h : h \notin new
  OBVIOUS
<1> HIDE DEF new
<1>4. /\ DiskInv(s2, d, t2) /\ FreshInv(s2, d, sv) /\ UsedInv(s2)
      /\ \A e \in Call : (Making(cl[e]) => cl[e].handle \notin new) =>
           CallOK(e, cl[e], s2, d, t2)
  BY <1>1, <1>2, LogState
<1>5. CallInv(cl, s2, d, t2)
  BY <1>3, <1>4 DEF World, CallInv
<1> QED
  BY <1>4, <1>5 DEF World

\* HeartBeat's adoption of a version keeps the invariant.
LEMMA HeartBeatStep ==
  ASSUME MetaInv, NEW h \in Handle, HeartBeat(h)
  PROVE  MetaInv'
<1>1. PICK v : v = served[h]
  OBVIOUS
<1> DEFINE r == [op |-> "bump", handle |-> h, version |-> v]
<1>2. /\ h \in DOMAIN st.chunks /\ v > st.chunks[h].version
      /\ st' = [st EXCEPT !.chunks[h].version = v]
      /\ tail' = Append(tail, [record |-> r, owner |-> "none"])
      /\ UNCHANGED <<disk, call, cow, gc, served>>
  BY <1>1, Zenon DEF HeartBeat, Log
<1>3. World(st, disk, tail, call, served) /\ Sane(st) /\ FreshInv(st, disk, served)
  BY DEF MetaInv, World, DiskInv
<1>4. v \in 1..MaxVersion
  <2>1. st.chunks[h].version \in 1..MaxVersion
    BY <1>2, <1>3 DEF Sane, IsChunks, Chunk
  <2>2. v \in 0..MaxVersion
    BY <1>1, <1>3 DEF FreshInv
  <2> QED
    BY <1>2, <2>1, <2>2, MetadataAssumption
<1>5. st' = ApplyBumpVersion(st, h, v)
  BY <1>2 DEF ApplyBumpVersion
<1>6. Applied(st, st', {})
  BY <1>3, <1>4, <1>5, BumpApplied
<1>7. RecordOK(r) /\ ~Allocates(r)
  BY <1>4 DEF RecordOK, Allocates
<1>8. "none" \in Owner
  BY DEF Owner
<1> HIDE DEF r
<1>9. World(st', disk, tail', call, served)
  BY <1>2, <1>3, <1>6, <1>7, <1>8, LogOther
<1> QED
  BY <1>2, <1>9 DEF MetaInv, OtherInv

-----------------------------------------------------------------------------
(* The garbage collector.                                                  *)

\* The collector's listing keeps the invariant.
LEMMA GcPassStep ==
  ASSUME MetaInv, NEW now, GcPass(now)
  PROVE  MetaInv'
<1> DEFINE expired == {p \in DOMAIN st.files : IsHiddenPath(p) /\ StampOf(p) + Retention <= now}
<1>1. gc' = [pc |-> "remove", expired |-> expired] /\ UNCHANGED <<st, disk, tail, call, cow, served>>
  BY Zenon DEF GcPass
<1> HIDE DEF expired
<1>2. OtherInv'
  BY <1>1 DEF MetaInv, OtherInv
<1> QED
  BY <1>1, <1>2 DEF MetaInv

\* The end of a pass keeps the invariant.
LEMMA GcReturnStep ==
  ASSUME MetaInv, GcReturn
  PROVE  MetaInv'
<1>1. OtherInv'
  BY DEF GcReturn, MetaInv, OtherInv
<1> QED
  BY <1>1 DEF GcReturn, MetaInv

\* The collector's removal of a hidden file keeps the invariant.
LEMMA GcRemoveStep ==
  ASSUME MetaInv, NEW path \in gc.expired, GcRemove(path)
  PROVE  MetaInv'
<1> DEFINE r == [op |-> "remove", path |-> path]
<1>1. /\ gc' = [gc EXCEPT !.expired = @ \ {path}]
      /\ \/ /\ st' = ApplyRemove(st, path)
            /\ tail' = Append(tail, [record |-> r, owner |-> "gc"])
         \/ UNCHANGED <<st, tail>>
      /\ UNCHANGED <<disk, call, cow, served>>
  BY Zenon DEF GcRemove, Log
<1>2. OtherInv'
  BY <1>1 DEF MetaInv, OtherInv
<1>3. RecordOK(r) /\ ~Allocates(r)
  BY DEF RecordOK, Allocates
<1> HIDE DEF r
<1>4. World(st, disk, tail, call, served) /\ Sane(st) /\ "gc" \in Owner
  BY DEF MetaInv, World, DiskInv, Owner
<1>5. World(st', disk, tail', call, served)
  <2>1. CASE /\ st' = ApplyRemove(st, path)
             /\ tail' = Append(tail, [record |-> r, owner |-> "gc"])
    <3>1. Applied(st, st', {})
      BY <1>4, <2>1, RemoveApplied
    <3> QED
      BY <1>3, <1>4, <2>1, <3>1, LogOther
  <2>2. CASE UNCHANGED <<st, tail>>
    BY <1>4, <2>2
  <2> QED
    BY <1>1, <2>1, <2>2
<1> QED
  BY <1>1, <1>2, <1>5 DEF MetaInv
\* Records that the collector appends.
Extended(t, n, q, t2) ==
  /\ IsSeq(t2) /\ \A i \in DOMAIN t : i \in DOMAIN t2 /\ t2[i] = t[i]
  /\ \A i \in DOMAIN t2 : i \in DOMAIN t \/ \E j \in 1..n : t2[i] = q[j]

\* The collector's records follow the others.
LEMMA ConcatFact ==
  ASSUME NEW t, IsSeq(t), NEW n \in Nat, NEW q, q = [i \in 1..n |-> q[i]]
  PROVE  Extended(t, n, q, t \o q)
<1> DEFINE t2 == t \o q
           R == Range(t)
           Q == {q[i] : i \in 1..n}
           S == R \cup Q
<1>1. t \in Seq(R)
  BY DEF IsSeq
<1>2. q \in Seq(Q) /\ Len(q) = n
  <2>1. \A i \in 1..n : q[i] \in Q
    OBVIOUS
  <2> HIDE DEF Q
  <2> QED
    BY <2>1
<1> HIDE DEF R, Q
<1>3. /\ Len(t) \in Nat /\ DOMAIN t = 1..Len(t) /\ t = [i \in 1..Len(t) |-> t[i]]
      /\ \A i \in 1..Len(t) : t[i] \in R
  BY <1>1
<1>4. DOMAIN q = 1..n /\ \A i \in 1..n : q[i] \in Q
  BY <1>2
<1>5. t \in Seq(S) /\ q \in Seq(S)
  <2>1. R \subseteq S /\ Q \subseteq S
    OBVIOUS
  <2> HIDE DEF S
  <2>2. \A i \in 1..Len(t) : t[i] \in S
    BY <1>3, <2>1
  <2>3. \A i \in 1..n : q[i] \in S
    BY <1>4, <2>1
  <2>4. t \in Seq(S)
    BY <1>3, <2>2
  <2> QED
    BY <2>3, <2>4
<1> HIDE DEF S
<1>6. t2 \in Seq(S) /\ Len(t2) = Len(t) + n
  BY <1>2, <1>5
<1>7. IsSeq(t2)
  BY <1>6, SeqIsSeq
<1>8. ASSUME NEW i \in 1..(Len(t) + n)
      PROVE  t2[i] = IF i <= Len(t) THEN t[i] ELSE q[i - Len(t)]
  BY <1>2, <1>5
<1>9. DOMAIN t2 = 1..(Len(t) + n)
  BY <1>3, <1>6
<1>10. \A i \in DOMAIN t : i \in DOMAIN t2 /\ t2[i] = t[i]
  BY <1>3, <1>8, <1>9
<1>11. ASSUME NEW i \in DOMAIN t2, i \notin DOMAIN t PROVE \E j \in 1..n : t2[i] = q[j]
  <2>1. i - Len(t) \in 1..n /\ ~(i <= Len(t))
    BY <1>3, <1>9, <1>11
  <2> QED
    BY <1>8, <1>9, <2>1
<1> QED
  BY <1>7, <1>10, <1>11 DEF Extended

\* What is left of state s when chunks are dropped from it.
Without(s, u) ==
  /\ u.files = s.files /\ u.next = s.next /\ DOMAIN u.chunks \subseteq DOMAIN s.chunks
  /\ \A g \in DOMAIN u.chunks : u.chunks[g] = s.chunks[g]

\* The collector drops only chunks that no file refers to and nobody makes.
LEMMA DropWorld ==
  ASSUME NEW s, NEW d, NEW t, NEW cl, NEW sv, NEW u, World(u, d, t, cl, sv), Without(s, u),
         NEW h \in DOMAIN s.chunks, h \notin Used(s.files), ~s.chunks[h].pending,
         NEW u2, u2 = ApplyDropChunk(u, h)
  PROVE  World(u2, d, t, cl, sv) /\ Without(s, u2)
<1>1. Sane(u) /\ h \notin Used(u.files)
  BY DEF World, DiskInv, Without
<1>2. /\ DiskInv(u2, d, t) /\ FreshInv(u2, d, sv) /\ UsedInv(u2)
      /\ \A e \in Call : (Making(cl[e]) => cl[e].handle # h) => CallOK(e, cl[e], u2, d, t)
  BY <1>1, DropState
<1>3. CallInv(cl, u, d, t)
  BY DEF World
<1>4. ASSUME NEW e \in Call PROVE Making(cl[e]) => cl[e].handle # h
  BY <1>3 DEF CallInv, CallOK, Without
<1>5. CallInv(cl, u2, d, t)
  BY <1>2, <1>3, <1>4 DEF CallInv
<1>6. Without(s, u2)
  BY <1>1, DropFact DEF Without
<1> QED
  BY <1>2, <1>5, <1>6 DEF World

\* GcPass's drops keep the invariant, in whatever order they are made.
LEMMA GcDropOrphansStep ==
  ASSUME MetaInv, GcDropOrphans
  PROVE  MetaInv'
<1> DEFINE record(h) == [op |-> "drop", handle |-> h]
           drops(hs) == [i \in DOMAIN hs |-> record(hs[i])]
           entries(hs) == [i \in DOMAIN drops(hs) |-> [record |-> drops(hs)[i], owner |-> "gc"]]
<1>1. PICK hs \in SetToSeqs(Orphans) :
        /\ st' = Replay(st, drops(hs)) /\ tail' = tail \o entries(hs)
        /\ gc' = [gc EXCEPT !.pc = "flush"] /\ UNCHANGED <<disk, call, cow, served>>
  BY Zenon DEF GcDropOrphans
<1>2. PICK n : n = Cardinality(Orphans)
  OBVIOUS
<1>3. World(st, disk, tail, call, served) /\ Sane(st) /\ DiskInv(st, disk, tail)
  BY DEF MetaInv, World, DiskInv
<1>4. n \in Nat
  <2>1. Orphans \subseteq 1..MaxHandle
    BY <1>3 DEF Orphans, Sane, IsChunks, Handle
  <2>2. IsFiniteSet(1..MaxHandle)
    BY HandleNat, FS_Interval
  <2> QED
    BY <1>2, <2>1, <2>2, FS_Subset, FS_CardinalityType
<1>5. DOMAIN hs = 1..n /\ \A i \in 1..n : hs[i] \in Orphans
  BY <1>1, <1>2, Zenon DEF SetToSeqs
<1>6. ASSUME NEW i \in 1..n
      PROVE  hs[i] \in DOMAIN st.chunks /\ hs[i] \notin Used(st.files) /\ ~st.chunks[hs[i]].pending
  <2>1. hs[i] \in DOMAIN st.chunks /\ ~st.chunks[hs[i]].pending /\ References(st.files, DOMAIN st.files, hs[i]) = 0
    BY <1>5 DEF Orphans
  <2>2. IsFiles(st.files)
    BY <1>3 DEF Sane
  <2> QED
    BY <2>1, <2>2, Unreferenced
<1>7. PICK rs : rs = drops(hs)
  OBVIOUS
<1>8. rs = [i \in 1..n |-> rs[i]] /\ \A i \in 1..n : rs[i] = record(hs[i])
  BY <1>5, <1>7
<1>9. Len(rs) = n
  BY <1>4, <1>8
<1>10. PICK q : q = entries(hs)
  OBVIOUS
<1>11. /\ q = [i \in 1..n |-> q[i]]
       /\ \A i \in 1..n : q[i] = [record |-> rs[i], owner |-> "gc"]
  BY <1>5, <1>7, <1>8, <1>10
<1>12. st' = Replay(st, rs) /\ tail' = tail \o q
  BY <1>1, <1>7, <1>10
<1> HIDE DEF drops, entries
<1>13. PICK f : IsReplay(f, st, rs) /\ st' = f[n]
  BY <1>4, <1>9, <1>12, ReplayFact
<1>14. f[0] = st /\ \A m \in Nat : m + 1 <= n => f[m + 1] = Apply(f[m], rs[m + 1])
  BY <1>4, <1>9, <1>13, ReplaySteps DEF Steps
<1> DEFINE P == {m \in Nat : m <= n =>
                   World(f[m], disk, tail, call, served) /\ Without(st, f[m])}
<1>15. 0 \in P
  BY <1>3, <1>14 DEF Without
<1>16. ASSUME NEW m \in Nat, m \in P PROVE m + 1 \in P
  <2> SUFFICES ASSUME m + 1 <= n
               PROVE  World(f[m + 1], disk, tail, call, served) /\ Without(st, f[m + 1])
    OBVIOUS
  <2>1. m + 1 \in 1..n /\ World(f[m], disk, tail, call, served) /\ Without(st, f[m])
    BY <1>4, <1>16
  <2>2. PICK h : h = hs[m + 1]
    OBVIOUS
  <2>3. f[m + 1] = Apply(f[m], rs[m + 1]) /\ rs[m + 1] = record(h)
    BY <1>8, <1>14, <2>1, <2>2
  <2>4. f[m + 1] = ApplyDropChunk(f[m], h)
    BY <2>3 DEF Apply
  <2>5. h \in DOMAIN st.chunks /\ h \notin Used(st.files) /\ ~st.chunks[h].pending
    BY <1>6, <2>1, <2>2
  <2> QED
    BY <2>1, <2>4, <2>5, DropWorld
<1>17. Nat \subseteq P
  <2> HIDE DEF P
  <2> QED
    BY <1>15, <1>16, Induction
<1>18. World(st', disk, tail, call, served)
  <2>1. n \in P
    BY <1>4, <1>17
  <2> QED
    BY <1>4, <1>13, <2>1
<1>19. /\ IsSeq(tail') /\ \A i \in DOMAIN tail : i \in DOMAIN tail' /\ tail'[i] = tail[i]
       /\ \A i \in DOMAIN tail' : i \in DOMAIN tail \/ \E j \in 1..n : tail'[i] = q[j]
  <2>1. IsSeq(tail)
    BY <1>3 DEF DiskInv
  <2>2. q = [i \in 1..n |-> q[i]]
    BY <1>11
  <2>3. Extended(tail, n, q, tail')
    BY <1>4, <1>12, <2>1, <2>2, ConcatFact, Zenon
  <2> QED
    BY <2>3 DEF Extended
<1>20. DiskInv(st', disk, tail')
  <2>1. DiskInv(st', disk, tail)
    BY <1>18 DEF World
  <2>2. ASSUME NEW i \in DOMAIN tail'
        PROVE  /\ tail'[i] = [record |-> tail'[i].record, owner |-> tail'[i].owner]
               /\ RecordOK(tail'[i].record) /\ tail'[i].owner \in Owner
               /\ Allocates(tail'[i].record) => tail'[i].record.handle < st'.next
    <3>1. CASE i \in DOMAIN tail
      BY <1>19, <2>1, <3>1 DEF DiskInv
    <3>2. ASSUME NEW j \in 1..n, tail'[i] = q[j]
          PROVE  /\ tail'[i] = [record |-> tail'[i].record, owner |-> tail'[i].owner]
                 /\ RecordOK(tail'[i].record) /\ tail'[i].owner \in Owner
                 /\ ~Allocates(tail'[i].record)
      <4>1. PICK r : r = rs[j]
        OBVIOUS
      <4>2. RecordOK(r) /\ ~Allocates(r)
        BY <1>8, <4>1 DEF RecordOK, Allocates
      <4>3. tail'[i] = [record |-> r, owner |-> "gc"] /\ "gc" \in Owner
        BY <1>11, <3>2, <4>1 DEF Owner
      <4> QED
        BY <4>2, <4>3
    <3> QED
      BY <1>19, <3>1, <3>2
  <2> QED
    BY <1>19, <2>1, <2>2 DEF DiskInv
<1>21. CallInv(call, st', disk, tail')
  <2>1. CallInv(call, st', disk, tail)
    BY <1>18 DEF World
  <2>2. \A e, h : Allocated(tail, e, h) => Allocated(tail', e, h)
    BY <1>19 DEF Allocated
  <2> QED
    BY <2>1, <2>2 DEF CallInv, CallOK
<1>22. World(st', disk, tail', call, served)
  BY <1>18, <1>20, <1>21 DEF World
<1>23. OtherInv'
  BY <1>1 DEF MetaInv, OtherInv
<1> QED
  BY <1>1, <1>22, <1>23 DEF MetaInv

-----------------------------------------------------------------------------
(* Flush, checkpoint, crash and recovery.                                  *)

\* A handle whose record is replayed is not allocated again.
LEMMA AllocReplayed ==
  ASSUME NEW s, Sane(s), NEW rs, Len(rs) \in Nat, NEW bound \in Nat,
         \A i \in 1..Len(rs) : RecordOK(rs[i]) /\ (Allocates(rs[i]) => rs[i].handle < bound),
         NEW f, IsReplay(f, s, rs), NEW i \in 1..Len(rs), rs[i].op = "alloc"
  PROVE  rs[i].handle < f[Len(rs)].next
<1> DEFINE n == Len(rs)
<1>1. f[0] = s /\ \A m \in Nat : m + 1 <= n => f[m + 1] = Apply(f[m], rs[m + 1])
  BY ReplaySteps DEF Steps
<1>2. \A m \in Nat : m <= n => Sane(f[m]) /\ f[m].next \in Nat
  BY ReplayFollows, SaneNumbers DEF Follows
<1>3. PICK h \in Handle : h = rs[i].handle
  BY DEF RecordOK
<1>4. h \in Nat
  BY HandleNat
<1> DEFINE P == {m \in Nat : i + m <= n => h < f[i + m].next}
<1>5. 0 \in P
  <2>1. i - 1 \in Nat /\ (i - 1) + 1 = i /\ i <= n /\ i - 1 <= n /\ i + 0 = i
    OBVIOUS
  <2>2. f[i] = Apply(f[i - 1], rs[i]) /\ Sane(f[i - 1]) /\ f[i - 1].next \in Nat
    BY <1>1, <1>2, <2>1
  <2>3. f[i] = ApplyAllocHandle(f[i - 1], h)
    BY <1>3, <2>2 DEF Apply
  <2>4. PICK g : g = f[i - 1]
    OBVIOUS
  <2>5. f[i] = [files |-> g.files, chunks |-> g.chunks,
                next |-> IF h + 1 > g.next THEN h + 1 ELSE g.next]
    BY <2>2, <2>3, <2>4, AllocApplied
  <2>6. h < f[i].next
    BY <1>4, <2>2, <2>4, <2>5
  <2> QED
    BY <2>1, <2>6
<1>6. ASSUME NEW m \in Nat, m \in P PROVE m + 1 \in P
  <2> SUFFICES ASSUME i + (m + 1) <= n PROVE h < f[i + (m + 1)].next
    OBVIOUS
  <2>1. PICK k \in Nat : k = i + m
    OBVIOUS
  <2>2. k + 1 = i + (m + 1) /\ k + 1 \in 1..n /\ k <= n /\ k + 1 <= n /\ h < f[k].next
    BY <1>6, <2>1
  <2>3. f[k + 1] = Apply(f[k], rs[k + 1]) /\ Sane(f[k]) /\ f[k].next \in Nat /\ f[k + 1].next \in Nat
    BY <1>1, <1>2, <2>1, <2>2
  <2>4. Follows(f[k], f[k + 1], bound)
    BY <2>2, <2>3, ApplyFollows
  <2>5. f[k].next <= f[k + 1].next
    BY <2>4 DEF Follows
  <2> QED
    BY <1>4, <2>2, <2>3, <2>5
<1>7. Nat \subseteq P
  <2> HIDE DEF P
  <2> QED
    BY <1>5, <1>6, Induction
<1>8. n - i \in P /\ i + (n - i) = n
  BY <1>7
<1> QED
  BY <1>3, <1>8

\* What the disk is after n records of the tail are on it.
LEMMA ReplayedFact ==
  ASSUME MetaInv, NEW n \in 0..Len(tail), NEW d, d = Replayed(n)
  PROVE  /\ Sane(d) /\ NonePending(d) /\ disk.next <= d.next /\ d.next <= st.next
         /\ disk.next \in Nat /\ d.next \in Nat /\ st.next \in Nat
         /\ \A i \in 1..n : tail[i].record.op = "alloc" => tail[i].record.handle < d.next
<1>1. DiskInv(st, disk, tail) /\ Sane(st) /\ Sane(disk) /\ IsSeq(tail)
  BY DEF MetaInv, World, DiskInv
<1>2. st.next \in Nat /\ disk.next \in Nat
  BY <1>1, SaneNumbers
<1>3. n \in Nat /\ \A i \in 1..n : i \in DOMAIN tail
  BY <1>1 DEF IsSeq
<1>4. PICK rs : rs = Records(n)
  OBVIOUS
<1>5. Len(rs) = n /\ \A i \in 1..n : rs[i] = tail[i].record
  BY <1>3, <1>4 DEF Records
<1>6. PICK f : IsReplay(f, disk, rs) /\ d = f[n]
  BY <1>3, <1>4, <1>5, ReplayFact DEF Replayed
<1>7. \A i \in 1..n : RecordOK(rs[i]) /\ (Allocates(rs[i]) => rs[i].handle < st.next)
  BY <1>1, <1>3, <1>5 DEF DiskInv
<1>8. Follows(disk, d, st.next)
  <2>1. n <= Len(rs)
    BY <1>3, <1>5
  <2> QED
    BY <1>1, <1>2, <1>3, <1>5, <1>6, <1>7, <2>1, ReplayFollows
<1>9. ASSUME NEW i \in 1..n, tail[i].record.op = "alloc" PROVE tail[i].record.handle < d.next
  BY <1>1, <1>2, <1>3, <1>5, <1>6, <1>7, <1>9, AllocReplayed
<1>10. Sane(d) /\ NonePending(d) /\ disk.next <= d.next /\ d.next <= st.next
  BY <1>1, <1>8 DEF Follows, DiskInv
<1> QED
  BY <1>2, <1>9, <1>10, SaneNumbers

\* The flusher keeps the invariant: the disk is replay's state, and a handle whose
\* record it wrote is allocated there.
LEMMA FlushStep ==
  ASSUME MetaInv, NEW n \in 1..Len(tail), Flush(n)
  PROVE  MetaInv'
<1>1. disk' = Replayed(n) /\ tail' = SubSeq(tail, n + 1, Len(tail))
      /\ UNCHANGED <<st, call, cow, gc, served>>
  BY DEF Flush
<1>2. World(st, disk, tail, call, served) /\ DiskInv(st, disk, tail) /\ IsSeq(tail)
      /\ FreshInv(st, disk, served) /\ CallInv(call, st, disk, tail) /\ UsedInv(st)
  BY DEF MetaInv, World, DiskInv
<1>3. /\ Sane(disk') /\ NonePending(disk') /\ disk.next <= disk'.next /\ disk'.next <= st.next
      /\ disk.next \in Nat /\ disk'.next \in Nat /\ st.next \in Nat
      /\ \A i \in 1..n : tail[i].record.op = "alloc" => tail[i].record.handle < disk'.next
  <2>1. n \in 0..Len(tail)
    OBVIOUS
  <2> QED
    BY <1>1, <2>1, ReplayedFact
<1>4. /\ IsSeq(tail') /\ n \in Nat
      /\ \A i \in DOMAIN tail' : i + n \in DOMAIN tail /\ tail'[i] = tail[i + n]
      /\ \A i \in DOMAIN tail : i \notin 1..n => i - n \in DOMAIN tail' /\ tail'[i - n] = tail[i]
  <2> DEFINE R == Range(tail)
  <2>1. tail \in Seq(R)
    BY <1>2 DEF IsSeq
  <2> HIDE DEF R
  <2>2. Len(tail) \in Nat /\ DOMAIN tail = 1..Len(tail) /\ n \in Nat
    BY <2>1
  <2>3. tail' \in Seq(R) /\ Len(tail') = Len(tail) - n
        /\ \A i \in 1..(Len(tail) - n) : tail'[i] = tail[i + n]
    <3>1. n \in 1..Len(tail) /\ Len(tail) \in Nat
      BY <2>2
    <3>2. PICK t2 : t2 = SubSeq(tail, n + 1, Len(tail))
      OBVIOUS
    <3>3. t2 \in Seq(R)
      BY <2>1, <2>2, <3>2
    <3>4. Len(t2) = Len(tail) - n
      <4>1. PICK m \in Int, l \in Int : m = n + 1 /\ l = Len(tail)
        BY <3>1
      <4>2. \A i \in m..l : tail[i] \in R
        BY <2>1, <2>2, <4>1
      <4>3. Len(t2) = IF m <= l THEN l - m + 1 ELSE 0
        BY <3>2, <4>1, <4>2, SubSeqProperties
      <4> QED
        BY <3>1, <4>1, <4>3
    <3>5. ASSUME NEW i \in 1..(Len(tail) - n) PROVE t2[i] = tail[i + n]
      BY <2>1, <2>2, <3>2
    <3> QED
      BY <1>1, <3>2, <3>3, <3>4, <3>5
  <2>4. DOMAIN tail' = 1..(Len(tail) - n)
    BY <2>3
  <2>5. IsSeq(tail')
    BY <2>3, SeqIsSeq
  <2>6. \A i \in DOMAIN tail : i \notin 1..n => i - n \in 1..(Len(tail) - n) /\ (i - n) + n = i
    BY <2>2
  <2> QED
    BY <2>2, <2>3, <2>4, <2>5, <2>6
<1>5. DiskInv(st, disk', tail')
  BY <1>2, <1>3, <1>4 DEF DiskInv
<1>6. FreshInv(st, disk', served)
  <2>1. \A h \in Handle : served[h] > 0 => h < disk'.next
    BY <1>2, <1>3, HandleNat DEF FreshInv
  <2>2. \A h \in DOMAIN st.chunks : ~st.chunks[h].pending => h < disk'.next
    BY <1>2, <1>3, SaneNumbers DEF FreshInv, DiskInv
  <2> QED
    BY <1>2, <2>1, <2>2 DEF FreshInv
<1>7. ASSUME NEW e \in Call PROVE CallOK(e, call[e], st, disk', tail')
  <2>1. CallOK(e, call[e], st, disk, tail)
    BY <1>2 DEF CallInv
  <2>2. ASSUME NEW h \in Nat, Allocated(tail, e, h)
        PROVE  Allocated(tail', e, h) \/ h < disk'.next
    <3>1. PICK i \in DOMAIN tail : /\ tail[i].owner = e /\ tail[i].record.op = "alloc"
                                   /\ tail[i].record.handle = h
      BY <2>2 DEF Allocated
    <3>2. CASE i \in 1..n
      BY <1>3, <3>1, <3>2
    <3>3. CASE i \notin 1..n
      BY <1>4, <3>1, <3>3 DEF Allocated
    <3> QED
      BY <3>2, <3>3
  <2>3. Making(call[e]) => call[e].handle \in DOMAIN st.chunks /\ st.chunks[call[e].handle].pending
    BY <2>1 DEF CallOK
  <2> QED
    BY <1>3, <2>1, <2>2, <2>3, CallStays
<1>8. CallInv(call, st, disk', tail')
  BY <1>2, <1>7 DEF CallInv
<1>9. World(st, disk', tail', call, served)
  BY <1>2, <1>5, <1>6, <1>8 DEF World
<1> QED
  BY <1>1, <1>9 DEF MetaInv, OtherInv

\* All records are on disk.
LEMMA NoTail ==
  /\ IsSeq(<<>>) /\ \A i \in DOMAIN <<>> : FALSE
BY PathSeq

\* Checkpoint and rotation keep the invariant: next survives, pending chunks do not.
LEMMA CheckpointStep ==
  ASSUME MetaInv, Checkpoint
  PROVE  MetaInv'
<1>1. disk' = Load(ToCheckpoint(st)) /\ tail' = <<>> /\ UNCHANGED <<st, call, cow, gc, served>>
  BY DEF Checkpoint
<1>2. World(st, disk, tail, call, served) /\ DiskInv(st, disk, tail) /\ Sane(st) /\ Sane(disk)
      /\ FreshInv(st, disk, served) /\ CallInv(call, st, disk, tail) /\ UsedInv(st)
  BY DEF MetaInv, World, DiskInv
<1>3. Sane(disk') /\ NonePending(disk') /\ disk'.next = st.next
  BY <1>1, <1>2, LoadFact
<1>4. st.next \in Nat /\ disk.next \in Nat /\ disk.next <= disk'.next /\ disk'.next \in Nat
  BY <1>2, <1>3, SaneNumbers DEF DiskInv
<1>5. IsSeq(tail') /\ \A i \in DOMAIN tail' : FALSE
  BY <1>1, NoTail
<1>6. DiskInv(st, disk', tail')
  BY <1>2, <1>3, <1>4, <1>5 DEF DiskInv
<1>7. FreshInv(st, disk', served)
  <2>1. \A h \in Handle : served[h] > 0 => h < disk'.next
    BY <1>2, <1>4, HandleNat DEF FreshInv
  <2>2. \A h \in DOMAIN st.chunks : ~st.chunks[h].pending => h < disk'.next
    BY <1>2, <1>3, SaneNumbers
  <2> QED
    BY <1>2, <2>1, <2>2 DEF FreshInv
<1>8. ASSUME NEW e \in Call PROVE CallOK(e, call[e], st, disk', tail')
  <2>1. CallOK(e, call[e], st, disk, tail)
    BY <1>2 DEF CallInv
  <2>2. call[e].handle \in Nat
    BY <2>1, HandleNat DEF CallOK, CallType
  <2>3. Making(call[e]) => call[e].handle < disk'.next
    BY <1>2, <1>3, <2>1, SaneNumbers DEF CallOK
  <2>4. Told(call[e]) => call[e].handle < disk'.next
    BY <1>4, <2>1, <2>2 DEF CallOK
  <2> QED
    BY <2>1, <2>3, <2>4 DEF CallOK, Making
<1>9. CallInv(call, st, disk', tail')
  BY <1>2, <1>8 DEF CallInv
<1>10. World(st, disk', tail', call, served)
  BY <1>2, <1>6, <1>7, <1>9 DEF World
<1> QED
  BY <1>1, <1>10 DEF MetaInv, OtherInv

\* No call is in progress when the master starts.
LEMMA NoCalls ==
  ASSUME NEW cl, cl = [c \in Call |-> Idle], NEW s, NEW d, NEW t
  PROVE  CallInv(cl, s, d, t)
<1>1. Quiet(Idle)
  BY DEF Quiet, Idle
<1>2. \A c \in Call : CallOK(c, cl[c], s, d, t) /\ ~Making(cl[c])
  BY <1>1, IdleType, QuietOK
<1> QED
  BY <1>2 DEF CallInv

\* Crash and Recover keep the invariant, wherever the tail is cut.
LEMMA CrashStep ==
  ASSUME MetaInv, NEW n \in 0..Len(tail), Crash(n)
  PROVE  MetaInv'
<1>1. PICK d : d = Replayed(n)
  OBVIOUS
<1>2. /\ disk' = d /\ st' = RecomputeRefcounts(d) /\ tail' = <<>>
      /\ call' = [c \in Call |-> Idle] /\ cow' = "none"
      /\ gc' = [pc |-> "idle", expired |-> {}] /\ served' = served
  BY <1>1 DEF Crash
<1>3. /\ Sane(d) /\ NonePending(d) /\ disk.next <= d.next /\ disk.next \in Nat /\ d.next \in Nat
  BY <1>1, ReplayedFact
<1>4. PICK s : s = RecomputeRefcounts(d)
  OBVIOUS
<1>5. /\ Sane(s) /\ NonePending(s) /\ s.files = d.files /\ s.next = d.next
      /\ DOMAIN s.chunks = DOMAIN d.chunks \cup Used(d.files)
  BY <1>3, <1>4, RecomputeFact
<1>6. IsSeq(tail') /\ \A i \in DOMAIN tail' : FALSE
  BY <1>2, NoTail
<1>7. DiskInv(s, d, tail')
  BY <1>3, <1>5, <1>6 DEF DiskInv
<1>8. FreshInv(s, d, served)
  <2>1. FreshInv(st, disk, served)
    BY DEF MetaInv, World
  <2>2. ASSUME NEW h \in Handle, served[h] > 0 PROVE h < d.next
    <3>1. h < disk.next /\ h \in Nat
      BY <2>1, <2>2, HandleNat DEF FreshInv
    <3> QED
      BY <1>3, <3>1
  <2>3. \A h \in DOMAIN s.chunks : h < d.next
    BY <1>5, SaneNumbers
  <2> QED
    BY <2>1, <2>2, <2>3 DEF FreshInv
<1>9. UsedInv(s)
  BY <1>5 DEF UsedInv, NonePending
<1>10. CallInv(call', s, d, tail')
  BY <1>2, NoCalls
<1>11. World(st', disk', tail', call', served')
  BY <1>2, <1>4, <1>7, <1>8, <1>9, <1>10 DEF World
<1>12. OtherInv'
  BY <1>2 DEF OtherInv
<1> QED
  BY <1>11, <1>12 DEF MetaInv

-----------------------------------------------------------------------------
(* The theorems.                                                           *)

\* A master without a log begins in the invariant.
LEMMA InitInv == Init => MetaInv
<1> SUFFICES ASSUME Init PROVE MetaInv
  OBVIOUS
<1>1. PICK fs : fs = [p \in {} |-> <<>>]
  OBVIOUS
<1>2. PICK cs : cs = [h \in {} |-> NewChunk(1)]
  OBVIOUS
<1>3. st = [files |-> fs, chunks |-> cs, next |-> 1] /\ disk = st
  BY <1>1, <1>2 DEF Init, EmptyState
<1>4. /\ DOMAIN fs = {} /\ fs = [p \in DOMAIN fs |-> fs[p]]
      /\ DOMAIN cs = {} /\ cs \in [DOMAIN cs -> Chunk]
  BY <1>1, <1>2
<1>5. Used(fs) = {}
  BY <1>4 DEF Used
<1>6. Sane(st)
  <2>1. IsFiles(fs)
    BY <1>4, FS_EmptySet DEF IsFiles
  <2>2. IsChunks(cs)
    BY <1>4 DEF IsChunks
  <2>3. 1 \in 1..(MaxHandle + 1)
    BY HandleNat
  <2>4. \A h \in Used(fs) \cup DOMAIN cs : h < 1
    BY <1>4, <1>5
  <2> QED
    BY <1>3, <2>1, <2>2, <2>3, <2>4 DEF Sane
<1>7. tail = <<>> /\ IsSeq(tail) /\ \A i \in DOMAIN tail : FALSE
  BY NoTail DEF Init
<1>8. DiskInv(st, disk, tail)
  <2>1. NonePending(st)
    BY <1>3, <1>4 DEF NonePending
  <2>2. st.next <= st.next
    BY <1>3
  <2> QED
    BY <1>3, <1>6, <1>7, <2>1, <2>2 DEF DiskInv
<1>9. CallInv(call, st, disk, tail)
  BY NoCalls DEF Init
<1>10. FreshInv(st, disk, served)
  <2>1. served = [h \in Handle |-> 0] /\ 0 \in 0..MaxVersion
    BY MetadataAssumption DEF Init
  <2> QED
    BY <1>3, <1>4, <2>1 DEF FreshInv
<1>11. UsedInv(st)
  BY <1>3, <1>5 DEF UsedInv
<1>12. OtherInv
  BY DEF Init, OtherInv
<1> QED
  BY <1>8, <1>9, <1>10, <1>11, <1>12 DEF MetaInv, World

\* Every step keeps the invariant.
LEMMA NextInv == MetaInv /\ [Next]_vars => MetaInv'
<1> SUFFICES ASSUME MetaInv, [Next]_vars PROVE MetaInv'
  OBVIOUS
<1>1. ASSUME NEW c \in Call, NamespaceNext(c) PROVE MetaInv'
  BY <1>1, CreateStep, RemoveFileStep, CheckTwoPathsStep, RenameStep, SnapshotStep, ReturnStep
     DEF NamespaceNext
<1>2. ASSUME NEW c \in Call, ChunkNext(c) PROVE MetaInv'
  BY <1>2, AddChunkStep, FindLeaseHolderStep, AllocHandleStep, CreateChunkOnStep,
     CreateFailedStep, AddChunkFinishStep, CopyOnWriteStep, CopyOnWriteFinishStep,
     CopyOnWriteReturnStep
     DEF ChunkNext
<1>3. ASSUME NEW c \in Call, GrantNext(c) PROVE MetaInv'
  BY <1>3, RegrantStep, PrepareGrantStep, ReplicaUpdatedStep, GrantFinishStep, GrantNothingStep
     DEF GrantNext
<1>4. ASSUME NEW h \in Handle, HeartBeat(h) PROVE MetaInv'
  BY <1>4, HeartBeatStep
<1>5. CASE GcNext
  BY <1>5, GcPassStep, GcRemoveStep, GcDropOrphansStep, GcReturnStep DEF GcNext
<1>6. CASE DiskNext
  BY <1>6, FlushStep, CheckpointStep, CrashStep DEF DiskNext
<1>7. CASE UNCHANGED vars
  BY <1>7 DEF vars, MetaInv, OtherInv
<1> QED
  BY <1>1, <1>2, <1>3, <1>4, <1>5, <1>6, <1>7 DEF Next

\* Master's handlers, the collector, the flusher and Recover keep the invariant.
THEOREM Invariance == Spec => []MetaInv
BY InitInv, NextInv, PTL DEF Spec

\* The type invariant: memory and disk are states of the master, with handles
\* below next, and the calls, cow_mutex_ and the collector are where they may be.
THEOREM TypeCorrect == Spec => []TypeOK
<1>1. ASSUME NEW s, Sane(s) PROVE StateOK(s)
  BY <1>1 DEF Sane, StateOK, IsFiles, IsChunks
<1>2. MetaInv => TypeOK
  BY <1>1 DEF MetaInv, World, DiskInv, CallInv, CallOK, CallType, FreshInv, OtherInv, TypeOK
<1> QED
  BY <1>2, Invariance, PTL

\* Master::AllocHandle: chunkservers hear of a handle when its record is on
\* disk, so neither a crash nor a checkpoint brings it back.
THEOREM FreshHandles == Spec => []HandlesFresh
<1>1. MetaInv => HandlesFresh
  <2> SUFFICES ASSUME MetaInv, NEW h \in Handle, served[h] > 0 PROVE h < st.next
    BY DEF HandlesFresh
  <2>1. h < disk.next /\ disk.next <= st.next /\ Sane(st) /\ Sane(disk)
    BY DEF MetaInv, World, DiskInv, FreshInv
  <2> QED
    BY <2>1, SaneNumbers, HandleNat
<1> QED
  BY <1>1, Invariance, PTL

\* Master::GcPass, AllocHandle and Recover: every chunk of a file is in the
\* table and complete, whatever is collected, fails or is lost by a crash.
THEOREM NothingDangles == Spec => []NoDanglingReference
<1>1. MetaInv => NoDanglingReference
  BY DEF MetaInv, World, UsedInv, NoDanglingReference, Used, Range
<1> QED
  BY <1>1, Invariance, PTL
=============================================================================
