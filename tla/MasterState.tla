---------------------------- MODULE MasterState ----------------------------
(***************************************************************************)
(* The master's metadata and the log records that change it, as functions: *)
(* src/master/master_state.cc, namespace.cc, chunk_table.cc and the hidden *)
(* names of src/common/paths.cc.                                           *)
(*                                                                         *)
(* A state is a record of                                                  *)
(*   files   the chunk handles of each file, a sequence per path;          *)
(*   chunks  the version, the reference count and the pending flag of each *)
(*           chunk (where its replicas are is not persistent, and not here); *)
(*   next    the handle that is allocated next.                            *)
(* A path is a sequence of names.  The name "x" is <<"x">>, and            *)
(* ".deleted.7.x" is <<"x", 7>>.                                           *)
(***************************************************************************)
EXTENDS Integers, FiniteSetsExt, SequencesExt

-----------------------------------------------------------------------------
(* Paths and the namespace.                                                *)

IsAncestorOrSelf(p, q) == IsPrefix(p, q)

\* Only the last name counts: a file in a hidden directory is not hidden.
IsHiddenPath(p) == p # <<>> /\ Len(Last(p)) > 1

HiddenNameFor(p, stamp) == Append(Front(p), Append(Last(p), stamp))

\* ParseHiddenName: the time in the name of a hidden path.
StampOf(p) == Last(p)[2]

Exists(fs, p) == p \in DOMAIN fs

\* There are no directories but those that files are in.
IsDirectory(fs, p) == p = <<>> \/ \E q \in DOMAIN fs : IsStrictPrefix(p, q)

HasFileAncestor(fs, p) == \E q \in DOMAIN fs : q # <<>> /\ IsStrictPrefix(q, p)

Subtree(fs, root, skip_hidden) ==
  {p \in DOMAIN fs : IsPrefix(root, p) /\ ~(skip_hidden /\ IsHiddenPath(p))}

\* Where a path below source goes when source becomes target.
Moved(p, source, target) == target \o SubSeq(p, Len(source) + 1, Len(p))

\* Files that are already at the target are overwritten.
RenameSubtree(fs, source, target) ==
  LET sub == Subtree(fs, source, FALSE)
      moved == {Moved(p, source, target) : p \in sub}
  IN  [q \in (DOMAIN fs \ sub) \cup moved |->
         IF q \in moved THEN fs[Moved(q, target, source)] ELSE fs[q]]

\* How often the files ps refer to chunk h.
References(fs, ps, h) ==
  Cardinality({x \in UNION {{p} \X DOMAIN fs[p] : p \in ps} : fs[x[1]][x[2]] = h})

-----------------------------------------------------------------------------
(* The chunk table.                                                        *)

NewChunk(version) == [version |-> version, refcount |-> 0, pending |-> FALSE]

\* Create returns the chunk that is there, if there is one.
ChunkCreate(cs, h, version) ==
  IF h \in DOMAIN cs THEN cs
  ELSE [g \in DOMAIN cs \cup {h} |-> IF g = h THEN NewChunk(version) ELSE cs[g]]

ChunkErase(cs, h) == [g \in DOMAIN cs \ {h} |-> cs[g]]

\* References are dropped one by one, never below 0.
Dropped(chunk, n) ==
  [chunk EXCEPT !.refcount = IF n > @ THEN 0 ELSE @ - n]

\* The files of a snapshot refer to the chunk as well.
Shared(chunk, n) == [chunk EXCEPT !.refcount = @ + n]

\* What AddChunk and ReplaceChunk do to the chunk that a file refers to now.
Referenced(cs, h) ==
  [ChunkCreate(cs, h, 1) EXCEPT ![h].pending = FALSE, ![h].refcount = @ + 1]

-----------------------------------------------------------------------------
(* The Apply functions.                                                    *)

EmptyState == [files |-> [p \in {} |-> <<>>], chunks |-> [h \in {} |-> NewChunk(1)],
               next |-> 1]

ApplyCreate(st, path) ==
  IF Exists(st.files, path) THEN st
  ELSE [st EXCEPT !.files = [p \in DOMAIN @ \cup {path} |->
                               IF p = path THEN <<>> ELSE @[p]]]

ApplyRename(st, source, target) ==
  IF Exists(st.files, source) \/ IsDirectory(st.files, source)
  THEN [st EXCEPT !.files = RenameSubtree(@, source, target)]
  ELSE st

ApplyRemove(st, path) ==
  IF ~Exists(st.files, path) THEN st
  ELSE [st EXCEPT
         !.files = [p \in DOMAIN @ \ {path} |-> @[p]],
         !.chunks = [h \in DOMAIN @ |->
                       Dropped(@[h], References(st.files, {path}, h))]]

\* Mutant of ApplyAllocHandle: one handle is skipped.
ApplyAllocHandle_SkipsOne(st, h) ==
  [st EXCEPT !.next = IF h + 1 > @ THEN h + 2 ELSE @]

ApplyAllocHandle(st, h) ==
  [st EXCEPT !.next = IF h + 1 > @ THEN h + 1 ELSE @]

\* Mutant of ApplyReplaceChunk: the old chunk keeps its reference.
ApplyReplaceChunk_KeepsOld(st, path, index, h) ==
  IF \/ ~Exists(st.files, path)
     \/ index >= Len(st.files[path])
     \/ st.files[path][index + 1] = h
  THEN st
  ELSE ApplyAllocHandle([st EXCEPT !.files[path][index + 1] = h,
                                   !.chunks = Referenced(@, h)], h)

\* index counts from 0.
ApplyReplaceChunk(st, path, index, h) ==
  IF \/ ~Exists(st.files, path)
     \/ index >= Len(st.files[path])
     \/ st.files[path][index + 1] = h
  THEN st
  ELSE LET old == st.files[path][index + 1]
           cs == IF old \in DOMAIN st.chunks
                 THEN [st.chunks EXCEPT ![old] = Dropped(@, 1)] ELSE st.chunks
       IN  ApplyAllocHandle([st EXCEPT !.files[path][index + 1] = h,
                                       !.chunks = Referenced(cs, h)], h)

ApplyAddChunk(st, path, index, h) ==
  IF ~Exists(st.files, path) \/ index > Len(st.files[path]) THEN st
  ELSE IF index < Len(st.files[path]) THEN ApplyReplaceChunk(st, path, index, h)
  ELSE ApplyAllocHandle([st EXCEPT !.files[path] = Append(@, h),
                                   !.chunks = Referenced(@, h)], h)

ApplyBumpVersion(st, h, version) ==
  IF h \notin DOMAIN st.chunks THEN st
  ELSE [st EXCEPT !.chunks[h].version = IF version > @ THEN version ELSE @]

\* The visible files below source are copied, except onto existing files; the
\* copies share the chunks.
ApplySnapshot(st, source, target) ==
  LET copied == {p \in Subtree(st.files, source, TRUE) :
                   ~Exists(st.files, Moved(p, source, target))}
      new == {Moved(p, source, target) : p \in copied}
  IN  [st EXCEPT
        !.files = [q \in DOMAIN @ \cup new |->
                     IF q \in new THEN @[Moved(q, target, source)] ELSE @[q]],
        !.chunks = [h \in DOMAIN @ |->
                      Shared(@[h], References(st.files, copied, h))]]

ApplyDropChunk(st, h) == [st EXCEPT !.chunks = ChunkErase(@, h)]

\* A log record applied to a state.
Apply(st, r) ==
  CASE r.op = "create" -> ApplyCreate(st, r.path)
    [] r.op = "rename" -> ApplyRename(st, r.path, r.target)
    [] r.op = "remove" -> ApplyRemove(st, r.path)
    [] r.op = "alloc" -> ApplyAllocHandle(st, r.handle)
    [] r.op = "add" -> ApplyAddChunk(st, r.path, r.index, r.handle)
    [] r.op = "replace" -> ApplyReplaceChunk(st, r.path, r.index, r.handle)
    [] r.op = "bump" -> ApplyBumpVersion(st, r.handle, r.version)
    [] r.op = "snapshot" -> ApplySnapshot(st, r.path, r.target)
    [] r.op = "drop" -> ApplyDropChunk(st, r.handle)

-----------------------------------------------------------------------------
(* Checkpoints and recovery.                                               *)

\* Mutant of ToCheckpoint: chunks that are being created are written too.
ToCheckpoint_Pending(st) ==
  [files |-> st.files, next |-> st.next,
   versions |-> [h \in DOMAIN st.chunks |-> st.chunks[h].version]]

\* A checkpoint has the handles and versions of the chunks that are not
\* pending, and no reference counts.
ToCheckpoint(st) ==
  LET kept == {h \in DOMAIN st.chunks : ~st.chunks[h].pending}
  IN  [files |-> st.files, next |-> st.next,
       versions |-> [h \in kept |-> st.chunks[h].version]]

\* next_handle ends above every chunk of the checkpoint.
Load(ckpt) ==
  [files |-> ckpt.files,
   chunks |-> [h \in DOMAIN ckpt.versions |-> NewChunk(ckpt.versions[h])],
   next |-> Max({1, ckpt.next} \cup {h + 1 : h \in DOMAIN ckpt.versions})]

\* The last step of Recover: count the references again; a chunk that a file
\* refers to and that is not in the table comes back with version 1.
RecomputeRefcounts(st) ==
  LET used == UNION {{st.files[p][i] : i \in DOMAIN st.files[p]} :
                       p \in DOMAIN st.files}
      all == DOMAIN st.chunks \cup used
  IN  [st EXCEPT
        !.chunks = [h \in all |->
                      [(IF h \in DOMAIN st.chunks THEN st.chunks[h] ELSE NewChunk(1))
                         EXCEPT !.refcount = References(st.files, DOMAIN st.files, h)]],
        !.next = Max({@} \cup {h + 1 : h \in used})]

\* Records replayed in their order.
Replay(st, records) ==
  LET state[n \in 0..Len(records)] ==
        IF n = 0 THEN st ELSE Apply(state[n - 1], records[n])
  IN  state[Len(records)]
=============================================================================
