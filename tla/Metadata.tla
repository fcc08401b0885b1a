------------------------------ MODULE Metadata ------------------------------
(***************************************************************************)
(* The handlers of src/master/master.cc and what they do to the metadata:  *)
(* Create, Remove, Rename, Snapshot, AddChunk, FindLeaseHolder with its    *)
(* copy-on-write, the grants of src/master/lease_manager.cc as far as they *)
(* change versions, HeartBeat's adoption of versions, GcPass, and Recover. *)
(*                                                                         *)
(* One step is one critical section of the state mutex; between two of     *)
(* them the handler waits for the log or for chunkservers, and others run. *)
(* A handler keeps its path locks from its first section to its last one.  *)
(* LockTable proves that this keeps the subtrees of writers apart, so here *)
(* the locks of a call are taken at once, when no call in progress is in   *)
(* the way.  A call that is refused, or that only reads, changes nothing   *)
(* and has no step.                                                        *)
(*                                                                         *)
(* OpLog proves that recovery finds a prefix of the records, acknowledged  *)
(* ones included, in order.  Here the disk is the state that the flushed   *)
(* records add up to, followed by the records that are not flushed yet; a  *)
(* crash keeps any prefix of those.                                        *)
(***************************************************************************)
EXTENDS MasterState

CONSTANTS
  Call,         \* calls in progress at the same time
  Source,       \* paths that requests name as what they work on
  Target,       \* paths that Create, Rename and Snapshot make
  Stamp,        \* the times, in seconds, that hidden names hold
  Retention,    \* config.deleted_file_retention, in seconds
  MaxDepth,     \* bound: names in a path
  MaxHandle,    \* bound: handles that are allocated
  MaxChunks,    \* bound: chunks of a file
  MaxVersion    \* bound: chunk versions

ASSUME MetadataAssumption ==
  /\ Stamp \subseteq Nat
  /\ {Retention, MaxDepth, MaxHandle, MaxChunks} \subseteq Nat
  /\ MaxVersion \in Nat \ {0}
  /\ {"gc", "none"} \cap Call = {}
  /\ \A p \in Source \cup Target : p \in Seq(Range(p))   \* paths are sequences

VARIABLES
  st,       \* MasterState
  disk,     \* the state that the flushed records make
  tail,     \* records that are not flushed, with the call that appended each
  call,     \* the calls in progress
  cow,      \* who holds cow_mutex_, or "none"
  gc,       \* the pass of the garbage collector
  served    \* the highest version that a chunkserver has of each chunk, or 0

vars == <<st, disk, tail, call, cow, gc, served>>

Handle == 1..MaxHandle
Owner == Call \cup {"gc", "none"}

\* "idle"; "rename" / "snapshot": checked, about to be applied; "alloc": about
\* to allocate a handle; "create": waits for its record, then asks chunkservers
\* to create the chunk; "created" / "failed": they answered; "cow": about to
\* enter CopyOnWrite; "replaced": waits for the record of the new chunk;
\* "grant": about to grant a lease; "round": sends the replicas a new version;
\* "flush": waits for its last record, then releases its locks.
PC == {"idle", "rename", "snapshot", "alloc", "create", "created", "failed",
       "cow", "replaced", "grant", "round", "flush"}

Op == {"none", "create", "remove", "rename", "snapshot", "add", "lease", "regrant"}

Idle == [pc |-> "idle", op |-> "none", path |-> <<>>, target |-> <<>>,
         index |-> 0, handle |-> 0, version |-> 0]

-----------------------------------------------------------------------------
(* Path locks, the log, and the disk.                                      *)

\* Mutant of WriteLocks: Rename and Snapshot lock only what they read from.
WriteLocks_SourceOnly(k) ==
  IF k.op \in {"create", "remove", "add", "rename", "snapshot"} THEN {k.path} ELSE {}

\* The paths that a call locks to write and to read, ancestors left out.
WriteLocks(k) ==
  CASE k.op \in {"create", "remove", "add"} -> {k.path}
    [] k.op \in {"rename", "snapshot"} -> {k.path, k.target}
    [] OTHER -> {}
Locks(k) == WriteLocks(k) \cup IF k.op = "lease" THEN {k.path} ELSE {}

\* A write lock on p keeps everyone else from p and from all below p.
Conflict(k, l) == \E p \in WriteLocks(k), q \in Locks(l) : IsAncestorOrSelf(p, q)

\* Acquire returns to a call with these parameters.
CanLock(k) == \A d \in Call : ~Conflict(k, call[d]) /\ ~Conflict(call[d], k)

\* Log: the record is appended in the section that changed the state.
Log(r, owner) == tail' = Append(tail, [record |-> r, owner |-> owner])

\* WaitFlushed returns: none of the owner's records waits for the flush.
Flushed(owner) == \A i \in DOMAIN tail : tail[i].owner # owner

\* Replay of the flushed records and the first n of the others.
Records(n) == [i \in 1..n |-> tail[i].record]
Replayed(n) == Replay(disk, Records(n))

Init ==
  /\ st = EmptyState
  /\ disk = EmptyState
  /\ tail = <<>>
  /\ call = [c \in Call |-> Idle]
  /\ cow = "none"
  /\ gc = [pc |-> "idle", expired |-> {}]
  /\ served = [h \in Handle |-> 0]

\* The flusher writes a batch.
Flush(n) ==
  /\ n \in 1..Len(tail)
  /\ disk' = Replayed(n)
  /\ tail' = SubSeq(tail, n + 1, Len(tail))
  /\ UNCHANGED <<st, call, cow, gc, served>>

\* Rotate: all records are flushed, and the checkpoint stands for them.
Checkpoint ==
  /\ disk' = Load(ToCheckpoint(st))
  /\ tail' = <<>>
  /\ UNCHANGED <<st, call, cow, gc, served>>

\* The master dies, keeps n of the records that were not flushed, and Recover
\* runs in the next process.
Crash(n) ==
  /\ n \in 0..Len(tail)
  /\ disk' = Replayed(n)
  /\ st' = RecomputeRefcounts(Replayed(n))
  /\ tail' = <<>>
  /\ call' = [c \in Call |-> Idle]
  /\ cow' = "none"
  /\ gc' = [pc |-> "idle", expired |-> {}]
  /\ UNCHANGED served

\* The call waits for its record and returns.
Return(c) ==
  /\ call[c].pc = "flush"
  /\ Flushed(c)
  /\ call' = [call EXCEPT ![c] = Idle]
  /\ UNCHANGED <<st, disk, tail, cow, gc, served>>

-----------------------------------------------------------------------------
(* Create, Remove, Rename, Snapshot.                                       *)

\* The test that Create, Rename and Snapshot make of the path to be made.
Free(path) ==
  /\ ~Exists(st.files, path)
  /\ ~IsDirectory(st.files, path)
  /\ ~HasFileAncestor(st.files, path)

Create(c, path) ==
  LET k == [Idle EXCEPT !.pc = "flush", !.op = "create", !.path = path] IN
  /\ call[c].pc = "idle"
  /\ CanLock(k)
  /\ Free(path)
  /\ st' = ApplyCreate(st, path)
  /\ Log([op |-> "create", path |-> path], c)
  /\ call' = [call EXCEPT ![c] = k]
  /\ UNCHANGED <<disk, cow, gc, served>>

\* The clock shows any time; the name takes the first second that is free.
HiddenName(path, hidden) ==
  \E now, s \in Stamp :
    /\ s >= now
    /\ hidden = HiddenNameFor(path, s)
    /\ ~Exists(st.files, hidden)
    /\ \A t \in now..(s - 1) : Exists(st.files, HiddenNameFor(path, t))

\* Remove hides a file, and removes a file that is already hidden.
RemoveFile(c, path) ==
  LET k == [Idle EXCEPT !.pc = "flush", !.op = "remove", !.path = path] IN
  /\ call[c].pc = "idle"
  /\ CanLock(k)
  /\ Exists(st.files, path)
  /\ \/ /\ IsHiddenPath(path)
        /\ st' = ApplyRemove(st, path)
        /\ Log([op |-> "remove", path |-> path], c)
     \/ /\ ~IsHiddenPath(path)
        /\ \E hidden \in {HiddenNameFor(path, s) : s \in Stamp} :
             /\ HiddenName(path, hidden)
             /\ st' = ApplyRename(st, path, hidden)
             /\ Log([op |-> "rename", path |-> path, target |-> hidden], c)
  /\ call' = [call EXCEPT ![c] = k]
  /\ UNCHANGED <<disk, cow, gc, served>>

\* The checks of Rename and of Snapshot; leases are revoked after them.
CheckTwoPaths(c, op, path, target) ==
  LET k == [Idle EXCEPT !.pc = op, !.op = op, !.path = path, !.target = target] IN
  /\ call[c].pc = "idle"
  /\ ~IsAncestorOrSelf(path, target)
  /\ CanLock(k)
  /\ Exists(st.files, path) \/ IsDirectory(st.files, path)
  /\ Free(target)
  /\ \A p \in Subtree(st.files, path, FALSE) : Len(Moved(p, path, target)) <= MaxDepth
  /\ call' = [call EXCEPT ![c] = k]
  /\ UNCHANGED <<st, disk, tail, cow, gc, served>>

\* The last part of Rename.
Rename(c) ==
  LET k == call[c] IN
  /\ k.pc = "rename"
  /\ st' = ApplyRename(st, k.path, k.target)
  /\ Log([op |-> "rename", path |-> k.path, target |-> k.target], c)
  /\ call' = [call EXCEPT ![c].pc = "flush"]
  /\ UNCHANGED <<disk, cow, gc, served>>

SnapshotFinish(c) ==
  LET k == call[c] IN
  /\ k.pc = "snapshot"
  /\ st' = ApplySnapshot(st, k.path, k.target)
  /\ Log([op |-> "snapshot", path |-> k.path, target |-> k.target], c)
  /\ call' = [call EXCEPT ![c].pc = "flush"]
  /\ UNCHANGED <<disk, cow, gc, served>>

-----------------------------------------------------------------------------
(* AddChunk, and the allocation of chunks.                                 *)

\* The chunk that a call works on, 0 if the file or the chunk is not there.
Current(k) ==
  IF Exists(st.files, k.path) /\ k.index < Len(st.files[k.path])
  THEN st.files[k.path][k.index + 1] ELSE 0

\* AddChunk to the end of the file; other indexes are answered or refused.
AddChunk(c, path) ==
  LET k == [Idle EXCEPT !.pc = "alloc", !.op = "add", !.path = path,
                        !.index = Len(st.files[path])] IN
  /\ call[c].pc = "idle"
  /\ Exists(st.files, path)
  /\ CanLock(k)
  /\ k.index < MaxChunks
  /\ call' = [call EXCEPT ![c] = k]
  /\ UNCHANGED <<st, disk, tail, cow, gc, served>>

\* The new chunk is pending until a file refers to it.
AllocHandle(c) ==
  LET h == st.next IN
  /\ call[c].pc = "alloc"
  /\ h <= MaxHandle
  /\ st' = [ApplyAllocHandle(st, h) EXCEPT
             !.chunks = [ChunkCreate(@, h, 1) EXCEPT ![h].pending = TRUE]]
  /\ Log([op |-> "alloc", handle |-> h], c)
  /\ call' = [call EXCEPT ![c].pc = "create", ![c].handle = h]
  /\ UNCHANGED <<disk, cow, gc, served>>

\* Mutant of CreateChunkOn: the record of the handle is not waited for.
CreateChunkOn_NoWait(c) ==
  LET h == call[c].handle IN
  /\ call[c].pc = "create"
  /\ \/ /\ served' = [served EXCEPT ![h] = 1]
        /\ call' = [call EXCEPT ![c].pc = "created"]
     \/ /\ served' \in {served, [served EXCEPT ![h] = 1]}
        /\ call' = [call EXCEPT ![c].pc = "failed"]
  /\ UNCHANGED <<st, disk, tail, cow, gc>>

\* The record is flushed and the chunkservers were asked to create the chunk,
\* empty or as a copy.  When too few did, some may have.
CreateChunkOn(c) ==
  LET h == call[c].handle IN
  /\ call[c].pc = "create"
  /\ Flushed(c)
  /\ \/ /\ served' = [served EXCEPT ![h] = 1]
        /\ call' = [call EXCEPT ![c].pc = "created"]
     \/ /\ served' \in {served, [served EXCEPT ![h] = 1]}
        /\ call' = [call EXCEPT ![c].pc = "failed"]
  /\ UNCHANGED <<st, disk, tail, cow, gc>>

\* Too few replicas: the chunk is erased, and NO_REPLICAS returned.
CreateFailed(c) ==
  /\ call[c].pc = "failed"
  /\ st' = [st EXCEPT !.chunks = ChunkErase(@, call[c].handle)]
  /\ cow' = IF cow = c THEN "none" ELSE cow
  /\ call' = [call EXCEPT ![c] = Idle]
  /\ UNCHANGED <<disk, tail, gc, served>>

\* The last part of AddChunk.
AddChunkFinish(c) ==
  LET k == call[c] IN
  /\ k.pc = "created" /\ k.op = "add"
  /\ st' = ApplyAddChunk(st, k.path, k.index, k.handle)
  /\ Log([op |-> "add", path |-> k.path, index |-> k.index,
          handle |-> k.handle], c)
  /\ call' = [call EXCEPT ![c].pc = "flush"]
  /\ UNCHANGED <<disk, cow, gc, served>>

-----------------------------------------------------------------------------
(* FindLeaseHolder, CopyOnWrite and the grant of a lease.                  *)

\* Mutant of Attempt: two references do not count as shared.
Attempt_OffByOne(k) ==
  LET h == Current(k) IN
  IF h \notin DOMAIN st.chunks THEN Idle
  ELSE [k EXCEPT !.handle = h,
                 !.pc = IF st.chunks[h].refcount > 2 THEN "cow" ELSE "grant"]

\* The first section of FindLeaseHolderAttempt.
Attempt(k) ==
  LET h == Current(k) IN
  IF h \notin DOMAIN st.chunks THEN Idle
  ELSE [k EXCEPT !.handle = h,
                 !.pc = IF st.chunks[h].refcount > 1 THEN "cow" ELSE "grant"]

FindLeaseHolder(c, path, index) ==
  LET k == [Idle EXCEPT !.op = "lease", !.path = path, !.index = index] IN
  /\ call[c].pc = "idle"
  /\ CanLock(k)
  /\ Attempt(k) # Idle
  /\ call' = [call EXCEPT ![c] = Attempt(k)]
  /\ UNCHANGED <<st, disk, tail, cow, gc, served>>

\* CopyOnWrite up to AllocHandle: with cow_mutex_ held, it looks again.
CopyOnWrite(c) ==
  LET k == call[c]
      h == Current(k)
  IN
  /\ k.pc = "cow"
  /\ cow = "none"
  /\ IF h = k.handle /\ h \in DOMAIN st.chunks /\ st.chunks[h].refcount > 1
     THEN /\ cow' = c
          /\ call' = [call EXCEPT ![c].pc = "alloc"]
     ELSE /\ cow' = cow
          /\ call' = [call EXCEPT ![c] =
               IF h \in DOMAIN st.chunks
               THEN [k EXCEPT !.pc = "grant", !.handle = h] ELSE Idle]
  /\ UNCHANGED <<st, disk, tail, gc, served>>

\* The file refers to the copy.
CopyOnWriteFinish(c) ==
  LET k == call[c] IN
  /\ k.pc = "created" /\ k.op = "lease"
  /\ st' = ApplyReplaceChunk(st, k.path, k.index, k.handle)
  /\ Log([op |-> "replace", path |-> k.path, index |-> k.index,
          handle |-> k.handle], c)
  /\ call' = [call EXCEPT ![c].pc = "replaced"]
  /\ UNCHANGED <<disk, cow, gc, served>>

\* CopyOnWrite returns the copy when its record is flushed.
CopyOnWriteReturn(c) ==
  /\ call[c].pc = "replaced"
  /\ Flushed(c)
  /\ cow' = "none"
  /\ call' = [call EXCEPT ![c].pc = "grant"]
  /\ UNCHANGED <<st, disk, tail, gc, served>>

\* ChunkMeta::granting, and LeaseManager::busy_: a grant holds the handle until
\* its record is flushed.
Granting(h) == \E c \in Call : call[c].pc = "round" /\ call[c].handle = h
Busy(h) == \E c \in Call : /\ call[c].op \in {"lease", "regrant"}
                           /\ call[c].pc \in {"round", "flush"}
                           /\ call[c].handle = h

\* HeartBeat and SweepDead post a regrant for a chunk that has a lease; it
\* takes no path locks, and goes to PrepareLocked with the handle to itself.
Regrant(c, h) ==
  /\ call[c].pc = "idle"
  /\ ~Busy(h)
  /\ h \in DOMAIN st.chunks /\ ~st.chunks[h].pending
  /\ st.chunks[h].version < MaxVersion
  /\ call' = [call EXCEPT ![c] = [Idle EXCEPT !.pc = "round", !.op = "regrant",
                                   !.handle = h, !.version = st.chunks[h].version + 1]]
  /\ UNCHANGED <<st, disk, tail, cow, gc, served>>

\* Grant, up to PrepareLocked.
PrepareGrant(c) ==
  LET h == call[c].handle IN
  /\ call[c].pc = "grant"
  /\ ~Busy(h)
  /\ h \in DOMAIN st.chunks
  /\ st.chunks[h].version < MaxVersion
  /\ call' = [call EXCEPT ![c].pc = "round",
                          ![c].version = st.chunks[h].version + 1]
  /\ UNCHANGED <<st, disk, tail, cow, gc, served>>

\* A replica executes GrantLease or UpdateVersion.
ReplicaUpdated(c) ==
  LET k == call[c] IN
  /\ k.pc = "round"
  /\ served[k.handle] < k.version
  /\ served' = [served EXCEPT ![k.handle] = k.version]
  /\ UNCHANGED <<st, disk, tail, call, cow, gc>>

\* All replicas of a round acknowledged the version: it is logged.
GrantFinish(c) ==
  LET k == call[c] IN
  /\ k.pc = "round"
  /\ served[k.handle] >= k.version
  /\ k.handle \in DOMAIN st.chunks
  /\ LET v == ApplyBumpVersion(st, k.handle, k.version).chunks[k.handle].version
     IN  /\ st' = ApplyBumpVersion(st, k.handle, k.version)
         /\ Log([op |-> "bump", handle |-> k.handle, version |-> v], c)
  /\ call' = [call EXCEPT ![c].pc = "flush"]
  /\ UNCHANGED <<disk, cow, gc, served>>

\* No grant: there is a valid lease, too few replicas answered in any round, or
\* the chunk is gone.  (A call that is deferred until a lease expires begins
\* again, which here is a new FindLeaseHolder.)
GrantNothing(c) ==
  /\ call[c].pc \in {"grant", "round"}
  /\ call' = [call EXCEPT ![c] = Idle]
  /\ UNCHANGED <<st, disk, tail, cow, gc, served>>

\* HeartBeat adopts the higher version of a replica, and does not wait.
HeartBeat(h) ==
  /\ h \in DOMAIN st.chunks
  /\ ~Granting(h)
  /\ served[h] > st.chunks[h].version
  /\ st' = [st EXCEPT !.chunks[h].version = served[h]]
  /\ Log([op |-> "bump", handle |-> h, version |-> served[h]], "none")
  /\ UNCHANGED <<disk, call, cow, gc, served>>

-----------------------------------------------------------------------------
(* The garbage collector.                                                  *)

\* GcPass lists the hidden files whose time has come.
GcPass(now) ==
  /\ gc.pc = "idle"
  /\ gc' = [pc |-> "remove",
            expired |-> {p \in DOMAIN st.files :
                           IsHiddenPath(p) /\ StampOf(p) + Retention <= now}]
  /\ UNCHANGED <<st, disk, tail, call, cow, served>>

\* It removes them one by one, each under its lock, if they are still there.
GcRemove(path) ==
  /\ gc.pc = "remove"
  /\ path \in gc.expired
  /\ CanLock([Idle EXCEPT !.op = "remove", !.path = path])
  /\ gc' = [gc EXCEPT !.expired = @ \ {path}]
  /\ IF Exists(st.files, path)
     THEN /\ st' = ApplyRemove(st, path)
          /\ Log([op |-> "remove", path |-> path], "gc")
     ELSE UNCHANGED <<st, tail>>
  /\ UNCHANGED <<disk, call, cow, served>>

\* Mutant of Orphans: chunks that are being created are collected.
Orphans_Pending ==
  {h \in DOMAIN st.chunks : References(st.files, DOMAIN st.files, h) = 0}

\* Mutant of Orphans: deleted files do not count as users of their chunks.
Orphans_OfHidden ==
  LET visible == {p \in DOMAIN st.files : ~IsHiddenPath(p)}
  IN  {h \in DOMAIN st.chunks : /\ ~st.chunks[h].pending
                                /\ References(st.files, visible, h) = 0}

\* Chunks that no file refers to and that nobody creates.
Orphans ==
  {h \in DOMAIN st.chunks : /\ ~st.chunks[h].pending
                            /\ References(st.files, DOMAIN st.files, h) = 0}

\* The end of the pass drops the orphans, in the order of a hash table.
GcDropOrphans ==
  \E orphans \in SetToSeqs(Orphans) :
    LET drops == [i \in DOMAIN orphans |-> [op |-> "drop", handle |-> orphans[i]]] IN
    /\ gc.pc = "remove"
    /\ gc.expired = {}
    /\ st' = Replay(st, drops)
    /\ tail' = tail \o [i \in DOMAIN drops |-> [record |-> drops[i], owner |-> "gc"]]
    /\ gc' = [gc EXCEPT !.pc = "flush"]
    /\ UNCHANGED <<disk, call, cow, served>>

GcReturn ==
  /\ gc.pc = "flush"
  /\ Flushed("gc")
  /\ gc' = [gc EXCEPT !.pc = "idle"]
  /\ UNCHANGED <<st, disk, tail, call, cow, served>>

-----------------------------------------------------------------------------
NamespaceNext(c) ==
  \/ \E path \in Target : Create(c, path)
  \/ \E path \in Source :
       \/ RemoveFile(c, path)
       \/ \E target \in Target, op \in {"rename", "snapshot"} :
            CheckTwoPaths(c, op, path, target)
  \/ Rename(c) \/ SnapshotFinish(c) \/ Return(c)

ChunkNext(c) ==
  \/ \E path \in Source :
       \/ AddChunk(c, path)
       \/ \E index \in 0..(MaxChunks - 1) : FindLeaseHolder(c, path, index)
  \/ AllocHandle(c) \/ CreateChunkOn(c) \/ CreateFailed(c) \/ AddChunkFinish(c)
  \/ CopyOnWrite(c) \/ CopyOnWriteFinish(c) \/ CopyOnWriteReturn(c)

GrantNext(c) ==
  \/ \E h \in Handle : Regrant(c, h)
  \/ PrepareGrant(c) \/ ReplicaUpdated(c) \/ GrantFinish(c) \/ GrantNothing(c)

GcNext ==
  \/ \E s \in Stamp : GcPass(s + Retention)
  \/ \E path \in gc.expired : GcRemove(path)
  \/ GcDropOrphans \/ GcReturn

DiskNext ==
  \/ \E n \in 1..Len(tail) : Flush(n)
  \/ Checkpoint
  \/ \E n \in 0..Len(tail) : Crash(n)

Next ==
  \/ \E c \in Call : NamespaceNext(c) \/ ChunkNext(c) \/ GrantNext(c)
  \/ \E h \in Handle : HeartBeat(h)
  \/ GcNext
  \/ DiskNext

Spec == Init /\ [][Next]_vars

-----------------------------------------------------------------------------
(* Properties.                                                             *)

Chunk == [version : 1..MaxVersion, refcount : Nat, pending : BOOLEAN]

StateOK(s) ==
  /\ \A p \in DOMAIN s.files : s.files[p] \in Seq(Handle)
  /\ DOMAIN s.chunks \subseteq Handle
  /\ \A h \in DOMAIN s.chunks : s.chunks[h] \in Chunk
  /\ s.next \in 1..(MaxHandle + 1)

\* The type invariant; only the calls that create chunks hold cow_mutex_.
TypeOK ==
  /\ StateOK(st) /\ StateOK(disk)
  /\ \A i \in DOMAIN tail : tail[i].owner \in Owner
  /\ \A c \in Call : call[c].pc \in PC /\ call[c].op \in Op
  /\ cow \in Call \cup {"none"}
  /\ gc.pc \in {"idle", "remove", "flush"}
  /\ served \in [Handle -> 0..MaxVersion]

\* Unless a request has a hidden name as its target: the reference counts, which
\* Apply* keep up to date one by one, always agree with the files; copy-on-write
\* depends on them.
RefcountExact ==
  \A h \in DOMAIN st.chunks :
    st.chunks[h].refcount = References(st.files, DOMAIN st.files, h)

\* Unless a request has a hidden name as its target (memory then counts wrong, and
\* recovery does not): recovery from the records written so far gives the state
\* that is in memory, except for the chunks that are being created: whatever the handlers change,
\* they log, and replay does the same with it, with or without a checkpoint.
ReplayExact ==
  RecomputeRefcounts(Replayed(Len(tail))) =
    [st EXCEPT !.chunks = [h \in {g \in DOMAIN @ : ~@[g].pending} |-> @[h]]]

\* Unless a request has a target below a hidden name, of which Remove may just be
\* making a file: no file is inside a file, whatever the handlers checked and when.
TreeShape ==
  \A p \in DOMAIN st.files : ~HasFileAncestor(st.files, p)

\* Every chunk of a file is in the table and no longer pending: neither the
\* collector nor a failed creation takes away a chunk that a file needs.
NoDanglingReference ==
  \A p \in DOMAIN st.files : \A i \in DOMAIN st.files[p] :
    /\ st.files[p][i] \in DOMAIN st.chunks
    /\ ~st.chunks[st.files[p][i]].pending

\* A handle that a chunkserver may know is never allocated again, not even
\* after a crash that lost the record of the file it was for.
HandlesFresh == \A h \in Handle : served[h] > 0 => h < st.next

\* Unless a request has a hidden name as its target, which Remove does not lock:
\* what a call found before it gave up the state mutex is still so when it applies
\* its change: the target of Rename and Snapshot is free and its source
\* exists, AddChunk's index is the end of the file, the new chunk of AddChunk
\* and CopyOnWrite is still pending.
ChecksStillHold ==
  \A c \in Call :
    LET k == call[c] IN
    /\ k.pc \in {"rename", "snapshot"} =>
         /\ Exists(st.files, k.path) \/ IsDirectory(st.files, k.path)
         /\ Free(k.target)
    /\ k.op = "add" /\ k.pc \in {"alloc", "create", "created"} =>
         Exists(st.files, k.path) /\ k.index = Len(st.files[k.path])
    /\ k.pc \in {"create", "created"} =>
         k.handle \in DOMAIN st.chunks /\ st.chunks[k.handle].pending

\* Unless a request has a hidden name as its target, and counts are wrong:
\* FindLeaseHolder never grants a lease on a chunk that two files share.
LeaseNotShared ==
  \A c \in Call :
    call[c].op = "lease" /\ call[c].pc \in {"grant", "round"} =>
      References(st.files, DOMAIN st.files, call[c].handle) <= 1

\* FindLeaseHolder grants the lease on the chunk that the file has: what a
\* client then writes is what the file's readers find.
LeaseOnFilesChunk ==
  \A c \in Call :
    call[c].op = "lease" /\ call[c].pc \in {"grant", "round"} =>
      Current(call[c]) = call[c].handle
=============================================================================
