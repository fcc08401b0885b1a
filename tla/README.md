# Verification of the GFS implementation

TLA+ specifications of this repository's file system, the TLC configurations
that check them on small instances, and proofs, checked by TLAPS, that every
safety property that TLC finds to hold holds for all instances. Some hold under a
condition, which the property, its theorem and section 4 state: five if no request
names a hidden name as a target, the promise of record append as long as no replica that
was away is made primary, the log's if its disk does not fail. Paths below are relative to the
repository; `master.cc` and the like stand for `src/master/master.cc`.

## 1. The system

One master keeps all metadata in memory, logs every change and checkpoints the
log. Chunkservers store the chunks, each chunk on several of them, and order
the writes to a chunk through one of them, the primary, which has a lease from
the master. Clients ask the master where things are and then talk to the
chunkservers.

| Component | State | Operations | Talks to |
|---|---|---|---|
| operation log, checkpoints (`oplog.cc`, `checkpoint.cc`, `common/framing.cc`) | pending records, `flushed_seq_`, the open segment, segments and checkpoints on disk | `Append`, `WaitFlushed`, `Run`, `WriteBatch`, `Rotate`, `Checkpointer::Write`, `Prune`, `LoadLatest`, `ReadSegment` | called by every handler under the state mutex; its flusher takes that mutex to rotate |
| path locks (`lock_table.cc`) | an entry per path in use: readers, writer, waiting writers, references | `Acquire`, `Release` | called by every handler and the collector |
| worker pool, timers (`worker_pool.cc`, `timer_queue.cc`, `master_service.h`) | task queue, deadlines | `Post`, `Run`, `At` | runs the handlers; a deferred handler comes back through the timer queue |
| namespace, chunk table, master state (`namespace.cc`, `chunk_table.cc`, `master_state.cc`) | chunk handles of each file; version, reference count, pending flag, locations and lease of each chunk; next handle | the `Apply` functions, `ToCheckpoint`, `Load`, `RecomputeRefcounts` | changed under the state mutex, rebuilt by `Recover` |
| handlers and collector (`master.cc`) | `cow_mutex_`, calls in progress | `Create`, `Open`, `Remove`, `Rename`, `Snapshot`, `AddChunk`, `FindLocation`, `FindLeaseHolder`, `CopyOnWrite`, `HeartBeat`, `GcPass`, `SweepDead`, `Recover` | locks, state, log, chunkservers |
| lease manager, registry (`lease_manager.cc`, `chunkserver_registry.cc`) | leases, handles with a grant in progress, regrants asked for, when each server was last heard of | `Grant`, `Regrant`, `Revoke`, `ExtendLocked`, `Sweep` | RPCs to primaries and secondaries |
| chunkserver (`chunkserver.cc`, `lease_table.cc`, `data_buffer.cc`) | leases held, serial numbers, buffered data | `PushData`, `Write`, `RecordAppend`, `ApplyMutation`, `GrantLease`, `RevokeLease`, `UpdateVersion`, `SendHeartbeat` | primary to secondaries, heartbeats to the master |
| chunk store (`chunk_store.cc`) | data, checksums and version of each chunk on disk | `Create`, `CreateCopy`, `Read`, `Write`, `Pad`, `Scan` | chunkserver |
| client (`gfs_client.cc`, `location_cache.h`) | cached locations and lease holders | `Read`, `Write`, `RecordAppend`, with retries | master, chunkservers |
| common code, command line | none to speak of | parsing, CRC, distance, framing | all |

What is hard, and what makes each component correct:

* **Log.** A crash can come between any two of write, fsync, new segment,
  checkpoint, rename, directory sync, truncation and each removal. Correct: an
  acknowledged record is found by every later recovery, replay is ordered and
  has no gaps, callers are woken and stopping ends.
* **Locks.** Callers hold some paths while they wait for others; an entry goes
  with its last user. Correct: writers have their subtree to themselves, no
  wakeup is lost, nobody waits for ever.
* **Pool and timers.** A deferred call keeps its locks and needs a thread again
  later. Correct: tasks are run once each, deferral keeps the locks, calls end.
* **Metadata.** Handlers give up the state mutex between what they check and
  what they change, beside the collector and crashes. Correct: the namespace
  is a tree, counts are exact, replay rebuilds memory, no chunk in use is
  dropped, no handle is given twice, a shared chunk is copied before it is
  leased.
* **Leases and heartbeats.** RPCs are lost or executed late; clocks bound
  leases; heartbeats overlap grants. Correct: at most one primary, replicas
  that missed a write are not locations, a shared chunk has no lease.
* **Chunkserver and store.** Mutations beside revocations and heartbeats;
  crashes between data and checksum. Correct: replicas agree on what was
  acknowledged, a damaged block is never returned.
* **Client.** Retries of what may have been done. Correct: record append is
  at least once; loops end.

`PROJECT.json` lists the places in the code where each of these can go wrong,
and the properties that look at each.

## 2. The modules

```
LockTable  <--EXTENDS--  MasterPool          MasterState <--EXTENDS-- Metadata
    ^                        ^                                            ^
LockTableProofs <------ MasterPoolProofs    MCMetadata, MetadataProofs ---'
                                                      ^-- NamespaceProofs
OpLog  <-- OpLogProofs       MCMasterPool: the instance of both for TLC
ChunkLease  <--EXTENDS--  MCChunkLease, ChunkLeaseProofs
ChunkStore  <--EXTENDS--  MCChunkStore, ChunkStoreProofs
AtLeastOnce <--INSTANCE-- RecordAppend <--EXTENDS-- MCRecordAppend, RecordAppendProofs
```

### OpLog

`oplog.cc`, `checkpoint.cc`, and `Start`, `Stop`, `Recover` of `master.cc`. A
record is a number, and the master's state is the set of records applied to it:
ordering, gaps and duplicates are visible, contents are not. The disk variables
`files`, `seg`, `torn`, `ckpts`, `ckpt` survive `Crash`; all others are the
process.

* `Append` and `WaitFlushed` are the callers; `TakeBatch`, `WriteBatch`,
  `SetFlushed`, `NoRotation` and the `Rotate...` actions are the flusher thread,
  one action per place where it holds or gives up a mutex or touches the disk;
  `WriteCheckpoint` ... `PruneCheckpoint` are the checkpoint writer thread.
* `Crash` keeps what was synced. A write in progress leaves any prefix of its
  bytes, possibly ending inside a record (`torn`), and a rename whose directory
  is not synced may be undone.
* `WriteBatchFails` is a failed `write` or `fsync`; it happens only when
  `SinkMayFail`.

Assumptions: the fsync of a new segment also makes its directory entry durable
(the code never syncs the directory for it); what was synced is not damaged
later. A segment that cannot be opened counts as one whose writes fail.

### LockTable

`lock_table.cc`. Each `LockOne` up to its return or its first wait, each wakeup
and each `UnlockOne` is one step, as each runs under the table's mutex. `Anc`
and `Rank` stand for `AncestorsOf` and for the order of `Before`; all that the
module assumes of them is that an ancestor comes first. A caller makes one
request.

### MasterPool

`worker_pool.cc`, `timer_queue.cc` and the dispatch in `master_service.h` over
`LockTable`. `Post`, `TakeTask`, `Defer`, `Fire`, `Return` move a call between
the queue, a thread and the timer queue; `TableStep` is a step of `LockTable` on
the call's thread. Of a handler only its locks and its thread are modelled. A
call is deferred at most once. LockTable's own properties are checked here and not
in a run of their own: every step of the pool is one of LockTable's or a stutter,
the calls are those of the handlers, and a lock that is held across a deferral is
a case that LockTable alone does not have. `WorkerPool::Stop` is left out: `main` shuts the
server down first, and that waits for the calls.

That every step of the pool is one of LockTable's or leaves the locks alone is by
the way the actions are defined, and no property; `PoolLocks` makes what is proved of
LockTable available to the proofs about the pool.

### MasterState and Metadata

`MasterState` has the `Apply` functions, the namespace, the chunk table,
`ToCheckpoint`, `Load` and `RecomputeRefcounts` as functions on a record
`[files, chunks, next]`. A path is a sequence of names, and a hidden name is the
name with the time of its deletion.

`Metadata` is the machine: `st` is the master's memory, `disk` what the flushed
records add up to, `tail` the records that are not flushed, each with the call
that waits for it. One action is one critical section of the state mutex:

| Code | Actions |
|---|---|
| `Create`, `Remove` | `Create`, `RemoveFile`, then `Return` when flushed |
| `Rename`, `Snapshot` | `CheckTwoPaths`, then `Rename` or `SnapshotFinish`, `Return` |
| `AddChunk` | `AddChunk`, `AllocHandle`, `CreateChunkOn`, `AddChunkFinish` or `CreateFailed`, `Return` |
| `FindLeaseHolder`, `CopyOnWrite` | `FindLeaseHolder`, `CopyOnWrite`, `AllocHandle`, `CreateChunkOn`, `CopyOnWriteFinish` or `CreateFailed`, `CopyOnWriteReturn` |
| `Grant`, `Regrant` | `PrepareGrant` or `Regrant`, `ReplicaUpdated`, `GrantFinish` or `GrantNothing` |
| `HeartBeat` (adoption of versions) | `HeartBeat` |
| `GcPass` | `GcPass`, `GcRemove` per file, `GcDropOrphans`, `GcReturn` |
| flusher, `Rotate`, crash and `Recover` | `Flush`, `Checkpoint`, `Crash` |

It rests on the other modules: locks are taken at once, when no call in progress
conflicts, because LockTable shows that this is what its locks amount to; a
crash keeps a prefix of the log with everything that was waited for, because
OpLog shows that. `Checkpoint` takes effect when its contents are taken; a
checkpoint that is never finished is one that was not taken. Requests that are
refused or only read have no step. The clock can show any time. The collector's
drops come in any order, since the code finds the orphans in a hash table. `served` is the
highest version that some chunkserver has of a chunk. Locations and leases are
not in this module.

### ChunkLease

The other side of `Metadata`: one chunk with its locations, lease, version and
replicas, and the messages between the master and the chunkservers. One action
is one critical section of the state mutex or one handler of a chunkserver.

| Code | Actions |
|---|---|
| `FindLeaseHolder`, `Grant`, `Regrant` | `FindLeaseHolder`, `Grant` or `Regrant`, then rounds: `PrepareLocked`, per replica `Answer` or `Timeout`, `NextRound`; `GrantFinish`, `GrantReturn`, or `PrepareFails`, `ClearGranting` |
| `Snapshot`, `Revoke` | `Revoke`, `RevokeAnswer` or `RevokeTimeout`, `RevokeAcked`, `SnapshotFinish` |
| `SendHeartbeat`, `HeartBeat` | `SendHeartbeat` (the listing is made), `HeartBeat` (`TellStale`, `TakeIn` or `NotReported`), `HeartbeatAnswer` |
| `Sweep`, `SweepDead` | `Sweep`, `SweepDead`: between them the server is dead and still a location |
| `Write`, `RecordAppend`, `ApplyMutation` | `BeginWrite`, `ApplyMutation` per secondary, `WriteDone` or `WriteFails` |
| `Recover` | `Crash`; `Flush` is the log, as OpLog shows it |

A call that times out was executed, or was not, or (`Late`) will be, at any time
(`LateMessage`). Grant, regrant and snapshot run beside each other; a
`FindLeaseHolder` and a snapshot of the file do not, since their path locks
conflict. A write may use a version and primary that any client was ever told
(`told`). `left` and `told`, `acked`, `count` only record what happened.

Time has no value. A lease ends for its holder with `ServerLeaseOver` and for
the master with `LeaseOver`, and the one assumption about clocks is `Ended`:
what a server got before the master set an expiry has ended, with the writes it
let through, when the master takes the lease for over. In the code a server ends
its lease `lease_clock_skew_margin` (5 s) early, the master takes it for that
much longer, and both are more than `rpc_deadline` (2 s). What a server gets
*after* the master set the expiry, a grant whose round failed for example, has no
such bound, and `young` marks it.

Left out: the limit of eight rounds, reports of corrupt chunks, restarts of
chunkservers, `CreateChunk`, the copy that a `FindLeaseHolder` makes after the
snapshot (it is in `Metadata`); `GrantLease` sets the version and the lease at
once.

### ChunkStore

`chunk_store.cc`: the data and the `.meta` file of each chunk, as the system shows
them and as they are on the disk, and the table of open chunks. A mutation fills
its cells with its number, and a checksum is the content that it was taken of.

| Code | Actions |
|---|---|
| `Write`, `Pad` | `BeginWrite` or `BeginPad`, `WriteData` (with the reading back in `RecomputeBlocks`), `WriteSums`, `SyncData`, `SyncMeta`; each may fail, the data and the checksums also part way |
| `Create`, `CreateCopy` | `CreateFiles`, `WriteHeader`, then for a copy `CopyData`, `CopySums`, `SyncData`, `SyncMeta` |
| `SetVersion` | `BeginSetVersion`, `SyncVersion` |
| `Remove`, `Read`, `ClearCorrupt` | `Remove`, `ReadDamaged` (a read that verifies changes nothing), `ClearCorrupt` |
| `Scan` | `Scan`, after `Crash` |

`Crash` may come between any two of these. It leaves of each file that is not
synced any mixture of the old and the new cells, checksums, size, version and
directory entry (`FileLeft`, `MetaLeft`). `Rot` damages a cell. `want`, `dirty` and
`acked` only record what was asked for and acknowledged.

Assumed: the fsync of a new file makes its directory entry durable (the code
syncs no directory); Crc32 has no collisions; a handle is not given again after
its chunk was removed. Mutations of different chunks share nothing but the table,
so one is in progress at a time; `Remove` and reads do not wait for it. The model
shows what the properties have to except, and the code does have it: a crash, or
a failed write, costs all of the blocks that it was in, acknowledged parts too
(`dirty`); a block that is damaged and then written in part has a valid checksum
for the damage, and so has one with damage behind the end of the data, in cells that
a failed write left there and a later pad or write makes readable (`Unchecked`);
a creation that failed leaves files in the way of the next one
until a restart.

### AtLeastOnce and RecordAppend

`RecordAppend` follows a record from `Client::RecordAppend` to the last replica.

| Code | State and actions |
|---|---|
| `RecordAppend` and `EnsureChunk` of `gfs_client.cc` | `call` (chunk, rounds, attempt): `Open`, `NextChunk`, and their failures |
| `FindLease`, `location_cache.h` | `cache`: `FindCached`; or `FindLease` or `Grant` at the master, then `Learn`, which puts the answer into the cache, maybe over a newer one; `FindLeaseFails` |
| `LeaseManager::Grant`, `Regrant`; `Master::HeartBeat` | `meta`: `Grant(c)` for a call, `Regrant(k)`, both with the rounds of `GrantSerialized`; `HeartBeat(s, k)` |
| `TryAppend`, `PushData` | `Push` or `PushFails`; `Answered` (what the client does with each answer), `DeadlinePasses`, `ConnectionBreaks` |
| `DataBuffer` | `buffer`: `Put` with `Evicted`, `Take` |
| `Chunkserver::RecordAppend` | `Refuse`, `DataMissing`, `HandleAppend` (write or pad, and forward), `FinishAppend`; in between `handler` holds the lock of the chunk |
| `ForwardMutation`, `ApplyMutation` | `applies`: `Apply`, also long after the primary gave up; `ForwardFails` |
| the lease of a server, its end, a restart | `lease`: `LeaseExpires`, `Restart` |

The threads of one client share its cache. `AddChunk` is one step, whose answer may be
lost. So is a grant, by what its rounds come to: the replicas in `up` answered the last
round; those in `lost` executed `UpdateVersion` (or `GrantLease`) in an earlier round and
were not heard, so they are dropped but have the version that the others get
(`lease_manager.cc:73`, `:152`); those in `back` are locations again by a heartbeat that
came while the grant ran (`master.cc:696`). A dropped server also comes back later, by a
heartbeat that shows the master's version (`HeartBeat`, `master.cc:729`). `Grant`, for a
call, needs that the primary's lease is over, which ChunkLease shows; `Regrant` does not:
it raises the version while the primary has a lease, maybe with its handlers in the middle of
a forward, and tells no client. The primary stays if it answers (`lease_manager.cc:62-67`).

Why the rounds may be one step here. In the code a server has the new version a moment
before the others and before the master. Until the client is told, no message of
the new version exists (`Grant` goes on to `Learn` only then, and `Regrant` tells nobody), so all
that a server can do in between that it does not do here is to refuse a mutation of the older
version early, and for its sender this is a server that does not answer (`ForwardFails`,
or `AttemptFails` at the client); one that still has the older version and accepts it is one
that does so before the step. Left to ChunkLease are the grants that are given up after
a round (versions above the master's, adopted from a heartbeat), an `UpdateVersion` that
is executed after the grant is over, and locations that are taken away between
grants. `steady` is history: the replicas of a chunk that never left.

`Apply` and `HandleAppend` look at the version and write in one step. In the code
`UpdateVersion`, `RevokeLease` and `GrantLease`, which do not take the lock of the chunk, may
come in between; they do not look at the data and the write does not look at the version
again, so it is the same as if they came after. If a whole grant comes between the two looks
of `PrepareMutation`, at the version and at the lease, a mutation of the older version goes out
to the secondaries of the newer lease, and these, having its version, refuse it. `OUT_OF_RANGE`
(`chunkserver.cc:325`) has no step: `MutationInv` of RecordAppendProofs has that what is
forwarded ends within `ChunkSize`. A server that restarts keeps its chunks (ChunkStore is
about that) and has an empty buffer and no leases.

A record may be larger than the buffer: nothing in `config.cc` forbids it, and `DataBuffer::Put` then
lets it in alone (`data_buffer.cc:15-21`; `data_buffer_test.cc:40-46` asserts it). `BufferBounded`
says so.

`AtLeastOnce` is what the callers are promised: a set of records that the replicas
have, which only grows and whose members never overlap, and a result for each
call that, if it is OK, names a member. RecordAppend implements it
(`AppendSpec`) with `Records`, the places at which the cells of all replicas that never
left are those of one attempt, for `records`, as long as each chunk has such a replica and
none that was away becomes primary (`Survives`). Both are needed. A replica that comes back
does not have the records of the meantime (finding 4). And made
primary it appends at the end of its own, shorter chunk, over what the
others have: with three servers and without `p \in @` in `Stays`, TLC finds an
acknowledged record overwritten at a replica that never left. The record of a call that fails may reach
the last replica in the step that makes it fail (`Fail`, `Grow`): with one replica,
a primary whose store fails after it wrote answers with the error.

## 3. What the runs check

| Run | Instance | Shows |
|---|---|---|
| `oplog_safety` | 4 records, 4 segments, threshold 1, sink does not fail | acknowledged records survive (`AckedDurable`), recovery finds a gap-free prefix (`RecoveredIsPrefix`), each record once and in order (`ReplayedInOrder`), nothing in flight is lost (`NothingInFlightLost`), no step takes away what recovery would find (`DiskNeverForgets`) |
| `oplog_liveness` | 3 records, 3 segments, failing sink | `WaitersReturn`, `StopEnds` |
| `oplog_sink_fails` | failing sink | finding 1 |
| `pool_enough_threads` | 2 deferrable calls and the collector, 2 threads; 3 paths, the root, a directory and a file in it: writing the directory, the file, or both, and so reading what is above them | `MutualExclusion`, `SubtreeExclusion`, `EntriesExact`, `NoLostWakeup`, `NoDeadlock`, `AcquireReturns` of the locks; `QueueExact`, `DeferredHoldsLocks`, `AllCallsFinish` |
| `pool_stuck` | 3 calls, one deferrable, 2 threads | finding 2 |
| `meta_paths` | 2 calls; a directory, a file in it, another path, deleted files; 1 chunk | `TreeShape`, `ChecksStillHold` |
| `meta_chunks` | 2 calls, 2 files, 2 handles, 3 versions | `RefcountExact`, `ReplayExact` (with lost and adopted versions), `NoDanglingReference`, `HandlesFresh`, `LeaseNotShared`, `ChecksStillHold` |
| `meta_copy_race` | 2 calls, 2 files, 2 handles | finding 3 |
| `lease_safety` | 2 servers, 2 calls, 1 write, 3 versions, a snapshot, any 2 of: lost or late answers, revokes without answer, dead servers, crashes, heartbeats | no version has two primaries (`GrantsUnique`), replicas that never left have every acknowledged write (`StayersCurrent`), nobody can write to a snapshot (`SnapshotIsolated`) |
| `lease_stale_replica` | the same with lost answers only | finding 4 |
| `chunk_store` | 2 chunks of 4 cells, blocks of 2, 2 mutations or changes of version, any 2 of: failed or short writes, crashes, damage | acknowledged data is readable after every crash, where no failed or unfinished mutation was (`AckedReadable`); reads show only what was written or padded (`ReadTrue`); no crash brings back an older version (`VersionKept`) |
| `record_append` | 2 calls, records of 1 and 2 cells, chunks of 2, buffers of 3, 2 chunks, 2 servers, 2 attempts with a lease; any 1 failure, or 2 of: ends of leases, grants without a replica, regrants, or 1 of these and 1 failed push, `AddChunk` or answer of the master | `AppendSpec` (what the replicas that never left have, until one that was away is made primary), `BufferBounded`, and every call returns (`CallsEnd`) |

Why the bounds are enough. Three rotations put a second checkpoint writer behind
the first, and make `Prune` remove segments and a checkpoint; four records fill
them. Three callers are a holder, a waiter and one that arrives between. Two
calls and the collector are all the pairs that the state mutex interleaves; two
handles are a chunk and its copy. Renaming directories into each other nests
paths without end, so `MaxDepth` bounds the length of a path. `Stamp` has one
time, so a name is hidden once until the collector or a client frees it. Two
servers are a primary and the one that could be primary as well, or the replica
that stays and the one that leaves; two events are a lost answer and the heartbeat
that takes the replica in again, or the failures of two servers; three versions are
two grants after the first. `meta_chunks` has versions above the first only while
one chunk of one file is in play (its state constraint `VersionsOfOneChunk`): a
version belongs to one chunk, and replay treats it apart from the paths.

In `chunk_store`, a range inside a block and one across both, pads inside and behind
the data, and a second mutation that starts behind the end of the first are all
the ways in which `Write` and `Pad` meet a block; two faults are a failed write
and a crash after it, or a crash during what follows the first restart. In
`record_append` the two records do not fit into one chunk, so one of them meets a
full chunk, the pad and the next chunk without any failure; a failure
leaves a copy of the shorter one behind, and the buffer is too small for the
attempts of both. Of the three scenarios in `MCScenario` the one without failures has two changes of leases and
replicas, so that a replica leaves, comes back without a record and is there when the lease
moves again, or a regrant meets a forward; other failures together with a change would be too many states
(up to 400,000 each), and are left to the proofs as far as safety goes. No record here is larger than the
buffer: that case is left to `BufferWithin`. `Outer` = 0 keeps the number of attempts small: the first round with a
lease from the cache is not counted, so there still are retries with the same
lease, with another one, and in the next chunk. Six attempts are what the calls
need; `CallsEnd` fails with five.

`GrantsUnique` is stated until the master crashes: `FindLeaseHolder` answers from a
valid lease without waiting for the record of its version (`master.cc:584`), so a
crash can lose a version that a client was told. `SnapshotIsolated` is stated for
a master that has not crashed, had the answer of every grant and gave none up. After a crash the
master does not know of the lease that it gave before, and a snapshot revokes
nothing (`master.cc:408`). And a primary whose answer to `GrantLease` was lost
has a lease that began later than those the master knows of. The same comes
about when a round fails after its primary got the lease and the grant is then
given up: a heartbeat made before the round deletes a replica, too few are left,
and the master adopts the version, but not the lease, from the primary's next
heartbeat (it takes a third server; the proof of the property found this, the run
with two servers does not reach it). `SharedNotWritable`, which is the same without
these conditions, does not hold in any of these cases.

Callers are symmetric where a run says `SYMMETRY`; no liveness run uses it.
`Metadata`, `ChunkLease`, `ChunkStore` and `RecordAppend` run with
`CHECK_DEADLOCK FALSE`: with the bounds on handles, paths, versions and events,
and when all calls have returned, nothing needs to be left to do. OpLog's and the
pool's runs check for deadlock (the end of all calls is a step of its own).

Fairness is weak fairness of single threads, which the operating system's
scheduler justifies: the flusher, the checkpoint writer, each caller that can
return, each lock holder, each free pool thread, each timer; in `RecordAppend` each
thread of the client that can go on (every wait there has a deadline), the
handling of requests and of forwarded mutations at a server whose lock of the
chunk is free (or the end of `rpc_deadline`), and the handlers that have their
answers. Nothing is assumed
of clients, of crashes or of spurious wakeups. `LockTable`'s fairness includes
that a handler releases what it holds; in `MasterPool` that has to come from the
pool, and finding 2 is that it may not.

### Findings

1. `oplog_sink_fails`: `WriteBatch` logs a failed write and advances
   `flushed_seq_` (`oplog.cc:139-144`), so requests are acknowledged whose
   records are not on disk.
2. `pool_stuck`: a deferred `Snapshot` or `FindLeaseHolder` keeps its locks and
   needs a pool thread to go on (`master.cc:411`, `master.cc:605`); calls
   that wait for these locks can hold every thread.
3. `meta_copy_race`: `CopyOnWrite` looks at the reference count, copies, and
   replaces without looking again (`master.cc:506-526`). If the other user of the
   chunk is removed for good meanwhile, another `FindLeaseHolder` of the same
   file takes the chunk for unshared and grants a lease on it; what is written
   there is lost when the copy takes its place.
4. `lease_stale_replica`: a replica whose `UpdateVersion` was executed and not
   answered is dropped (`lease_manager.cc:152`), and the next round uses the same
   version again (`lease_manager.cc:73`). The replica misses the writes that
   follow, and its heartbeat, which shows the current version, makes it a location
   again (`master.cc:729`): readers get old data from it. An append that was answered OK may be
   what it misses, and once it is made primary, it writes over what the others have.

## 4. What is proved

All proofs are for every value of the constants that the named `ASSUME`s allow.

* **OpLogProofs** (assuming `~SinkMayFail` in all but the type invariant).
  `TypeCorrect`, `Durability` (`AckedDurable`), `PrefixRecovered`
  (`RecoveredIsPrefix`), `OrderedReplay` (`ReplayedInOrder`), `InFlight`
  (`NothingInFlightLost`). None of these is inductive. Between the rename of a checkpoint and
  the sync of the directory, recovery may use either of two checkpoints, so the
  invariant `IInv` is about the *base*, the newest checkpoint a crash cannot take
  back: the base and the segments from it on hold, in order, all that was applied
  and is not in the flusher's hands (`DiskInv`), and a checkpoint on its way holds
  exactly the base and the segments below its number (`WriterInv`), so neither
  its appearance nor pruning changes what recovery finds. `ShapeInv`,
  `ControlInv` and `NumberInv` say which segments may be torn or non-empty, what
  is empty when, and that numbers ascend from flushed to batch to pending.
  `NothingForgotten` (`DiskNeverForgets`) is about two states: what any recovery
  finds before a step, every recovery finds after it. For that the newest
  checkpoint owes the same as the base, also while its rename may be undone
  (`LatestInv`).
* **LockTableProofs.** `TypeCorrect`, `Exclusion` (`MutualExclusion`),
  `SubtreeIsolation` (`SubtreeExclusion`), `EntryLifetime` (`EntriesExact`),
  `NoWakeupIsLost` (`NoLostWakeup`). The invariant `LockInv` ties every counter
  of an entry to the callers it counts (`CountersExact`: readers, writer,
  references as cardinalities of sets of callers), from which exclusion follows; a
  writer excludes others from the subtree since they hold the ancestors to read.
  `DeadlockFreedom` (`NoDeadlock`) adds `WaitInv`: `waiting_writers` is exact too, so
  no reader is held back by a writer that is gone, and callers lock in the order of
  `Before`. Of the sleepers, take one whose path comes last: whoever holds that path
  waits for none, or it would sleep at a later one.
* **MasterPoolProofs.** `DeferredKeepsLocks` (`DeferredHoldsLocks`), and
  `SubtreeIsolation` for the pool, whose steps are steps of the locks (`PoolLocks`). The invariant `PoolInv` says who may be in
  the queue and how far a call without a thread is with its locks. `PoolTypeCorrect`
  (`PoolTypeOK`) and `ExactQueue` (`QueueExact`): no task is in the queue twice,
  so its length is the number of calls that wait.
* **ChunkLeaseProofs**, for any number of servers, calls, versions and events.
  `TypeCorrect` (`TypeOK`). `UniqueGrants` (`GrantsUnique`): what clients were told
  is not above the master's version unless the master crashed, who was told the
  version of the lease was told its primary, and no version is adopted from a
  heartbeat during a round (`GrantInv`). `CurrentStayers` (`StayersCurrent`): every
  primary that could forward a write, every grant still on its way and every write in
  progress names all servers that never left (`StayInv`). `IsolatedSnapshot`
  (`SnapshotIsolated`): in a run without crashes, lost grants and grants given up, a
  server at which a client may write the current version is the primary of the
  master's lease, or one that the snapshot still waits for (`ExposedInv`). That
  needs where versions come from (`VersionInv`: a heartbeat shows only versions
  that the master knows of or is about to) and that a snapshot and a
  `FindLeaseHolder` of the file exclude each other (`CallInv`).
* **ChunkStoreProofs.** `VersionsKept` (`VersionKept`), for any number of chunks,
  mutations, failures and crashes. `VersionInv` adds to the property what a crash
  and a restart read: both copies of every file of versions, in memory and on the
  disk, have a version that the chunk may have, or none (`FileInv`), an open chunk
  has its file (`EntryInv`), and an operation that is about to put a version in
  the table finds it in the file already (`VersionOp`, `CreateOp`). Removed files
  may come back, so what a chunk may have outlives `Remove`.
  On top of it, for any size of chunks and blocks, `FilesCorrect` (`TypeOK`) with
  `StoreInv`: a file shows zeros behind its end, an open chunk is no longer than its
  file, and the range of a mutation (`OpRange`) is in the chunk. `ReadsTrue` (`ReadTrue`) with `SumInv`: every checksum, in the table, in
  the file and in what a crash may leave of it, was taken of contents that the cell
  may show (`ChunkSums`), so what verifies is right; behind the end of the data, where
  no checksum looks, are zeros, damage or what failed writes left (`Behind`); and a
  mutation in progress has checksums only for what it was asked to write (`OpSums`).
  `AcknowledgedReadable` (`AckedReadable`) rests on all of these and on `DurableInv`.
  `AckedReadable` looks at the table and the file of data while the chunkserver runs; a
  crash replaces both by some mixture of memory and disk, cell by cell and checksum by
  checksum, and every such mixture has to verify. So of a block that is not dirty
  `CleanBlock` says that both files of data have the same in it (`Alike`), that every
  copy of its checksum, in the table, in memory and on the disk, was taken of just that
  (`Taken`; or the block is damaged), and that the entry and the file end at the same cell
  of it (`Extent`), since a restart takes the length from the file. `Lasts` says that
  as soon as something of a chunk is acknowledged, its files are on the disk, with a
  header, and as long. `OpTouch` follows the mutation or the copy in progress: which
  blocks it touches are dirty, and once its checksums are in the file and its data is
  synced, the blocks that `Acknowledge` declares clean are so (`CleanSynced`); a copy
  is as clean as its source (`CleanCopied`).

* **RecordAppendProofs**, for any servers, callers, sizes and numbers of failures, losses,
  grants and regrants. `AppendImplements` (`AppendSpec`): the refinement, step by step, for the
  replicas that never left, as long as `Survives`. Its invariant `AppendInv` holds
  without that condition. `MetaAt` says of each chunk: what never left is a replica and has
  the master's version; the primary has it too and, as long as there are any, is one of
  those that never left. `LeaseInv`: a server with a lease is the primary, or its version
  is an older one; and the secondaries of its lease include all others that never left. Then
  the attempt is followed on its way. A request is of an attempt that no chunk
  has anything of (`RequestInv`). A primary writes before it forwards, and at the end of
  its chunk, so a mutation under way of the version of the master lies at the primary
  where it says, and no later one of that version covers it (`Ordered`): a secondary that
  is handed its mutations late or in another order never writes over what the primary has
  there. A mutation of an older version may write what it likes, but only where it is accepted,
  and that is no replica that never left; nor is one that came back, whatever is written
  to it. And a handler that has heard only yes so far (`HandlerInv`) has the record at all
  that never left and answered; one of them that a grant moved on refuses,
  and so fails the attempt (`Doomed`), so a primary answers OK only when all that
  never left have the record. `CellInv` keeps two records apart. `TypeCorrect` (`TypeOK`): no
  chunk grows beyond `ChunkSize`, late mutations included. `BufferWithin` (`BufferBounded`), for
  records of any size, those larger than the buffer too: `used_` is a
  recursive function, and that evicting, taking and appending change it as `DataBuffer`
  counts is by induction over the buffer; since the library's induction theorems
  cannot be instantiated, `NatMin` and `SetInd` state induction for a set of numbers.

* **MetadataProofs**, for any calls, paths, times and bounds. The namespace, the
  table and the log are not finite here: a state is what any number of records adds
  up to. The lemmas on the `Apply` functions say that each brings into the table and
  into files only the chunk that its record names, and only as a complete one
  (`Applied`), so replay of any records keeps a state sane and moves `next` no
  further than the handles in them (`Follows`, by induction over the records). The
  invariant `MetaInv` is about memory, disk and the records between them.
  `TypeCorrect` (`TypeOK`) needs that replay from the disk ends in such a state.
  `FreshHandles` (`HandlesFresh`): what a chunkserver was told of, and every chunk
  that is not pending, is below `next` *on disk* (`FreshInv`); for that, the handle of
  a call that creates a chunk is in the tail, or on disk already (`CallInv`), and the flush
  of its record puts it below (`AllocReplayed`). `NothingDangles`
  (`NoDanglingReference`): files refer to complete chunks (`UsedInv`), while a chunk that
  is being created is pending and no other call's, so neither the collector, in whatever
  order it drops, nor a failed creation takes a chunk that a file has.

* **NamespaceProofs**, on top of it, all five theorems assuming `PlainTargets`: no request names a hidden
  name as what Create, Rename or Snapshot are to make, as in all runs of `Metadata`.
  (The code does not refuse one, and the hypothesis is needed: with a hidden name as a
  target, Rename overwrites the file that `Remove` has just hidden under a name that it has
  not locked, and the check and the counts are wrong; with a path below a hidden name,
  `Remove` makes a file above that path. TLC finds both.) `NoFileInFile` (`TreeShape`), `ChecksHold` (`ChecksStillHold`), `CountsAreExact`
  (`RefcountExact`), `LeaseIsNotShared` (`LeaseNotShared`) and `ReplayIsExact`
  (`ReplayExact`), all from one invariant, `TreeInv`, since none holds without the others:
  + `Apart`: the paths of the calls in progress do not conflict. A change of the files
    is described by where it is (`Changed`): at or below paths that its caller has locked
    to write, or at hidden names beside files. A call whose locks are clear of them finds
    what it found before (`CheckKept`): the target of a rename is free, the end of a file
    is where it was, the chunk of a lease is in one place of one file (`LeaseOK`).
  + `Shape`: no file is inside a file, and only the last name of a path is hidden. The
    second half is what keeps `Remove`'s hidden name, which nobody locks, out of the way of
    calls that check or lock paths above or below it.
  + `Counted`: the lemmas on the `Apply` functions count references through bijections
    between the places that refer to a chunk before and after (`RenameEffect`,
    `SnapshotEffect`, `ReplaceEffect` and so on). A count of 1 then means that copy-on-write
    is not needed, and `CowOK` says why that is still so for the second of two calls that
    wait for `cow_mutex_`.
  + `LogInv`: the state that replay makes (`Recovers`) has the files, the versions and
    `next` of memory, but no counts and nothing pending, and every record does the same to both
    (`Effect`). A crash may cut the tail anywhere, so each prefix must replay to a state
    without a file in a file and without a missing chunk (`Whole`), from which
    `RecomputeRefcounts` makes a counted one.

Only model-checked: all liveness (`WaitersReturn`, `StopEnds`, `AcquireReturns`,
`AllCallsFinish`, `CallsEnd`), since fairness and ENABLED are out of the prover's
reach. Every invariant and every action property of the passing runs is a theorem.

## 5. Plan

What would come next, the most important first:

1. **ChunkLease**, continued: a chunkserver that restarts, corrupt reports, the
   eight rounds; that a heartbeat which crosses a grant does not delete the last
   current replica; a grant that ends (liveness).
2. **Client**, continued: `Write`, whose late mutations may overwrite a later
   acknowledged write at the same offset (nothing compares serial numbers,
   `chunkserver.cc:303`), and `Read` with the cache of locations.
3. `OpLog` without the assumption on directory entries, and with damaged
   checkpoints; `Metadata` with hidden directories and with hidden names as
   targets, where `Remove` makes a name that it has not locked (`master.cc:293`).

Not modelled: the command line tool, configuration, CRC, ids, logging, the order
of a push chain and the listing of directories (input and output, or pure
functions with tests of their own).
