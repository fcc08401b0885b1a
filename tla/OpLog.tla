------------------------------- MODULE OpLog -------------------------------
(***************************************************************************)
(* The master's operation log with its checkpoints: src/master/oplog.cc,   *)
(* src/master/checkpoint.cc, and Master::Start / Stop / Recover of         *)
(* src/master/master.cc.                                                   *)
(*                                                                         *)
(* A log record is a number, given in the order in which the records are   *)
(* applied to the master's state.  Every caller applies a record and       *)
(* appends it under the one state mutex, so the master's state is          *)
(* described by the set of records applied to it, and so is a checkpoint.  *)
(* A number is never given twice, not even to a record that is appended    *)
(* after a crash lost an earlier one.                                      *)
(*                                                                         *)
(* Four actors are interleaved: the threads that append and wait, the      *)
(* flusher thread, the checkpoint writer thread and the crash that ends    *)
(* all of them.  What is on disk survives the crash.                       *)
(***************************************************************************)
EXTENDS Integers, FiniteSets

CONSTANTS
  MaxRecord,    \* bound: records appended in a behaviour
  MaxSegment,   \* bound: the last log segment that is opened
  Threshold,    \* config.checkpoint_log_threshold, counted in records
  SinkMayFail   \* may write(2) or fsync(2) on the log segment fail?

ASSUME OpLogAssumption ==
  /\ MaxRecord \in Nat
  /\ MaxSegment \in Nat \ {0}
  /\ Threshold \in Nat \ {0}
  /\ SinkMayFail \in BOOLEAN

Record == 1..MaxRecord
Segment == 1..MaxSegment

VARIABLES
  \* the process
  status,     \* "up", "stopping" (OpLog::Stop was called), "stopped", "down"
  mem,        \* records applied to MasterState
  next,       \* the number of the next record
  pending,    \* OpLog::pending_
  batch,      \* the batch that the flusher thread writes
  flusher,    \* where the flusher thread is
  flushed,    \* OpLog::flushed_seq_
  waiting,    \* records whose callers are in WaitFlushed
  segment,    \* OpLog::segment_, also the segment the sink appends to
  size,       \* LocalFileSink::size_, in records
  snap,       \* the checkpoint that Rotate took and has not handed over
  writer,     \* the checkpoint writer thread
  \* the disk
  files,      \* numbers of the log segments in the directory
  seg,        \* what DecodeRecords finds in each segment
  torn,       \* segments that end in bytes that are not a record
  ckpts,      \* numbers of the checkpoints in the directory; 0 is "none"
  ckpt,       \* the state that each checkpoint holds
  \* history
  acked       \* records whose WaitFlushed returned

procVars == <<status, mem, next, pending, batch, flusher, flushed, waiting,
              segment, size, snap, writer>>
diskVars == <<files, seg, torn, ckpts, ckpt>>
vars == <<status, mem, next, pending, batch, flusher, flushed, waiting,
          segment, size, snap, writer, files, seg, torn, ckpts, ckpt, acked>>

\* "idle": waits for a record; "write" / "ack": in WriteBatch, before and after
\* the write and fsync; "check": compares the size with the threshold;
\* "rwrite" / "rack" / "rotate": the same inside Rotate, with the state mutex
\* held; "join": Rotate waits for the previous checkpoint writer.
FlusherPC == {"idle", "write", "ack", "check", "rwrite", "rack", "rotate",
              "join"}

\* "none": no writer runs; "write": the temporary file is being written;
\* "renamed": it was renamed, the directory is not synced yet; "segments" and
\* "checkpoints": Prune removes old segments, then old checkpoints.
WriterPC == {"none", "write", "renamed", "segments", "checkpoints"}

TypeOK ==
  /\ status \in {"up", "stopping", "stopped", "down"}
  /\ mem \subseteq Record
  /\ next \in 1..(MaxRecord + 1)
  /\ pending \subseteq Record
  /\ batch \subseteq Record
  /\ flusher \in FlusherPC
  /\ flushed \in 0..MaxRecord
  /\ waiting \subseteq Record
  /\ segment \in Segment
  /\ size \in Nat
  /\ snap \subseteq Record
  /\ writer \in [pc : WriterPC, number : Segment, state : SUBSET Record]
  /\ files \subseteq Segment
  /\ seg \in [Segment -> SUBSET Record]
  /\ torn \subseteq Segment
  /\ ckpts \subseteq Segment \cup {0}
  /\ ckpt \in [Segment \cup {0} -> SUBSET Record]
  /\ acked \subseteq Record

NoWriter == [pc |-> "none", number |-> 1, state |-> {}]

\* Rotate holds the state mutex, which every Append needs.
StateMutexFree == flusher \notin {"rwrite", "rack", "rotate"}

Running == status \in {"up", "stopping"}

-----------------------------------------------------------------------------
(* What recovery makes of the directory.                                   *)

\* Checkpointer::LoadLatest: the highest number; 0 when there is none.
IsLatest(n) == n \in ckpts /\ \A m \in ckpts : m <= n

\* Mutant of FirstSegment: replay starts one segment too early.
FirstSegment_OneEarly(n) == IF n > 1 THEN n - 1 ELSE 1

\* The first segment that is replayed after checkpoint n.
FirstSegment(n) == IF n > 0 THEN n ELSE 1

\* Master::Recover: load the checkpoint, replay the segments from there on.
Replayed(n) == {s \in files : s >= FirstSegment(n)}
RecoveredFrom(n) == ckpt[n] \cup UNION {seg[s] : s \in Replayed(n)}

\* The segment that Recover opens: the last one, or the checkpoint's own.
IsActive(a, n) ==
  /\ a \in Segment
  /\ a >= FirstSegment(n)
  /\ \A s \in files : s <= a
  /\ a \in files \/ a = FirstSegment(n)

-----------------------------------------------------------------------------
Init ==
  /\ status = "up"
  /\ mem = {} /\ next = 1
  /\ pending = {} /\ batch = {} /\ flusher = "idle" /\ flushed = 0
  /\ waiting = {} /\ acked = {}
  /\ segment = 1 /\ size = 0
  /\ snap = {} /\ writer = NoWriter
  /\ files = {1} /\ seg = [s \in Segment |-> {}] /\ torn = {}
  /\ ckpts = {0} /\ ckpt = [n \in Segment \cup {0} |-> {}]

\* A caller changes MasterState and calls Append, all under the state mutex;
\* most callers then wait for the flush, HeartBeat's version adoption does not.
Append ==
  /\ status = "up"
  /\ StateMutexFree
  /\ next <= MaxRecord
  /\ mem' = mem \cup {next}
  /\ pending' = pending \cup {next}
  /\ next' = next + 1
  /\ waiting' \in {waiting, waiting \cup {next}}
  /\ UNCHANGED <<status, batch, flusher, flushed, segment, size, snap, writer,
                 diskVars, acked>>

\* WaitFlushed returns to the caller that appended r.
WaitFlushed(r) ==
  /\ Running
  /\ r \in waiting
  /\ flushed >= r
  /\ waiting' = waiting \ {r}
  /\ acked' = acked \cup {r}
  /\ UNCHANGED <<status, mem, next, pending, batch, flusher, flushed, segment,
                 size, snap, writer, diskVars>>

\* Mutant of TakeBatch: Run waits for a full batch without log_flush_max_delay.
TakeBatch_NoMaxDelay ==
  /\ Running
  /\ flusher = "idle"
  /\ Cardinality(pending) >= 2
  /\ batch' = pending
  /\ pending' = {}
  /\ flusher' = "write"
  /\ UNCHANGED <<status, mem, next, flushed, waiting, segment, size, snap,
                 writer, diskVars, acked>>

\* Run takes everything that is pending; the delay that lets a batch grow is
\* the time that passes before this step.
TakeBatch ==
  /\ Running
  /\ flusher = "idle"
  /\ pending # {}
  /\ batch' = pending
  /\ pending' = {}
  /\ flusher' = "write"
  /\ UNCHANGED <<status, mem, next, flushed, waiting, segment, size, snap,
                 writer, diskVars, acked>>

\* Appending records rs to segment s makes them readable, unless s ends in
\* bytes where DecodeRecords stops.
Appended(s, rs) ==
  [seg EXCEPT ![s] = IF s \in torn THEN seg[s] ELSE seg[s] \cup rs]

\* WriteBatch, up to the return of Sync.
WriteBatch ==
  /\ Running
  /\ flusher \in {"write", "rwrite"}
  /\ seg' = Appended(segment, batch)
  /\ size' = size + Cardinality(batch)
  /\ flusher' = IF flusher = "write" THEN "ack" ELSE "rack"
  /\ UNCHANGED <<status, mem, next, pending, batch, flushed, waiting, segment,
                 snap, writer, files, torn, ckpts, ckpt, acked>>

\* The records of batch that reach the disk when the write is cut short.
Prefix(k) == {r \in batch : r <= k}

\* The sink fails: some prefix of the bytes is in the file.  size_ counts them
\* only when it was the fsync that failed.  WriteBatch logs an error and goes on.
WriteBatchFails ==
  /\ SinkMayFail
  /\ Running
  /\ flusher \in {"write", "rwrite"}
  /\ batch # {}
  /\ \E k \in 0..MaxRecord :
       /\ seg' = Appended(segment, Prefix(k))
       /\ \/ Prefix(k) # batch /\ torn' \in {torn, torn \cup {segment}}
          \/ torn' = torn
  /\ size' \in {size, size + Cardinality(batch)}
  /\ flusher' = IF flusher = "write" THEN "ack" ELSE "rack"
  /\ UNCHANGED <<status, mem, next, pending, batch, flushed, waiting, segment,
                 snap, writer, files, ckpts, ckpt, acked>>

\* Mutant of SetFlushed: the batch that Rotate writes does not move flushed_seq_.
SetFlushed_NotInRotate ==
  /\ Running
  /\ flusher \in {"ack", "rack"}
  /\ \/ /\ flusher = "ack"
        /\ flushed' \in {r \in batch : \A q \in batch : q <= r}
     \/ flusher = "rack" /\ flushed' = flushed
  /\ batch' = {}
  /\ flusher' = IF flusher = "ack" THEN "check" ELSE "rotate"
  /\ UNCHANGED <<status, mem, next, pending, waiting, segment, size, snap,
                 writer, diskVars, acked>>

\* Mutant of SetFlushed: flushed_seq_ becomes the next sequence number.
SetFlushed_OneAhead ==
  /\ Running
  /\ flusher \in {"ack", "rack"}
  /\ \/ /\ batch # {}
        /\ flushed' \in {r + 1 : r \in {r \in batch : \A q \in batch : q <= r}}
     \/ batch = {} /\ flushed' = flushed
  /\ batch' = {}
  /\ flusher' = IF flusher = "ack" THEN "check" ELSE "rotate"
  /\ UNCHANGED <<status, mem, next, pending, waiting, segment, size, snap,
                 writer, diskVars, acked>>

\* The end of WriteBatch: flushed_seq_ becomes the last record of the batch.
\* (An empty batch, which only Rotate can have, leaves it alone.)
SetFlushed ==
  /\ Running
  /\ flusher \in {"ack", "rack"}
  /\ \/ /\ batch # {}
        /\ flushed' \in {r \in batch : \A q \in batch : q <= r}
     \/ batch = {} /\ flushed' = flushed
  /\ batch' = {}
  /\ flusher' = IF flusher = "ack" THEN "check" ELSE "rotate"
  /\ UNCHANGED <<status, mem, next, pending, waiting, segment, size, snap,
                 writer, diskVars, acked>>

NeedsRotation == size >= Threshold /\ segment < MaxSegment

\* Run's test of the segment's size, when it is below the threshold.
NoRotation ==
  /\ Running
  /\ flusher = "check"
  /\ ~NeedsRotation
  /\ flusher' = "idle"
  /\ UNCHANGED <<status, mem, next, pending, batch, flushed, waiting, segment,
                 size, snap, writer, diskVars, acked>>

\* Rotate locks the state mutex and takes what became pending meanwhile.
RotateTakeBatch ==
  /\ Running
  /\ flusher = "check"
  /\ NeedsRotation
  /\ batch' = pending
  /\ pending' = {}
  /\ flusher' = "rwrite"
  /\ UNCHANGED <<status, mem, next, flushed, waiting, segment, size, snap,
                 writer, diskVars, acked>>

\* Rotate takes the snapshot, opens the next segment and unlocks the mutex.
RotateSwitch ==
  /\ Running
  /\ flusher = "rotate"
  /\ segment < MaxSegment
  /\ snap' = mem
  /\ segment' = segment + 1
  /\ files' = files \cup {segment + 1}
  /\ size' = 0
  /\ flusher' = "join"
  /\ UNCHANGED <<status, mem, next, pending, batch, flushed, waiting, writer,
                 seg, torn, ckpts, ckpt, acked>>

\* Rotate joins the previous writer and starts one for the new checkpoint.
StartCheckpointWriter ==
  /\ Running
  /\ flusher = "join"
  /\ writer.pc = "none"
  /\ writer' = [pc |-> "write", number |-> segment, state |-> snap]
  /\ snap' = {}
  /\ flusher' = "idle"
  /\ UNCHANGED <<status, mem, next, pending, batch, flushed, waiting, segment,
                 size, diskVars, acked>>

-----------------------------------------------------------------------------
(* The checkpoint writer thread.                                           *)

\* Checkpointer::Write: the temporary file is written, synced and renamed.
WriteCheckpoint ==
  /\ Running
  /\ writer.pc = "write"
  /\ ckpts' = ckpts \cup {writer.number}
  /\ ckpt' = [ckpt EXCEPT ![writer.number] = writer.state]
  /\ writer' = [writer EXCEPT !.pc = "renamed"]
  /\ UNCHANGED <<status, mem, next, pending, batch, flusher, flushed, waiting,
                 segment, size, snap, files, seg, torn, acked>>

\* Mutant of WriteCheckpointFails: Prune runs whatever Write returned.
WriteCheckpointFails_Prunes ==
  /\ Running
  /\ writer.pc = "write"
  /\ writer' = [writer EXCEPT !.pc = "segments"]
  /\ UNCHANGED <<status, mem, next, pending, batch, flusher, flushed, waiting,
                 segment, size, snap, diskVars, acked>>

\* Checkpointer::Write returns false: nothing is pruned.
WriteCheckpointFails ==
  /\ Running
  /\ writer.pc = "write"
  /\ writer' = NoWriter
  /\ UNCHANGED <<status, mem, next, pending, batch, flusher, flushed, waiting,
                 segment, size, snap, diskVars, acked>>

\* The fsync of the directory makes the rename durable.
SyncDirectory ==
  /\ Running
  /\ writer.pc = "renamed"
  /\ writer' = [writer EXCEPT !.pc = "segments"]
  /\ UNCHANGED <<status, mem, next, pending, batch, flusher, flushed, waiting,
                 segment, size, snap, diskVars, acked>>

\* Mutant of OldSegments: Prune also removes the checkpoint's own segment.
OldSegments_Inclusive == {s \in files : s <= writer.number}

OldSegments == {s \in files : s < writer.number}

\* Prune removes the segments before the checkpoint, in ascending order.
PruneSegment ==
  /\ Running
  /\ writer.pc = "segments"
  /\ \/ \E s \in OldSegments :
          /\ \A t \in OldSegments : s <= t
          /\ files' = files \ {s}
          /\ seg' = [seg EXCEPT ![s] = {}]
          /\ torn' = torn \ {s}
          /\ writer' = writer
     \/ /\ OldSegments = {}
        /\ writer' = [writer EXCEPT !.pc = "checkpoints"]
        /\ UNCHANGED <<files, seg, torn>>
  /\ UNCHANGED <<status, mem, next, pending, batch, flusher, flushed, waiting,
                 segment, size, snap, ckpts, ckpt, acked>>

Newer(n) == {m \in ckpts : m > n}

\* Checkpoints with two newer ones go; 0 is not a file.
OldCheckpoints == {n \in ckpts \ {0} : \E a, b \in Newer(n) : a # b}

\* Prune keeps the two newest checkpoints.
PruneCheckpoint ==
  /\ Running
  /\ writer.pc = "checkpoints"
  /\ \/ \E n \in OldCheckpoints :
          /\ \A m \in OldCheckpoints : n <= m
          /\ ckpts' = ckpts \ {n}
          /\ ckpt' = [ckpt EXCEPT ![n] = {}]
          /\ writer' = writer
     \/ /\ OldCheckpoints = {}
        /\ writer' = NoWriter
        /\ UNCHANGED <<ckpts, ckpt>>
  /\ UNCHANGED <<status, mem, next, pending, batch, flusher, flushed, waiting,
                 segment, size, snap, files, seg, torn, acked>>

-----------------------------------------------------------------------------
(* Stop, crash and restart.                                                *)

\* Master::Stop joins the sweep, gc, timer and pool threads, so no caller is
\* left in WaitFlushed when OpLog::Stop sets stopping_.
Stop ==
  /\ status = "up"
  /\ waiting = {}
  /\ status' = "stopping"
  /\ UNCHANGED <<mem, next, pending, batch, flusher, flushed, waiting, segment,
                 size, snap, writer, diskVars, acked>>

\* Mutant of Stopped: the flusher returns as soon as stopping_ is set.
Stopped_NoDrain ==
  /\ status = "stopping"
  /\ flusher = "idle"
  /\ writer.pc = "none"
  /\ status' = "stopped"
  /\ UNCHANGED <<mem, next, pending, batch, flusher, flushed, waiting, segment,
                 size, snap, writer, diskVars, acked>>

\* OpLog::Stop has joined the flusher, which drains pending_ first, and the
\* checkpoint writer.
Stopped ==
  /\ status = "stopping"
  /\ flusher = "idle" /\ pending = {}
  /\ writer.pc = "none"
  /\ status' = "stopped"
  /\ UNCHANGED <<mem, next, pending, batch, flusher, flushed, waiting, segment,
                 size, snap, writer, diskVars, acked>>

\* What the disk holds of the batch when the crash comes during the write: any
\* prefix of its records, and perhaps a part of the next one.
CrashDuringWrite ==
  /\ flusher \in {"write", "rwrite"}
  /\ \E k \in 0..MaxRecord :
       /\ seg' = Appended(segment, Prefix(k))
       /\ \/ Prefix(k) # batch /\ torn' \in {torn, torn \cup {segment}}
          \/ torn' = torn

\* A rename whose directory entry was not synced may be undone by the crash.
CrashDuringRename ==
  \/ UNCHANGED <<ckpts, ckpt>>
  \/ /\ writer.pc = "renamed"
     /\ ckpts' = ckpts \ {writer.number}
     /\ ckpt' = [ckpt EXCEPT ![writer.number] = {}]

\* The process or its machine dies; mem keeps what was lost, for the properties.
Crash ==
  /\ Running
  /\ \/ CrashDuringWrite
     \/ flusher \notin {"write", "rwrite"} /\ UNCHANGED <<seg, torn>>
  /\ CrashDuringRename
  /\ status' = "down"
  /\ pending' = {} /\ batch' = {} /\ flusher' = "idle" /\ waiting' = {}
  /\ snap' = {} /\ writer' = NoWriter
  /\ UNCHANGED <<mem, next, flushed, segment, size, files, acked>>

\* Mutant of Recover: a torn tail is left in the segment.
Recover_NoTruncate ==
  /\ status \in {"down", "stopped"}
  /\ \E n \in ckpts, a \in Segment :
       /\ IsLatest(n)
       /\ IsActive(a, n)
       /\ mem' = RecoveredFrom(n)
       /\ segment' = a
       /\ files' = files \cup {a}
       /\ size' = Cardinality(seg[a])
  /\ status' = "up"
  /\ flushed' = 0
  /\ UNCHANGED <<next, pending, batch, flusher, waiting, snap, writer, seg, torn,
                 ckpts, ckpt, acked>>

\* Master::Recover in a new process; sequence numbers start over, so none of
\* the records to come is flushed.
Recover ==
  /\ status \in {"down", "stopped"}
  /\ \E n \in ckpts, a \in Segment :
       /\ IsLatest(n)
       /\ IsActive(a, n)
       /\ mem' = RecoveredFrom(n)
       /\ torn' = torn \ Replayed(n)
       /\ segment' = a
       /\ files' = files \cup {a}
       /\ size' = Cardinality(seg[a])
  /\ status' = "up"
  /\ flushed' = 0
  /\ UNCHANGED <<next, pending, batch, flusher, waiting, snap, writer, seg,
                 ckpts, ckpt, acked>>

FlusherNext ==
  \/ TakeBatch \/ WriteBatch \/ WriteBatchFails \/ SetFlushed \/ NoRotation
  \/ RotateTakeBatch \/ RotateSwitch \/ StartCheckpointWriter

WriterNext ==
  \/ WriteCheckpoint \/ WriteCheckpointFails \/ SyncDirectory \/ PruneSegment
  \/ PruneCheckpoint

Next ==
  \/ Append
  \/ \E r \in Record : WaitFlushed(r)
  \/ FlusherNext
  \/ WriterNext
  \/ Stop \/ Stopped
  \/ Crash \/ Recover

Spec == Init /\ [][Next]_vars

\* The flusher, the writer and a caller that can return are threads that run.
Fairness ==
  /\ WF_vars(FlusherNext)
  /\ WF_vars(WriterNext)
  /\ \A r \in Record : WF_vars(WaitFlushed(r))
  /\ WF_vars(Stopped)

FairSpec == Spec /\ Fairness
-----------------------------------------------------------------------------
(* Properties.                                                             *)

\* Durability: a record whose WaitFlushed returned (a request that the master
\* answered) is found by recovery, whenever the crash comes: between write and
\* fsync, between rotation and checkpoint, or in the middle of Prune.
AckedDurable ==
  \A n \in ckpts : IsLatest(n) => acked \subseteq RecoveredFrom(n)

\* Recovery finds a prefix of what the master applied: never a record without
\* the ones it was applied after, and never one that an earlier recovery had
\* already declared lost.
RecoveredIsPrefix ==
  \A n \in ckpts : IsLatest(n) =>
    /\ RecoveredFrom(n) \subseteq mem
    /\ \A r \in RecoveredFrom(n), q \in mem : q < r => q \in RecoveredFrom(n)

\* Replay applies each record once and in the order of Append: no record is
\* both in the loaded checkpoint and in a replayed segment, and the segments
\* hold ascending runs of records.  Rotate's drain of pending_ under the state
\* mutex is what this rests on.
ReplayedInOrder ==
  \A n \in ckpts : IsLatest(n) =>
    \A s \in Replayed(n) :
      /\ \A c \in ckpt[n], r \in seg[s] : c < r
      /\ \A t \in Replayed(n) : s < t => \A q \in seg[s], r \in seg[t] : q < r

\* Nothing is lost while the process lives: what is not on disk yet is in the
\* flusher's hands or in pending_, and after a clean Stop all is on disk.
NothingInFlightLost ==
  \A n \in ckpts : IsLatest(n) =>
    /\ Running => mem = RecoveredFrom(n) \cup batch \cup pending
    /\ status = "stopped" => mem = RecoveredFrom(n)

\* No step of any thread, and no crash, takes away what a recovery at this
\* moment would find; rotating, checkpointing and pruning least of all.
DiskNeverForgets ==
  [][\A n \in ckpts, m \in ckpts' :
       IsLatest(n) /\ IsLatest(m)' => RecoveredFrom(n) \subseteq RecoveredFrom(m)']_vars

\* Every caller of WaitFlushed returns, unless the process dies first, even
\* when its record is flushed by Rotate or behind a slow checkpoint writer.
WaitersReturn ==
  \A r \in Record : (r \in waiting) ~> (r \in acked \/ status = "down")

\* OpLog::Stop ends: it joins both threads, and the flusher drains pending_.
StopEnds == (status = "stopping") ~> (status \in {"stopped", "down"})
=============================================================================
