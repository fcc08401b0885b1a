------------------------- MODULE ChunkStoreProofs -------------------------
(***************************************************************************)
(* Proofs about the chunks of a chunkserver, for any number of chunks,     *)
(* mutations and faults: no crash brings back an older version of a chunk  *)
(* (VersionKept of ChunkStore), the files and the entries of chunks fit    *)
(* (TypeOK), a read that verifies shows only what was written (ReadTrue),  *)
(* and what was acknowledged is readable after any crash (AckedReadable).  *)
(*                                                                         *)
(* ReadTrue is about the table and the files of data alone, and is not     *)
(* inductive: a crash takes checksums from the disk, a copy takes those of *)
(* its source, and an acknowledgement narrows what a cell may show.        *)
(* SumInv says of the checksums in the table, in the file and on the disk  *)
(* alike that they were taken of what the cells may show, of those in use  *)
(* that they know of the mutation in progress, and of the cells behind the *)
(* end of the data what a later mutation may find there.                   *)
(*                                                                         *)
(* AckedReadable needs more: whatever mixture a crash leaves of a block    *)
(* that is not dirty must verify.  DurableInv says of such a block that it *)
(* is the same in memory and on the disk, that every copy of its checksum  *)
(* was taken of it, and that no other length cuts it elsewhere; and of a   *)
(* chunk of which something was acknowledged, that its files on the disk   *)
(* are enough to open it, and as long.                                     *)
(***************************************************************************)
EXTENDS ChunkStore, TLAPS

-----------------------------------------------------------------------------
(* Versions.                                                               *)

\* The fields of the records that the proof looks into.
MetaShape(m) == m = [there |-> m.there, version |-> m.version, sums |-> m.sums]
EntryShape(e) ==
  e = [there |-> e.there, version |-> e.version, length |-> e.length, sums |-> e.sums]
AckedShape(a) == a = [length |-> a.length, versions |-> a.versions]

\* A table of all chunks.
Total(f) == f = [h \in Handle |-> f[h]]

ShapeInv ==
  /\ Total(meta) /\ \A h \in Handle : MetaShape(meta[h])
  /\ Total(diskMeta) /\ \A h \in Handle : MetaShape(diskMeta[h])
  /\ Total(entries) /\ \A h \in Handle : EntryShape(entries[h])
  /\ Total(acked) /\ \A h \in Handle : AckedShape(acked[h])

\* A file has a version that the chunk may have, or none.
FileInv(m, h) ==
  /\ m.version \in acked[h].versions \cup {0}
  /\ ~m.there => m.version = 0

EntryInv(h) ==
  entries[h].there => meta[h].there /\ entries[h].version \in acked[h].versions

WriteOp ==
  /\ op = [kind |-> "write", pc |-> op.pc, h |-> op.h, first |-> op.first,
           after |-> op.after, gap |-> op.gap, value |-> op.value]
  /\ op.pc \in {"data", "sums", "sync", "syncmeta"} /\ op.h \in Handle

\* A chunk that is being created has its file, and may have the version that it
\* is created with.
CreateOp ==
  /\ op = [kind |-> op.kind, pc |-> op.pc, h |-> op.h, version |-> op.version,
           from |-> op.from]
  /\ op.kind \in {"create", "copy"} /\ op.h \in Handle
  /\ op.pc \in {"header", "copy", "copysums", "sync", "syncmeta"}
  /\ meta[op.h].there /\ op.version \in acked[op.h].versions

\* The new version is in the file before it is in the table.
VersionOp ==
  /\ op = [kind |-> "version", pc |-> "version", h |-> op.h, version |-> op.version]
  /\ op.h \in Handle
  /\ meta[op.h].version = op.version /\ op.version \in acked[op.h].versions

OpInv ==
  /\ op = NoOp \/ WriteOp \/ CreateOp \/ VersionOp
  /\ ~up => op = NoOp

VersionInv ==
  /\ ShapeInv
  /\ \A h \in Handle : FileInv(meta[h], h) /\ FileInv(diskMeta[h], h) /\ EntryInv(h)
  /\ OpInv

-----------------------------------------------------------------------------
\* There are no versions at first.
LEMMA InitVersionInv == Init => VersionInv
<1> SUFFICES ASSUME Init PROVE VersionInv
  OBVIOUS
<1>1. /\ meta = [h \in Handle |-> NoMeta] /\ diskMeta = [h \in Handle |-> NoMeta]
      /\ entries = [h \in Handle |-> NoEntry]
      /\ acked = [h \in Handle |-> [length |-> 0, versions |-> {}]]
  BY DEF Init
<1>2. ShapeInv
  BY <1>1 DEF ShapeInv, Total, MetaShape, EntryShape, AckedShape, NoMeta, NoEntry
<1>3. \A h \in Handle : FileInv(meta[h], h) /\ FileInv(diskMeta[h], h) /\ EntryInv(h)
  BY <1>1 DEF FileInv, EntryInv, NoMeta, NoEntry
<1> QED
  BY <1>2, <1>3 DEF VersionInv, OpInv, Init

\* Steps that change no version, and no file of versions but its checksums.
LEMMA Kept ==
  ASSUME VersionInv, ShapeInv', OpInv',
         \A h \in Handle :
           /\ meta'[h].version = meta[h].version /\ meta'[h].there = meta[h].there
           /\ \/ diskMeta'[h] = diskMeta[h]
              \/ diskMeta'[h] = meta[h]
           /\ entries'[h].there => entries[h].there /\ entries'[h].version = entries[h].version
           /\ acked'[h].versions = acked[h].versions
  PROVE  VersionInv'
  BY DEF VersionInv, FileInv, EntryInv

\* A mutation that begins changes no version.
LEMMA BeginKeeps ==
  ASSUME VersionInv, NEW h \in Handle, NEW first, NEW after, NEW gap, NEW value,
         up, Begin(h, first, after, gap, value)
  PROVE  VersionInv'
<1>1. UNCHANGED <<meta, diskMeta, entries, acked, up>>
  BY DEF Begin, files, disks
<1>2. WriteOp' /\ up'
  BY <1>1 DEF Begin, WriteOp
<1> QED
  BY <1>1, <1>2, Kept DEF VersionInv, ShapeInv, OpInv

\* The mutation goes on, or ends.
LEMMA WriteGoesOn ==
  ASSUME VersionInv, op.pc \in {"data", "sums"}
  PROVE  WriteOp
  BY DEF VersionInv, OpInv, NoOp, CreateOp, VersionOp

\* A mutation changes the length and the checksums of an entry, and no version.
LEMMA MutationKeeps ==
  ASSUME VersionInv, MutationStep
  PROVE  VersionInv'
<1>1. op.pc \in {"data", "sums"} /\ WriteOp /\ up
  BY WriteGoesOn DEF MutationStep, WriteData, WriteDataFails, ReadBackFails, WriteSums, WriteSumsFails,
     VersionInv, OpInv, NoOp
<1>2. UNCHANGED <<diskMeta, acked, up>>
  BY DEF MutationStep, WriteData, WriteDataFails, ReadBackFails, WriteSums, WriteSumsFails,
     disks, history
<1>3. op' = NoOp \/ WriteOp'
  <2>1. CASE op' = NoOp
    BY <2>1
  <2>2. CASE op' = [op EXCEPT !.pc = "sums"] \/ op' = [op EXCEPT !.pc = "sync"]
    BY <1>1, <2>2 DEF WriteOp
  <2> QED
    BY <2>1, <2>2 DEF MutationStep, WriteData, WriteDataFails, ReadBackFails, WriteSums,
       WriteSumsFails, Fails
<1>4. OpInv'
  BY <1>1, <1>2, <1>3 DEF OpInv
<1>5. /\ Total(entries')
      /\ \A h \in Handle : /\ EntryShape(entries'[h])
                            /\ entries'[h].there = entries[h].there
                            /\ entries'[h].version = entries[h].version
  <2>1. CASE UNCHANGED entries
    BY <2>1 DEF VersionInv, ShapeInv, EntryShape
  <2>2. CASE ReadBackFails
    <3>1. PICK v : entries' = [entries EXCEPT ![op.h].length = v]
      BY <2>2 DEF ReadBackFails
    <3> QED
      BY <1>1, <3>1, SMTT(40) DEF VersionInv, ShapeInv, WriteOp, Total, EntryShape
  <2>3. CASE WriteData
    <3>1. PICK v, w : entries' = [entries EXCEPT ![op.h] =
                                   [there |-> entries[op.h].there,
                                    version |-> entries[op.h].version,
                                    length |-> v, sums |-> w]]
      BY <2>3 DEF WriteData
    <3>2. PICK e : /\ e = [there |-> entries[op.h].there, version |-> entries[op.h].version,
                          length |-> v, sums |-> w]
                   /\ entries' = [entries EXCEPT ![op.h] = e]
      BY <3>1
    <3>3. EntryShape(e) /\ e.there = entries[op.h].there /\ e.version = entries[op.h].version
      BY <3>2 DEF EntryShape
    <3> QED
      BY <1>1, <3>2, <3>3 DEF VersionInv, ShapeInv, WriteOp, Total
  <2> QED
    BY <2>1, <2>2, <2>3 DEF MutationStep, WriteDataFails, WriteSums, WriteSumsFails
<1>6. /\ Total(meta')
      /\ \A h \in Handle : /\ MetaShape(meta'[h])
                            /\ meta'[h].there = meta[h].there
                            /\ meta'[h].version = meta[h].version
  <2>1. CASE UNCHANGED meta
    BY <2>1 DEF VersionInv, ShapeInv, MetaShape
  <2>2. CASE \E blocks : PutSums(op.h, blocks)
    <3>1. PICK blocks : PutSums(op.h, blocks)
      BY <2>2
    <3>2. PICK v : meta' = [meta EXCEPT ![op.h].sums = v]
      BY <3>1 DEF PutSums
    <3> QED
      BY <1>1, <3>2, SMTT(40) DEF VersionInv, ShapeInv, WriteOp, Total, MetaShape
  <2> QED
    BY <2>1, <2>2 DEF MutationStep, WriteData, WriteDataFails, ReadBackFails, WriteSums,
       WriteSumsFails, files
<1>7. ShapeInv'
  BY <1>2, <1>5, <1>6 DEF ShapeInv, VersionInv
<1> QED
  BY <1>2, <1>4, <1>5, <1>6, <1>7, Kept

\* A new chunk may have the version that it is created with.
LEMMA CreateFilesKeeps ==
  ASSUME VersionInv, NEW h \in Handle, NEW version, NEW kind \in {"create", "copy"}, NEW from,
         CreateFiles(h, version, kind, from)
  PROVE  VersionInv'
<1>1. /\ meta' = [meta EXCEPT ![h].there = TRUE]
      /\ acked' = [acked EXCEPT ![h].versions = {version}]
      /\ UNCHANGED <<diskMeta, entries, up>> /\ up
      /\ ~entries[h].there /\ ~meta[h].there /\ ~diskMeta[h].there
  BY DEF CreateFiles, disks
<1>2. /\ Total(meta') /\ Total(acked')
      /\ \A k \in Handle : MetaShape(meta'[k]) /\ AckedShape(acked'[k])
      /\ \A k \in Handle \ {h} : meta'[k] = meta[k] /\ acked'[k] = acked[k]
      /\ meta'[h].there /\ meta'[h].version = meta[h].version
      /\ acked'[h].versions = {version}
  <2>1. /\ Total(meta') /\ \A k \in Handle : MetaShape(meta'[k])
        /\ \A k \in Handle \ {h} : meta'[k] = meta[k]
        /\ meta'[h].there = TRUE /\ meta'[h].version = meta[h].version
    <3>1. PICK v : v = TRUE /\ meta' = [meta EXCEPT ![h].there = v]
      BY <1>1
    <3>2. Total(meta) /\ MetaShape(meta[h]) /\ \A k \in Handle : MetaShape(meta[k])
      BY DEF VersionInv, ShapeInv
    <3> QED
      BY <3>1, <3>2 DEF Total, MetaShape
  <2>2. /\ Total(acked') /\ \A k \in Handle : AckedShape(acked'[k])
        /\ \A k \in Handle \ {h} : acked'[k] = acked[k]
        /\ acked'[h].versions = {version}
    <3>1. PICK v : v = {version} /\ acked' = [acked EXCEPT ![h].versions = v]
      BY <1>1
    <3>2. Total(acked) /\ AckedShape(acked[h]) /\ \A k \in Handle : AckedShape(acked[k])
      BY DEF VersionInv, ShapeInv
    <3> QED
      BY <3>1, <3>2 DEF Total, AckedShape
  <2> QED
    BY <2>1, <2>2
<1>3. ShapeInv'
  BY <1>1, <1>2 DEF VersionInv, ShapeInv
<1>4. CreateOp'
  BY <1>2 DEF CreateFiles, CreateOp
<1>5. \A k \in Handle : FileInv(meta[k], k)' /\ FileInv(diskMeta[k], k)' /\ EntryInv(k)'
  BY <1>1, <1>2 DEF VersionInv, FileInv, EntryInv
<1> QED
  BY <1>1, <1>3, <1>4, <1>5 DEF VersionInv, OpInv

\* The steps of Create and CreateCopy after that.
LEMMA CreateGoesOn ==
  ASSUME VersionInv, op.pc \in {"header", "copy", "copysums"}
  PROVE  CreateOp /\ up
  BY DEF VersionInv, OpInv, NoOp, WriteOp, VersionOp

\* The header of a new chunk has that version, in memory and on the disk.
LEMMA HeaderKeeps ==
  ASSUME VersionInv, WriteHeader
  PROVE  VersionInv'
<1>1. op.pc = "header" /\ CreateOp /\ up
  BY CreateGoesOn DEF WriteHeader
<1>2. /\ meta' = [meta EXCEPT ![op.h].version = op.version]
      /\ diskMeta' = [diskMeta EXCEPT ![op.h] = meta'[op.h]]
      /\ UNCHANGED <<acked, up>>
  BY DEF WriteHeader, history
<1>3. /\ Total(meta') /\ Total(diskMeta')
      /\ \A h \in Handle : MetaShape(meta'[h]) /\ MetaShape(diskMeta'[h])
      /\ \A h \in Handle \ {op.h} : meta'[h] = meta[h] /\ diskMeta'[h] = diskMeta[h]
      /\ meta'[op.h].there /\ meta'[op.h].version = op.version
      /\ diskMeta'[op.h] = meta'[op.h]
  <2>1. /\ Total(meta') /\ \A h \in Handle : MetaShape(meta'[h])
        /\ \A h \in Handle \ {op.h} : meta'[h] = meta[h]
        /\ meta'[op.h].there /\ meta'[op.h].version = op.version
    BY <1>1, <1>2 DEF VersionInv, ShapeInv, Total, MetaShape, CreateOp
  <2>2. /\ Total(diskMeta')
        /\ \A h \in Handle \ {op.h} : diskMeta'[h] = diskMeta[h]
        /\ diskMeta'[op.h] = meta'[op.h]
    BY <1>1, <1>2 DEF VersionInv, ShapeInv, Total, CreateOp
  <2> QED
    BY <1>1, <2>1, <2>2 DEF VersionInv, ShapeInv, CreateOp
<1>4. \A h \in Handle : FileInv(meta[h], h)' /\ FileInv(diskMeta[h], h)'
  BY <1>1, <1>2, <1>3 DEF VersionInv, FileInv, CreateOp
<1>5. CASE op.kind = "create"
  <2>1. op' = NoOp /\ entries' = [entries EXCEPT ![op.h] =
          [there |-> TRUE, version |-> op.version, length |-> 0, sums |-> NoSums]]
    BY <1>5 DEF WriteHeader, Open
  <2>2. /\ Total(entries') /\ \A h \in Handle : EntryShape(entries'[h])
        /\ \A h \in Handle \ {op.h} : entries'[h] = entries[h]
        /\ entries'[op.h].version = op.version
    BY <1>1, <2>1 DEF VersionInv, ShapeInv, Total, EntryShape, CreateOp
  <2>3. ShapeInv'
    BY <1>2, <1>3, <2>2 DEF VersionInv, ShapeInv
  <2>4. \A h \in Handle : EntryInv(h)'
    BY <1>1, <1>2, <1>3, <2>2 DEF VersionInv, EntryInv, CreateOp
  <2> QED
    BY <1>4, <2>1, <2>3, <2>4 DEF VersionInv, OpInv
<1>6. CASE op.kind # "create"
  <2>1. op' = [op EXCEPT !.pc = "copy"] /\ UNCHANGED entries
    BY <1>6 DEF WriteHeader
  <2>2. ShapeInv'
    BY <1>2, <1>3, <2>1 DEF VersionInv, ShapeInv
  <2>3. \A h \in Handle : EntryInv(h)'
    BY <1>2, <1>3, <2>1 DEF VersionInv, EntryInv
  <2>4. CreateOp'
    BY <1>1, <1>2, <1>3, <2>1 DEF CreateOp
  <2> QED
    BY <1>1, <1>2, <1>4, <2>2, <2>3, <2>4 DEF VersionInv, OpInv
<1> QED
  BY <1>5, <1>6

\* Every failure ends the operation.
LEMMA OpFails ==
  ASSUME VersionInv, op' = NoOp
  PROVE  OpInv'
  BY DEF VersionInv, OpInv

\* What is left of a creation when it fails.
LEMMA HeaderFailsKeeps ==
  ASSUME VersionInv, WriteHeaderFails
  PROVE  VersionInv'
<1>1. op.pc = "header" /\ CreateOp /\ up
  BY CreateGoesOn DEF WriteHeaderFails
<1>2. /\ UNCHANGED <<diskMeta, entries, acked>> /\ op' = NoOp
      /\ meta' = [meta EXCEPT ![op.h].version = op.version] \/ UNCHANGED meta
  BY DEF WriteHeaderFails, Fails, disks, history
<1>3. /\ Total(meta') /\ \A h \in Handle : MetaShape(meta'[h])
      /\ \A h \in Handle \ {op.h} : meta'[h] = meta[h]
      /\ meta'[op.h].there = meta[op.h].there
      /\ meta'[op.h].version \in {meta[op.h].version, op.version}
  <2>1. CASE UNCHANGED meta
    BY <2>1 DEF VersionInv, ShapeInv, Total
  <2>2. CASE meta' = [meta EXCEPT ![op.h].version = op.version]
    BY <1>1, <2>2 DEF VersionInv, ShapeInv, Total, MetaShape, CreateOp
  <2> QED
    BY <1>2, <2>1, <2>2
<1>4. ShapeInv'
  BY <1>2, <1>3 DEF VersionInv, ShapeInv
<1>5. \A h \in Handle : FileInv(meta[h], h)' /\ FileInv(diskMeta[h], h)' /\ EntryInv(h)'
  BY <1>1, <1>2, <1>3 DEF VersionInv, FileInv, EntryInv, CreateOp
<1> QED
  BY <1>2, <1>4, <1>5, OpFails DEF VersionInv

\* The data and the checksums of a copy come without a version.
LEMMA CopyKeeps ==
  ASSUME VersionInv, CopyData \/ CopyDataFails \/ CopySums
  PROVE  VersionInv'
<1>1. op.pc \in {"copy", "copysums"} /\ CreateOp /\ up
  BY CreateGoesOn DEF CopyData, CopyDataFails, CopySums
<1>2. UNCHANGED <<diskMeta, entries, acked, up>>
  BY DEF CopyData, CopyDataFails, CopySums, disks, history
<1>3. /\ Total(meta') /\ \A h \in Handle : /\ MetaShape(meta'[h])
                                         /\ meta'[h].there = meta[h].there
                                         /\ meta'[h].version = meta[h].version
  <2>1. CASE UNCHANGED meta
    BY <2>1 DEF VersionInv, ShapeInv, Total
  <2>2. CASE CopySums
    <3>1. PICK v : meta' = [meta EXCEPT ![op.h].sums = v]
      BY <2>2 DEF CopySums
    <3> QED
      BY <1>1, <3>1, SMTT(40) DEF VersionInv, ShapeInv, CreateOp, Total, MetaShape
  <2> QED
    BY <2>1, <2>2 DEF CopyData, CopyDataFails
<1>4. OpInv'
  <2>1. CASE op' = NoOp
    BY <2>1, OpFails
  <2>2. CASE op' = [op EXCEPT !.pc = "copysums"] \/ op' = [op EXCEPT !.pc = "sync"]
    <3>1. CreateOp'
      BY <1>1, <1>2, <1>3, <2>2 DEF CreateOp
    <3> QED
      BY <1>1, <1>2, <3>1 DEF OpInv
  <2> QED
    BY <2>1, <2>2 DEF CopyData, CopyDataFails, CopySums, Fails
<1>5. ShapeInv'
  BY <1>2, <1>3 DEF VersionInv, ShapeInv
<1> QED
  BY <1>2, <1>3, <1>4, <1>5, Kept

\* An fsync brings the version of the file to the disk.
LEMMA SyncDataKeeps ==
  ASSUME VersionInv, SyncData
  PROVE  VersionInv'
<1>1. op.pc = "sync" /\ (WriteOp \/ CreateOp) /\ up
  BY DEF SyncData, VersionInv, OpInv, NoOp, VersionOp
<1>2. UNCHANGED <<meta, diskMeta, entries, acked, up>> /\ op' = [op EXCEPT !.pc = "syncmeta"]
  BY DEF SyncData, files, history
<1>3. CASE WriteOp
  <2>1. WriteOp'
    BY <1>2, <1>3 DEF WriteOp
  <2> QED
    BY <1>1, <1>2, <2>1, Kept DEF VersionInv, ShapeInv, OpInv
<1>4. CASE CreateOp
  <2>1. CreateOp'
    BY <1>2, <1>4 DEF CreateOp
  <2> QED
    BY <1>1, <1>2, <2>1, Kept DEF VersionInv, ShapeInv, OpInv
<1> QED
  BY <1>1, <1>3, <1>4

\* The version that is synced is one that the chunk may have.
LEMMA SyncMetaKeeps ==
  ASSUME VersionInv, SyncMeta
  PROVE  VersionInv'
<1>1. op.pc = "syncmeta" /\ (WriteOp \/ CreateOp) /\ op.h \in Handle
  BY DEF SyncMeta, VersionInv, OpInv, NoOp, VersionOp, WriteOp, CreateOp
<1>2. /\ diskMeta' = [diskMeta EXCEPT ![op.h] = meta[op.h]]
      /\ UNCHANGED <<meta, up>> /\ op' = NoOp
      /\ op.kind # "copy" => UNCHANGED entries
  BY DEF SyncMeta, files, Open
<1>3. /\ Total(diskMeta')
      /\ \A h \in Handle : /\ MetaShape(diskMeta'[h])
                            /\ diskMeta'[h] \in {meta[h], diskMeta[h]}
  BY <1>1, <1>2 DEF VersionInv, ShapeInv, Total
<1>4. /\ Total(acked')
      /\ \A h \in Handle : AckedShape(acked'[h]) /\ acked'[h].versions = acked[h].versions
  <2>1. \E v : acked' = [acked EXCEPT ![op.h].length = v]
    <3>1. CASE AcknowledgeCopy(op)
      BY <3>1 DEF AcknowledgeCopy
    <3>2. CASE Acknowledge(op)
      BY <3>2 DEF Acknowledge
    <3> QED
      BY <3>1, <3>2 DEF SyncMeta
  <2>2. PICK v : acked' = [acked EXCEPT ![op.h].length = v]
    BY <2>1
  <2>3. /\ Total(acked) /\ AckedShape(acked[op.h])
        /\ \A k \in Handle : AckedShape(acked[k])
    BY <1>1 DEF VersionInv, ShapeInv
  <2> QED
    BY <2>2, <2>3 DEF Total, AckedShape
<1>5. CASE UNCHANGED entries
  BY <1>2, <1>3, <1>4, <1>5, OpFails, Kept DEF VersionInv, ShapeInv
<1>6. CASE op.kind = "copy"
  <2>1. CreateOp
    BY <1>1, <1>6 DEF WriteOp
  <2>2. PICK e : /\ entries' = [entries EXCEPT ![op.h] = e] /\ EntryShape(e)
                 /\ e.version = op.version
    BY <1>6 DEF SyncMeta, Open, EntryShape
  <2>3. /\ Total(entries') /\ \A h \in Handle : EntryShape(entries'[h])
        /\ \A h \in Handle \ {op.h} : entries'[h] = entries[h]
        /\ entries'[op.h].version = op.version
    BY <1>1, <2>2 DEF VersionInv, ShapeInv, Total
  <2>4. ShapeInv'
    BY <1>2, <1>3, <1>4, <2>3 DEF VersionInv, ShapeInv
  <2>5. \A h \in Handle : FileInv(meta[h], h)' /\ FileInv(diskMeta[h], h)' /\ EntryInv(h)'
    BY <1>2, <1>3, <1>4, <2>1, <2>3 DEF VersionInv, FileInv, EntryInv, CreateOp
  <2> QED
    BY <1>2, <2>4, <2>5, OpFails DEF VersionInv
<1> QED
  BY <1>2, <1>5, <1>6

\* A new version may be there from when it is written.
LEMMA BeginVersionKeeps ==
  ASSUME VersionInv, NEW h \in Handle, NEW version, BeginSetVersion(h, version)
  PROVE  VersionInv'
<1>1. /\ meta' = [meta EXCEPT ![h].version = version]
      /\ acked' = [acked EXCEPT ![h].versions = @ \cup {version}]
      /\ UNCHANGED <<diskMeta, entries, up>> /\ up /\ entries[h].there
  BY DEF BeginSetVersion, Free, disks
<1>2. /\ Total(meta') /\ \A k \in Handle : MetaShape(meta'[k])
      /\ \A k \in Handle \ {h} : meta'[k] = meta[k]
      /\ meta'[h].there = meta[h].there /\ meta'[h].version = version
  BY <1>1, SMTT(40) DEF VersionInv, ShapeInv, Total, MetaShape
<1>3. /\ Total(acked') /\ \A k \in Handle : AckedShape(acked'[k])
      /\ \A k \in Handle \ {h} : acked'[k] = acked[k]
      /\ acked'[h].versions = acked[h].versions \cup {version}
  <2>1. PICK v : /\ v = acked[h].versions \cup {version}
                 /\ acked' = [acked EXCEPT ![h].versions = v]
    BY <1>1
  <2>2. Total(acked) /\ AckedShape(acked[h]) /\ \A k \in Handle : AckedShape(acked[k])
    BY DEF VersionInv, ShapeInv
  <2> QED
    BY <2>1, <2>2 DEF Total, AckedShape
<1>4. ShapeInv'
  BY <1>1, <1>2, <1>3 DEF VersionInv, ShapeInv
<1>5. VersionOp'
  BY <1>2, <1>3 DEF BeginSetVersion, VersionOp
<1>6. \A k \in Handle : FileInv(meta[k], k)' /\ FileInv(diskMeta[k], k)' /\ EntryInv(k)'
  BY <1>1, <1>2, <1>3 DEF VersionInv, FileInv, EntryInv
<1> QED
  BY <1>1, <1>4, <1>5, <1>6 DEF VersionInv, OpInv

\* The new version is in the file, and is the only one now.
LEMMA SyncVersionKeeps ==
  ASSUME VersionInv, SyncVersion
  PROVE  VersionInv'
<1>1. op.pc = "version" /\ VersionOp
  BY DEF SyncVersion, VersionInv, OpInv, NoOp, WriteOp, CreateOp
<1>2. /\ diskMeta' = [diskMeta EXCEPT ![op.h] = meta[op.h]]
      /\ entries' = [entries EXCEPT ![op.h].version = op.version]
      /\ acked' = [acked EXCEPT ![op.h].versions = {op.version}]
      /\ UNCHANGED meta /\ op' = NoOp
  BY DEF SyncVersion, files
<1>3. /\ Total(diskMeta') /\ \A h \in Handle \ {op.h} : diskMeta'[h] = diskMeta[h]
      /\ diskMeta'[op.h] = meta[op.h]
  BY <1>1, <1>2 DEF VersionInv, ShapeInv, Total, VersionOp
<1>4. /\ Total(entries') /\ \A h \in Handle : EntryShape(entries'[h])
      /\ \A h \in Handle \ {op.h} : entries'[h] = entries[h]
      /\ entries'[op.h].version = op.version /\ entries'[op.h].there = entries[op.h].there
  <2>1. /\ Total(entries) /\ EntryShape(entries[op.h]) /\ op.h \in Handle
        /\ \A k \in Handle : EntryShape(entries[k])
    BY <1>1 DEF VersionInv, ShapeInv, VersionOp
  <2> QED
    BY <1>2, <2>1 DEF Total, EntryShape
<1>5. /\ Total(acked') /\ \A h \in Handle : AckedShape(acked'[h])
      /\ \A h \in Handle \ {op.h} : acked'[h] = acked[h]
      /\ acked'[op.h].versions = {op.version}
  <2>1. PICK v : v = {op.version} /\ acked' = [acked EXCEPT ![op.h].versions = v]
    BY <1>2
  <2>2. /\ Total(acked) /\ AckedShape(acked[op.h]) /\ op.h \in Handle
        /\ \A k \in Handle : AckedShape(acked[k])
    BY <1>1 DEF VersionInv, ShapeInv, VersionOp
  <2> QED
    BY <2>1, <2>2 DEF Total, AckedShape
<1>6. ShapeInv'
  BY <1>1, <1>2, <1>3, <1>4, <1>5 DEF VersionInv, ShapeInv, VersionOp
<1>7. \A h \in Handle : FileInv(meta[h], h)' /\ FileInv(diskMeta[h], h)' /\ EntryInv(h)'
  BY <1>1, <1>2, <1>3, <1>4, <1>5 DEF VersionInv, FileInv, EntryInv, VersionOp
<1> QED
  BY <1>2, <1>6, <1>7, OpFails DEF VersionInv

\* A failed fsync changes no file.
LEMMA SyncFailsKeeps ==
  ASSUME VersionInv, SyncFails
  PROVE  VersionInv'
<1>1. UNCHANGED <<meta, diskMeta, entries, acked>> /\ op' = NoOp
  BY DEF SyncFails, Fails, files, disks, history
<1> QED
  BY <1>1, OpFails, Kept DEF VersionInv, ShapeInv

\* The versions that a removed chunk may have stay, as its files may come back.
LEMMA RemoveKeeps ==
  ASSUME VersionInv, NEW h \in Handle, Remove(h)
  PROVE  VersionInv'
<1>1. /\ entries' = [entries EXCEPT ![h] = NoEntry]
      /\ meta' = [meta EXCEPT ![h] = NoMeta]
      /\ acked' = [acked EXCEPT ![h].length = 0]
      /\ UNCHANGED <<diskMeta, up>> /\ up /\ ~Creating
      /\ op' = NoOp \/ (op' = op /\ (op.pc = "idle" \/ op.h # h))
  BY DEF Remove, disks
<1>2. /\ Total(meta') /\ \A k \in Handle : MetaShape(meta'[k])
      /\ \A k \in Handle \ {h} : meta'[k] = meta[k]
      /\ meta'[h].there = FALSE /\ meta'[h].version = 0
  BY <1>1 DEF VersionInv, ShapeInv, Total, MetaShape, NoMeta
<1>3. /\ Total(entries') /\ \A k \in Handle : EntryShape(entries'[k])
      /\ \A k \in Handle \ {h} : entries'[k] = entries[k]
      /\ entries'[h].there = FALSE
  BY <1>1 DEF VersionInv, ShapeInv, Total, EntryShape, NoEntry
<1>4. /\ Total(acked')
      /\ \A k \in Handle : AckedShape(acked'[k]) /\ acked'[k].versions = acked[k].versions
  <2>1. Total(acked) /\ \A k \in Handle : AckedShape(acked[k])
    BY DEF VersionInv, ShapeInv
  <2> QED
    BY <1>1, <2>1 DEF Total, AckedShape
<1>5. ShapeInv'
  BY <1>1, <1>2, <1>3, <1>4 DEF VersionInv, ShapeInv
<1>6. OpInv'
  <2>1. CASE op' = NoOp
    BY <2>1, OpFails
  <2>2. CASE op' = op /\ op = NoOp
    BY <2>2, OpFails
  <2>3. CASE op' = op /\ WriteOp
    <3>1. WriteOp'
      BY <2>3 DEF WriteOp
    <3> QED
      BY <1>1, <3>1 DEF OpInv
  <2>4. CASE op' = op /\ VersionOp /\ op.h # h
    <3>1. VersionOp'
      BY <1>2, <1>4, <2>4 DEF VersionOp
    <3> QED
      BY <1>1, <3>1 DEF OpInv
  <2>5. ~CreateOp
    BY <1>1 DEF CreateOp, Creating
  <2>6. VersionOp => op.pc # "idle"
    BY DEF VersionOp
  <2>7. WriteOp => op.pc # "idle"
    BY DEF WriteOp
  <2> QED
    BY <1>1, <2>1, <2>2, <2>3, <2>4, <2>5, <2>6 DEF VersionInv, OpInv
<1>7. \A k \in Handle : FileInv(meta[k], k)' /\ FileInv(diskMeta[k], k)' /\ EntryInv(k)'
  BY <1>1, <1>2, <1>3, <1>4 DEF VersionInv, FileInv, EntryInv
<1> QED
  BY <1>5, <1>6, <1>7 DEF VersionInv

\* Damage is to the data.
LEMMA DamageKeeps ==
  ASSUME VersionInv,
         \/ \E h \in Handle : \/ \E b \in Block : ReadDamaged(h, b)
                              \/ \E i \in Cell : Rot(h, i)
         \/ ClearCorrupt
         \/ UNCHANGED vars
  PROVE  VersionInv'
<1>1. /\ UNCHANGED <<meta, diskMeta, entries, acked, up>>
      /\ op' = op \/ op' = NoOp
  BY DEF ReadDamaged, Rot, ClearCorrupt, Fails, vars, files, disks, history
<1>2. OpInv'
  <2>1. CASE op' = op
    BY <1>1, <2>1 DEF VersionInv, OpInv, WriteOp, CreateOp, VersionOp
  <2> QED
    BY <1>1, <2>1, OpFails
<1> QED
  BY <1>1, <1>2, Kept DEF VersionInv, ShapeInv

\* What a crash leaves of a file has a version of the one or the other.
LEMMA LeftVersion ==
  ASSUME NEW d, NEW f, MetaShape(d), NEW m \in MetaLeft(d, f), ~d.there => d.version = 0
  PROVE  /\ MetaShape(m)
         /\ m.version \in {0, d.version, f.version}
         /\ ~m.there => m.version = 0
<1>1. m = NoMeta \/ m = d \/ \E v \in {d.version, f.version} : \E s :
        m = [there |-> TRUE, version |-> v, sums |-> s]
  BY DEF MetaLeft
<1> QED
  BY <1>1 DEF MetaShape, NoMeta

\* A crash leaves the version of the file or of the disk.
LEMMA CrashKeeps ==
  ASSUME VersionInv, Crash
  PROVE  VersionInv'
<1>1. /\ Total(meta') /\ Total(diskMeta')
      /\ \A h \in Handle : /\ meta'[h] \in MetaLeft(diskMeta[h], meta[h])
                            /\ diskMeta'[h] = meta'[h]
  <2>1. PICK m \in [Handle -> UNION {MetaLeft(diskMeta[h], meta[h]) : h \in Handle}] :
          /\ \A h \in Handle : m[h] \in MetaLeft(diskMeta[h], meta[h])
          /\ meta' = m /\ diskMeta' = m
    BY DEF Crash
  <2> QED
    BY <2>1 DEF Total
<1>2. /\ entries' = [h \in Handle |-> NoEntry] /\ UNCHANGED acked /\ op' = NoOp
  BY DEF Crash, Fails, history
<1>3. ASSUME NEW h \in Handle
      PROVE  /\ MetaShape(meta'[h]) /\ MetaShape(diskMeta'[h])
             /\ FileInv(meta[h], h)' /\ FileInv(diskMeta[h], h)'
  <2>1. MetaShape(diskMeta[h]) /\ FileInv(diskMeta[h], h) /\ FileInv(meta[h], h)
    BY DEF VersionInv, ShapeInv
  <2>2. /\ MetaShape(meta'[h])
        /\ meta'[h].version \in {0, diskMeta[h].version, meta[h].version}
        /\ ~meta'[h].there => meta'[h].version = 0
    BY <1>1, <2>1, LeftVersion DEF FileInv
  <2>3. meta'[h].version \in acked[h].versions \cup {0}
    BY <2>1, <2>2 DEF FileInv
  <2> QED
    BY <1>1, <1>2, <2>2, <2>3 DEF FileInv
<1>4. Total(entries') /\ \A h \in Handle : EntryShape(entries'[h]) /\ entries'[h].there = FALSE
  BY <1>2 DEF Total, EntryShape, NoEntry
<1>5. ShapeInv'
  BY <1>1, <1>2, <1>3, <1>4 DEF VersionInv, ShapeInv
<1>6. \A h \in Handle : EntryInv(h)'
  BY <1>4 DEF EntryInv
<1> QED
  BY <1>2, <1>3, <1>5, <1>6, OpFails DEF VersionInv

\* A chunk that Scan opens has the version of its file.
LEMMA ScanKeeps ==
  ASSUME VersionInv, Scan
  PROVE  VersionInv'
<1>1. /\ entries' = [h \in Handle |-> Opened(h)]
      /\ meta' = [h \in Handle |-> IF chunk[h].there THEN meta[h] ELSE NoMeta]
      /\ UNCHANGED <<diskMeta, acked>> /\ op' = NoOp
  BY DEF Scan, disks, history, VersionInv, OpInv
<1>2. \A h \in Handle :
        /\ EntryShape(Opened(h))
        /\ Opened(h).there => /\ chunk[h].there /\ meta[h].there
                              /\ meta[h].version # 0 /\ Opened(h).version = meta[h].version
  BY DEF Opened, EntryShape, NoEntry
<1>3. Total(entries') /\ Total(meta')
  BY <1>1 DEF Total
<1>4. \A h \in Handle : MetaShape(meta'[h]) /\ meta'[h] \in {meta[h], NoMeta}
  BY <1>1 DEF VersionInv, ShapeInv, MetaShape, NoMeta
<1>5. ShapeInv'
  BY <1>1, <1>2, <1>3, <1>4 DEF VersionInv, ShapeInv
<1>6. \A h \in Handle : FileInv(meta[h], h)' /\ FileInv(diskMeta[h], h)'
  BY <1>1, <1>4 DEF VersionInv, FileInv, NoMeta
<1>7. \A h \in Handle : EntryInv(h)'
  BY <1>1, <1>2 DEF VersionInv, FileInv, EntryInv
<1> QED
  BY <1>1, <1>5, <1>6, <1>7, OpFails DEF VersionInv

\* What a request changes.
LEMMA RequestKeeps ==
  ASSUME VersionInv, NEW h \in Handle, Request(h)
  PROVE  VersionInv'
<1>1. CASE \E r \in Range : BeginWrite(h, r)
  BY <1>1, BeginKeeps DEF BeginWrite, Free
<1>2. CASE \E from \in PadFrom : BeginPad(h, from)
  BY <1>2, BeginKeeps DEF BeginPad, Free
<1>3. CASE \E v \in Version : BeginSetVersion(h, v)
  BY <1>3, BeginVersionKeeps
<1>4. CASE \E v \in NewVersion : \/ CreateFiles(h, v, "create", h)
                                  \/ \E from \in Handle : CreateFiles(h, v, "copy", from)
  BY <1>4, CreateFilesKeeps
<1>5. CASE Remove(h)
  BY <1>5, RemoveKeeps
<1>6. CASE \E b \in Block : ReadDamaged(h, b)
  BY <1>6, DamageKeeps
<1> QED
  BY <1>1, <1>2, <1>3, <1>4, <1>5, <1>6 DEF Request

\* Every step keeps the versions.
LEMMA StepKeeps == VersionInv /\ [Next]_vars => VersionInv'
<1> SUFFICES ASSUME VersionInv, [Next]_vars PROVE VersionInv'
  OBVIOUS
<1>1. CASE \E h \in Handle : Request(h)
  BY <1>1, RequestKeeps
<1>2. CASE \E h \in Handle, i \in Cell : Rot(h, i)
  BY <1>2, DamageKeeps
<1>3. CASE MutationStep
  BY <1>3, MutationKeeps
<1>4. CASE CreateStep
  BY <1>4, HeaderKeeps, HeaderFailsKeeps, CopyKeeps DEF CreateStep
<1>5. CASE SyncStep
  BY <1>5, SyncDataKeeps, SyncMetaKeeps, SyncVersionKeeps, SyncFailsKeeps DEF SyncStep
<1>6. CASE ClearCorrupt
  BY <1>6, DamageKeeps
<1>7. CASE Crash
  BY <1>7, CrashKeeps
<1>8. CASE Scan
  BY <1>8, ScanKeeps
<1>9. CASE UNCHANGED vars
  BY <1>9, DamageKeeps
<1> QED
  BY <1>1, <1>2, <1>3, <1>4, <1>5, <1>6, <1>7, <1>8, <1>9 DEF Next

\* No crash or failure brings back a version of a chunk older than the
\* acknowledged one: the new version is in the file, synced, before
\* ChunkStore::SetVersion puts it in the table and answers, and Scan takes the
\* version from the file.
THEOREM VersionsKept == Spec => []VersionKept
<1>1. VersionInv => VersionKept
  BY DEF VersionInv, EntryInv, VersionKept
<1> QED
  BY <1>1, InitVersionInv, StepKeeps, PTL DEF Spec

-----------------------------------------------------------------------------
(* Files, entries and the range of a mutation.                             *)

\* A file of data, and that nothing is in it behind its end.
Content == [there : BOOLEAN, size : 0..ChunkSize, cell : [Cell -> 0..MaxOps \cup {Damaged}]]
Clear(f) == (\A i \in Cell : i >= f.size => f.cell[i] = 0) /\ (~f.there => f.size = 0)

Writing == op.pc # "idle" /\ op.kind = "write"
Copying == op.pc # "idle" /\ op.kind = "copy"

\* The cells that a mutation writes, and what a creation has made so far.
OpRange ==
  /\ Writing => /\ entries[op.h].there
                /\ op.first \in 0..ChunkSize /\ op.after \in 0..ChunkSize
                /\ op.gap \in 0..op.first /\ op.first <= op.after
                /\ op.value \in 0..MaxOps
  /\ Creating => /\ ~entries[op.h].there /\ chunk[op.h].there /\ op.version \in Version
                 /\ op.kind = "create" => op.pc = "header"
  /\ Copying => /\ op.from \in Handle /\ entries[op.from].there
                /\ op.pc \in {"copysums", "sync", "syncmeta"} =>
                     chunk[op.h].size = entries[op.from].length
  /\ op.pc = "version" => op.version \in Version /\ entries[op.h].there

\* An entry for a file of data.
EntryOK(e, f) ==
  /\ e.there \in BOOLEAN /\ (~e.there => e = NoEntry)
  /\ e.there => f.there /\ e.version \in Version /\ e.length \in 0..f.size

BoundsInv ==
  /\ left = [ops |-> left.ops, faults |-> left.faults] /\ left.ops \in 0..MaxOps
  /\ corrupt \subseteq Handle
  /\ \A h \in Handle : /\ meta[h].version \in Version \cup {0}
                       /\ diskMeta[h].version \in Version \cup {0}

FilesInv ==
  /\ chunk \in [Handle -> Content] /\ \A h \in Handle : Clear(chunk[h])
  /\ diskChunk \in [Handle -> Content] /\ \A h \in Handle : Clear(diskChunk[h])
  /\ \A h \in Handle : EntryOK(entries[h], chunk[h]) /\ (entries[h].there => up)
  /\ BoundsInv

StoreInv == FilesInv /\ OpRange

-----------------------------------------------------------------------------
\* What PwriteAll makes of a file.
LEMMA FilledContent ==
  ASSUME NEW f \in Content, Clear(f), f.there,
         NEW first \in 0..ChunkSize, NEW after \in 0..ChunkSize, NEW value \in 0..MaxOps
  PROVE  /\ Filled(f, first, after, value) \in Content /\ Clear(Filled(f, first, after, value))
         /\ Filled(f, first, after, value).there
         /\ Filled(f, first, after, value).size = Greater(f.size, after)
         /\ \A i \in Cell : Filled(f, first, after, value).cell[i] =
                             IF first <= i /\ i < after THEN value ELSE f.cell[i]
<1> DEFINE c == [i \in Cell |-> IF i \in first..(after - 1) THEN value ELSE f.cell[i]]
           g == Filled(f, first, after, value)
<1>0. ChunkSize \in Nat /\ MaxOps \in Nat /\ Cell \subseteq Int /\ f.size \in 0..ChunkSize
  BY StoreAssumption DEF Content, Cell
<1>1. c \in [Cell -> 0..MaxOps \cup {Damaged}]
  BY DEF Content
<1>2. \A i \in Cell : c[i] = IF first <= i /\ i < after THEN value ELSE f.cell[i]
  BY <1>0
<1>3. Greater(f.size, after) \in 0..ChunkSize /\ Greater(f.size, after) >= f.size
      /\ Greater(f.size, after) >= after
  BY <1>0 DEF Greater
<1>4. g = [f EXCEPT !.size = Greater(f.size, after), !.cell = c]
  BY DEF Filled, Content
<1> HIDE DEF c, g
<1>5. g \in Content /\ g.there /\ g.size = Greater(f.size, after) /\ g.cell = c
  BY <1>1, <1>3, <1>4 DEF Content
<1>6. Clear(g)
  BY <1>0, <1>2, <1>3, <1>5 DEF Clear
<1> QED
  BY <1>2, <1>5, <1>6 DEF g

\* What a copy is made of, as far as it is read.
LEMMA CopyContent ==
  ASSUME NEW f \in Content, NEW n \in 0..ChunkSize
  PROVE  /\ CopyOf(f, n) \in Content /\ Clear(CopyOf(f, n))
         /\ CopyOf(f, n).there /\ CopyOf(f, n).size = n
         /\ \A i \in Cell : CopyOf(f, n).cell[i] = IF i < n THEN f.cell[i] ELSE 0
<1>0. ChunkSize \in Nat /\ MaxOps \in Nat /\ Cell \subseteq Int
  BY StoreAssumption DEF Cell
<1>1. [i \in Cell |-> IF i < n THEN f.cell[i] ELSE 0] \in [Cell -> 0..MaxOps \cup {Damaged}]
  BY <1>0 DEF Content
<1> QED
  BY <1>0, <1>1 DEF CopyOf, Content, Clear

\* No file: nothing is in it.
LEMMA NoContent == NoFile \in Content /\ Clear(NoFile)
  BY StoreAssumption DEF NoFile, Content, Clear

\* What a crash leaves of a file.
LEMMA LeftContent ==
  ASSUME NEW d \in Content, NEW f \in Content, Clear(d), Clear(f),
         NEW g \in FileLeft(d, f)
  PROVE  g \in Content /\ Clear(g)
<1>0. ChunkSize \in Nat /\ MaxOps \in Nat /\ Cell \subseteq Int
  BY StoreAssumption DEF Cell
<1>1. CASE g \in {NoFile, d}
  BY <1>1, NoContent
<1>2. CASE g \notin {NoFile, d}
  <2>1. PICK n \in {d.size, f.size}, kept \in SUBSET {i \in Cell : f.cell[i] # d.cell[i]} :
          g = [there |-> TRUE, size |-> n,
               cell |-> [i \in Cell |-> IF i >= n THEN 0
                                        ELSE IF i \in kept THEN f.cell[i] ELSE d.cell[i]]]
    BY <1>2 DEF FileLeft
  <2>2. n \in 0..ChunkSize
    BY DEF Content
  <2>3. [i \in Cell |-> IF i >= n THEN 0 ELSE IF i \in kept THEN f.cell[i] ELSE d.cell[i]]
          \in [Cell -> 0..MaxOps \cup {Damaged}]
    BY <1>0 DEF Content
  <2> QED
    BY <2>1, <2>2, <2>3 DEF Content, Clear
<1> QED
  BY <1>1, <1>2

\* The operation that is in progress, by where it is.
LEMMA OpKinds ==
  ASSUME VersionInv
  PROVE  /\ op.pc # "idle" => up /\ op.h \in Handle
         /\ op.pc \in {"data", "sums"} => Writing /\ WriteOp
         /\ op.pc \in {"header", "copy", "copysums"} => Creating /\ CreateOp
         /\ op.pc \in {"sync", "syncmeta"} => (Writing /\ WriteOp) \/ (Creating /\ CreateOp)
         /\ op.pc = "version" => VersionOp
         /\ Writing => WriteOp /\ ~Creating /\ ~Copying
         /\ Creating => CreateOp /\ ~Writing
         /\ Copying => Creating
         /\ op.pc = "idle" => op = NoOp
  BY DEF VersionInv, OpInv, NoOp, WriteOp, CreateOp, VersionOp, Writing, Creating, Copying

\* No operation is in progress.
LEMMA IdleRange == ASSUME op' = NoOp PROVE OpRange'
  BY DEF OpRange, NoOp, Writing, Creating, Copying

-----------------------------------------------------------------------------
\* Numbers that the steps compare.
LEMMA Numbers ==
  /\ ChunkSize \in Nat \ {0} /\ BlockSize \in Nat \ {0} /\ MaxOps \in Nat
  /\ Version \subseteq Nat \ {0} /\ NewVersion \subseteq Version
  /\ Cell \subseteq Nat /\ \A i \in Cell : i < ChunkSize
  /\ \A m \in Int, n \in Int :
       /\ Lesser(m, n) \in {m, n} /\ Lesser(m, n) <= m /\ Lesser(m, n) <= n
       /\ Greater(m, n) \in {m, n} /\ Greater(m, n) >= m /\ Greater(m, n) >= n
  BY StoreAssumption DEF Cell, Lesser, Greater

\* The empty store.
LEMMA StoreInit == Init => StoreInv
<1> SUFFICES ASSUME Init PROVE StoreInv
  OBVIOUS
<1>1. /\ chunk = [h \in Handle |-> NoFile] /\ diskChunk = [h \in Handle |-> NoFile]
      /\ \A h \in Handle : meta[h] = NoMeta /\ diskMeta[h] = NoMeta /\ entries[h] = NoEntry
      /\ left = [ops |-> MaxOps, faults |-> MaxFaults] /\ corrupt = {} /\ op = NoOp
  BY DEF Init
<1>2. /\ chunk \in [Handle -> Content] /\ \A h \in Handle : Clear(chunk[h])
      /\ diskChunk \in [Handle -> Content] /\ \A h \in Handle : Clear(diskChunk[h])
  BY <1>1, NoContent
<1>3. left = [ops |-> left.ops, faults |-> left.faults] /\ left.ops \in 0..MaxOps
  BY <1>1, Numbers
<1>4. NoMeta.version = 0 /\ NoEntry.there = FALSE
  BY DEF NoMeta, NoEntry
<1>5. FilesInv
  BY <1>1, <1>2, <1>3, <1>4 DEF FilesInv, BoundsInv, EntryOK
<1> QED
  BY <1>1, <1>5 DEF StoreInv, OpRange, NoOp, Writing, Creating, Copying

\* The mutation that begins is inside the chunk, and leaves no gap behind the
\* end of the data.
LEMMA Begun ==
  ASSUME VersionInv, StoreInv, NEW h \in Handle,
         (\E r \in Range : BeginWrite(h, r)) \/ (\E from \in PadFrom : BeginPad(h, from))
  PROVE  /\ up /\ entries[h].there /\ left.ops - 1 \in 0..MaxOps
         /\ \E first, after, gap, value :
              /\ Begin(h, first, after, gap, value)
              /\ first \in 0..ChunkSize /\ after \in 0..ChunkSize /\ gap \in 0..first
              /\ first <= after /\ value \in 0..MaxOps /\ gap <= entries[h].length
<1>0. entries[h].length \in Nat /\ entries[h].there /\ left.ops > 0
      /\ left.ops \in 0..MaxOps /\ up /\ left.ops - 1 \in 0..MaxOps
  BY Numbers DEF StoreInv, FilesInv, BoundsInv, EntryOK, BeginWrite, BeginPad, Free, Content
<1>1. \E first, after, gap, value :
        /\ Begin(h, first, after, gap, value)
        /\ first \in 0..ChunkSize /\ after \in 0..ChunkSize /\ gap \in 0..first
        /\ first <= after /\ value \in 0..MaxOps /\ gap <= entries[h].length
  <2>1. ASSUME NEW r \in Range, BeginWrite(h, r)
        PROVE  \E first, after, gap, value :
                 /\ Begin(h, first, after, gap, value)
                 /\ first \in 0..ChunkSize /\ after \in 0..ChunkSize /\ gap \in 0..first
                 /\ first <= after /\ value \in 0..MaxOps /\ gap <= entries[h].length
    <3>1. r[1] \in 0..ChunkSize /\ r[2] \in 0..ChunkSize /\ r[1] < r[2]
      BY StoreAssumption
    <3>2. Lesser(r[1], entries[h].length) \in 0..r[1]
          /\ Lesser(r[1], entries[h].length) <= entries[h].length
      BY <1>0, <3>1, Numbers
    <3> QED
      BY <1>0, <2>1, <3>1, <3>2 DEF BeginWrite
  <2>2. ASSUME NEW from \in PadFrom, BeginPad(h, from)
        PROVE  \E first, after, gap, value :
                 /\ Begin(h, first, after, gap, value)
                 /\ first \in 0..ChunkSize /\ after \in 0..ChunkSize /\ gap \in 0..first
                 /\ first <= after /\ value \in 0..MaxOps /\ gap <= entries[h].length
    <3> DEFINE first == IF from >= entries[h].length THEN ChunkSize ELSE from
    <3>1. from \in 0..ChunkSize /\ ChunkSize \in 0..ChunkSize /\ 0 \in 0..MaxOps
      BY StoreAssumption
    <3>2. first \in 0..ChunkSize /\ first <= ChunkSize /\ from <= first
      BY <3>1, Numbers
    <3>3. Lesser(from, entries[h].length) \in 0..first
          /\ Lesser(from, entries[h].length) <= entries[h].length
      BY <1>0, <3>1, <3>2, Numbers
    <3>4. Begin(h, first, ChunkSize, Lesser(from, entries[h].length), 0)
      BY <2>2 DEF BeginPad
    <3> HIDE DEF first
    <3> QED
      BY <3>1, <3>2, <3>3, <3>4
  <2> QED
    BY <2>1, <2>2
<1> QED
  BY <1>0, <1>1

\* A mutation begins, and no file changes.
LEMMA StoreBegins ==
  ASSUME VersionInv, StoreInv, NEW h \in Handle,
         (\E r \in Range : BeginWrite(h, r)) \/ (\E from \in PadFrom : BeginPad(h, from))
  PROVE  StoreInv'
<1>1. PICK first, after, gap, value :
        /\ Begin(h, first, after, gap, value)
        /\ first \in 0..ChunkSize /\ after \in 0..ChunkSize /\ gap \in 0..first
        /\ first <= after /\ value \in 0..MaxOps
  BY Begun
<1>0. entries[h].there /\ left.ops - 1 \in 0..MaxOps
  BY Begun
<1>2. /\ op' = [kind |-> "write", pc |-> "data", h |-> h, first |-> first,
                after |-> after, gap |-> gap, value |-> value]
      /\ left' = [left EXCEPT !.ops = @ - 1]
      /\ UNCHANGED <<chunk, diskChunk, meta, diskMeta, entries, up, corrupt>>
  BY <1>1 DEF Begin, files, disks
<1>3. FilesInv'
  <2>1. /\ left' = [ops |-> left'.ops, faults |-> left'.faults]
        /\ left'.ops \in 0..MaxOps
    BY <1>0, <1>2 DEF StoreInv, FilesInv, BoundsInv
  <2> QED
    BY <1>2, <2>1 DEF StoreInv, FilesInv, BoundsInv
<1>4. OpRange'
  BY <1>0, <1>1, <1>2 DEF OpRange, Writing, Creating, Copying
<1> QED
  BY <1>3, <1>4 DEF StoreInv

\* What a fault leaves of the bounds.
LEMMA FaultCount ==
  ASSUME FilesInv, NEW fault, Fails(fault)
  PROVE  /\ left' = [ops |-> left'.ops, faults |-> left'.faults]
         /\ left'.ops \in 0..MaxOps /\ op' = NoOp
  BY DEF FilesInv, BoundsInv, Fails

\* The operation goes on: it is the same one.
LEMMA OpGoesOn ==
  ASSUME VersionInv, NEW pc, op' = [op EXCEPT !.pc = pc], op.pc # "idle"
  PROVE  /\ op'.pc = pc /\ op'.h = op.h /\ op'.kind = op.kind
         /\ WriteOp => /\ op'.first = op.first /\ op'.after = op.after
                       /\ op'.gap = op.gap /\ op'.value = op.value
         /\ CreateOp => op'.version = op.version /\ op'.from = op.from
  BY DEF VersionInv, OpInv, NoOp, WriteOp, CreateOp, VersionOp

\* One chunk has other files, or another entry.
LEMMA OneChunk ==
  ASSUME FilesInv, BoundsInv', NEW h \in Handle, NEW f \in Content, Clear(f),
         chunk' = [chunk EXCEPT ![h] = f] \/ (chunk' = chunk /\ f = chunk[h]),
         diskChunk' = diskChunk \/ diskChunk' = [diskChunk EXCEPT ![h] = f],
         \A k \in Handle \ {h} : entries'[k] = entries[k],
         EntryOK(entries'[h], f), entries'[h].there => up, up' = up
  PROVE  FilesInv'
<1>1. /\ chunk' \in [Handle -> Content] /\ \A k \in Handle : Clear(chunk'[k])
      /\ chunk'[h] = f /\ \A k \in Handle \ {h} : chunk'[k] = chunk[k]
  BY DEF FilesInv
<1>2. diskChunk' \in [Handle -> Content] /\ \A k \in Handle : Clear(diskChunk'[k])
  BY DEF FilesInv
<1>3. \A k \in Handle : EntryOK(entries'[k], chunk'[k]) /\ (entries'[k].there => up')
  BY <1>1 DEF FilesInv
<1> QED
  BY <1>1, <1>2, <1>3 DEF FilesInv

\* One file of checksums is another one, with a version that is known.
LEMMA OneMeta ==
  ASSUME VersionInv, FilesInv, NEW h \in Handle, NEW m,
         meta' = [meta EXCEPT ![h] = m], m.version \in Version \cup {0}
  PROVE  \A k \in Handle : meta'[k].version \in Version \cup {0}
  BY DEF VersionInv, ShapeInv, Total, FilesInv, BoundsInv

\* The fields of an entry with another length.
LEMMA LongerEntry ==
  ASSUME NEW e, EntryShape(e), NEW length
  PROVE  [e EXCEPT !.length = length] =
           [there |-> e.there, version |-> e.version, length |-> length, sums |-> e.sums]
<1>1. PICK t, v, n, s : e = [there |-> t, version |-> v, length |-> n, sums |-> s]
  BY DEF EntryShape
<1> QED
  BY <1>1

\* The mutation writes its file, up to somewhere.
LEMMA StoreMutates ==
  ASSUME VersionInv, StoreInv, MutationStep
  PROVE  StoreInv'
<1>0. /\ op.h \in Handle /\ Writing /\ WriteOp /\ ~Creating /\ ~Copying
      /\ op.pc \in {"data", "sums"} /\ entries[op.h].there /\ up
      /\ op.first \in 0..ChunkSize /\ op.after \in 0..ChunkSize /\ op.value \in 0..MaxOps
      /\ chunk[op.h] \in Content /\ Clear(chunk[op.h]) /\ chunk[op.h].there
      /\ entries[op.h].length \in 0..chunk[op.h].size /\ chunk[op.h].size \in 0..ChunkSize
      /\ Total(entries) /\ EntryOK(entries[op.h], chunk[op.h]) /\ EntryShape(entries[op.h])
  <2>1. op.pc \in {"data", "sums"}
    BY DEF MutationStep, WriteData, WriteDataFails, ReadBackFails, WriteSums, WriteSumsFails
  <2>2. Writing /\ WriteOp /\ ~Creating /\ ~Copying /\ op.h \in Handle /\ up
    BY <2>1, OpKinds
  <2> QED
    BY <2>1, <2>2 DEF StoreInv, FilesInv, EntryOK, OpRange, Content, VersionInv, ShapeInv
<1>1. CASE WriteData \/ ReadBackFails
  <2> DEFINE f == Filled(chunk[op.h], op.first, op.after, op.value)
             length == Greater(entries[op.h].length, op.after)
  <2>1. f \in Content /\ Clear(f) /\ f.there /\ f.size = Greater(chunk[op.h].size, op.after)
    <3>1. /\ chunk[op.h] \in Content /\ Clear(chunk[op.h]) /\ chunk[op.h].there
          /\ op.first \in 0..ChunkSize /\ op.after \in 0..ChunkSize /\ op.value \in 0..MaxOps
      BY <1>0
    <3> QED
      BY <3>1, FilledContent
  <2>2. length \in 0..f.size
    BY <1>0, <2>1, Numbers
  <2>3. chunk' = [chunk EXCEPT ![op.h] = f]
        /\ UNCHANGED <<diskChunk, meta, diskMeta, corrupt, up>>
    BY <1>1 DEF WriteData, ReadBackFails, disks
  <2>4. /\ \A k \in Handle \ {op.h} : entries'[k] = entries[k]
        /\ entries'[op.h].there = entries[op.h].there
        /\ entries'[op.h].version = entries[op.h].version
        /\ entries'[op.h].length = length
    <3>1. PICK sums : entries' = [entries EXCEPT ![op.h] =
            [there |-> entries[op.h].there, version |-> entries[op.h].version,
             length |-> length, sums |-> sums]]
      <4>1. CASE WriteData
        BY <4>1 DEF WriteData
      <4>2. CASE ReadBackFails
        <5>1. entries' = [entries EXCEPT ![op.h] = [entries[op.h] EXCEPT !.length = length]]
          BY <1>0, <4>2 DEF ReadBackFails, Total
        <5>2. [entries[op.h] EXCEPT !.length = length] =
                [there |-> entries[op.h].there, version |-> entries[op.h].version,
                 length |-> length, sums |-> entries[op.h].sums]
          BY <1>0, LongerEntry
        <5> QED
          BY <5>1, <5>2
      <4> QED
        BY <1>1, <4>1, <4>2
    <3>2. PICK e : /\ e = [there |-> entries[op.h].there, version |-> entries[op.h].version,
                           length |-> length, sums |-> sums]
                   /\ entries' = [entries EXCEPT ![op.h] = e]
      BY <3>1
    <3>3. /\ e.there = entries[op.h].there /\ e.version = entries[op.h].version
          /\ e.length = length
      BY <3>2
    <3> QED
      BY <1>0, <3>2, <3>3 DEF Total
  <2> HIDE DEF f, length
  <2>5. EntryOK(entries'[op.h], f)
    BY <1>0, <2>1, <2>2, <2>4 DEF EntryOK
  <2>6. /\ left' = [ops |-> left'.ops, faults |-> left'.faults] /\ left'.ops \in 0..MaxOps
    BY <1>1, FaultCount DEF WriteData, ReadBackFails, StoreInv, FilesInv, BoundsInv
  <2>7. BoundsInv'
    BY <2>3, <2>6 DEF StoreInv, FilesInv, BoundsInv
  <2>8. FilesInv'
    BY <1>0, <2>1, <2>3, <2>4, <2>5, <2>7, OneChunk DEF StoreInv
  <2>9. OpRange'
    <3>1. CASE WriteData
      <4>1. op' = [op EXCEPT !.pc = "sums"]
        BY <3>1 DEF WriteData
      <4>2. /\ op'.h = op.h /\ op'.first = op.first /\ op'.after = op.after /\ op'.gap = op.gap
            /\ op'.value = op.value /\ op'.kind = "write" /\ op'.pc = "sums"
        BY <1>0, <4>1, OpGoesOn DEF Writing
      <4> QED
        BY <1>0, <2>4, <4>2 DEF StoreInv, OpRange, Writing, Creating, Copying
    <3>2. CASE ReadBackFails
      BY <3>2, IdleRange DEF ReadBackFails, Fails
    <3> QED
      BY <1>1, <3>1, <3>2
  <2> QED
    BY <2>8, <2>9 DEF StoreInv
<1>2. CASE WriteDataFails
  <2>1. PICK n \in op.first..(op.after - 1) :
          /\ Fails(IF n = op.first THEN "io" ELSE "short")
          /\ chunk' = [chunk EXCEPT ![op.h] =
               IF n = op.first THEN chunk[op.h]
               ELSE Filled(chunk[op.h], op.first, n, op.value)]
    BY <1>0, <1>2 DEF WriteDataFails, StoreInv, FilesInv
  <2> DEFINE f == IF n = op.first THEN chunk[op.h]
                  ELSE Filled(chunk[op.h], op.first, n, op.value)
  <2>2. n \in 0..ChunkSize
    BY <1>0, Numbers
  <2>3. f \in Content /\ Clear(f) /\ f.there /\ f.size >= chunk[op.h].size /\ f.size \in Int
    <3>1. /\ chunk[op.h] \in Content /\ Clear(chunk[op.h]) /\ chunk[op.h].there
          /\ op.first \in 0..ChunkSize /\ op.value \in 0..MaxOps
      BY <1>0
    <3> DEFINE g == Filled(chunk[op.h], op.first, n, op.value)
    <3>2. g \in Content /\ Clear(g) /\ g.there /\ g.size = Greater(chunk[op.h].size, n)
      <4>1. PICK c, a, v : c = chunk[op.h] /\ a = op.first /\ v = op.value
        OBVIOUS
      <4>2. c \in Content /\ Clear(c) /\ c.there /\ a \in 0..ChunkSize /\ v \in 0..MaxOps
        BY <3>1, <4>1
      <4>3. /\ Filled(c, a, n, v) \in Content /\ Clear(Filled(c, a, n, v))
            /\ Filled(c, a, n, v).there
            /\ Filled(c, a, n, v).size = Greater(c.size, n)
        BY <2>2, <4>2, FilledContent, ZenonT(40)
      <4> QED
        BY <4>1, <4>3, ZenonT(40)
    <3> HIDE DEF g
    <3>3. chunk[op.h].size \in Int /\ n \in Int
      BY <1>0, <2>2, Numbers
    <3>4. g.size >= chunk[op.h].size /\ g.size \in Int
      BY <3>2, <3>3, Numbers
    <3>5. chunk[op.h].size >= chunk[op.h].size
      BY <3>3
    <3> QED
      BY <3>1, <3>2, <3>3, <3>4, <3>5 DEF g
  <2>4. entries[op.h].length \in 0..f.size
    BY <1>0, <2>3
  <2>5. UNCHANGED <<diskChunk, meta, diskMeta, corrupt, up, entries>>
    BY <1>2 DEF WriteDataFails, disks
  <2>6. chunk' = [chunk EXCEPT ![op.h] = f]
    BY <2>1
  <2>7. BoundsInv'
    BY <2>1, <2>5, FaultCount DEF StoreInv, FilesInv, BoundsInv
  <2> HIDE DEF f
  <2>8. EntryOK(entries'[op.h], f)
    BY <1>0, <2>3, <2>4, <2>5 DEF EntryOK
  <2>9. FilesInv'
    BY <1>0, <2>3, <2>5, <2>6, <2>7, <2>8, OneChunk DEF StoreInv
  <2>10. op' = NoOp
    BY <2>1 DEF Fails
  <2> QED
    BY <2>9, <2>10, IdleRange DEF StoreInv
<1>3. CASE WriteSums \/ WriteSumsFails
  <2>1. UNCHANGED <<chunk, diskChunk, diskMeta, corrupt, up, entries>>
    BY <1>3 DEF WriteSums, WriteSumsFails, disks
  <2>2. \A k \in Handle : meta'[k].version \in Version \cup {0}
    <3>1. PICK sums : meta' = [meta EXCEPT ![op.h].sums = sums]
      BY <1>3 DEF WriteSums, WriteSumsFails, PutSums
    <3> QED
      BY <1>0, <3>1 DEF VersionInv, ShapeInv, Total, MetaShape, StoreInv, FilesInv, BoundsInv
  <2>3. CASE WriteSums
    <3>1. op' = [op EXCEPT !.pc = "sync"] /\ left' = left
      BY <2>3 DEF WriteSums
    <3>2. /\ op'.h = op.h /\ op'.first = op.first /\ op'.after = op.after /\ op'.gap = op.gap
          /\ op'.value = op.value /\ op'.kind = "write" /\ op'.pc = "sync"
      BY <1>0, <3>1, OpGoesOn DEF Writing
    <3>3. OpRange'
      BY <1>0, <2>1, <3>2 DEF StoreInv, OpRange, Writing, Creating, Copying
    <3> QED
      BY <2>1, <2>2, <3>1, <3>3 DEF StoreInv, FilesInv, BoundsInv
  <2>4. CASE WriteSumsFails
    <3>1. /\ left' = [ops |-> left'.ops, faults |-> left'.faults]
          /\ left'.ops \in 0..MaxOps /\ op' = NoOp
      BY <2>4, FaultCount DEF WriteSumsFails, StoreInv
    <3> QED
      BY <2>1, <2>2, <3>1, IdleRange DEF StoreInv, FilesInv, BoundsInv
  <2> QED
    BY <1>3, <2>3, <2>4
<1> QED
  BY <1>1, <1>2, <1>3 DEF MutationStep

\* The files of a new chunk are there, empty.
LEMMA StoreCreates ==
  ASSUME VersionInv, StoreInv, NEW h \in Handle, NEW version \in NewVersion,
         NEW kind \in {"create", "copy"}, NEW from \in Handle,
         CreateFiles(h, version, kind, from)
  PROVE  StoreInv'
<1>0. /\ up /\ op.pc = "idle" /\ ~entries[h].there /\ version \in Version
      /\ kind = "copy" => entries[from].there /\ from # h
      /\ UNCHANGED <<diskChunk, diskMeta, entries, up, corrupt, left>>
      /\ chunk' = [chunk EXCEPT ![h].there = TRUE] /\ meta' = [meta EXCEPT ![h].there = TRUE]
      /\ op' = [kind |-> kind, pc |-> "header", h |-> h, version |-> version, from |-> from]
  BY Numbers DEF CreateFiles, disks
<1>1. PICK f : /\ chunk' = [chunk EXCEPT ![h] = f] /\ f \in Content /\ Clear(f) /\ f.there
  <2>1. chunk[h] \in Content /\ Clear(chunk[h]) /\ chunk \in [Handle -> Content]
    BY DEF StoreInv, FilesInv
  <2> DEFINE f == [chunk[h] EXCEPT !.there = TRUE]
  <2>2. f \in Content /\ f.there = TRUE /\ f.size = chunk[h].size /\ f.cell = chunk[h].cell
    BY <2>1 DEF Content
  <2>3. chunk' = [chunk EXCEPT ![h] = f]
    BY <1>0, <2>1
  <2> HIDE DEF f
  <2>4. Clear(f)
    BY <2>1, <2>2 DEF Clear
  <2> QED
    BY <2>2, <2>3, <2>4
<1>2. \A k \in Handle : meta'[k].version \in Version \cup {0}
  BY <1>0 DEF VersionInv, ShapeInv, Total, MetaShape, StoreInv, FilesInv, BoundsInv
<1>3. BoundsInv'
  BY <1>0, <1>2 DEF StoreInv, FilesInv, BoundsInv
<1>4. EntryOK(entries'[h], f)
  BY <1>0 DEF StoreInv, FilesInv, EntryOK
<1>5. FilesInv'
  BY <1>0, <1>1, <1>3, <1>4, OneChunk DEF StoreInv
<1>6. chunk'[h].there
  BY <1>1 DEF StoreInv, FilesInv
<1>7. OpRange'
  BY <1>0, <1>6 DEF OpRange, Writing, Creating, Copying
<1> QED
  BY <1>5, <1>7 DEF StoreInv

\* The header of a new chunk is written, or is not.
LEMMA StoreHeader ==
  ASSUME VersionInv, StoreInv, WriteHeader \/ WriteHeaderFails
  PROVE  StoreInv'
<1>0. /\ op.pc = "header" /\ op.h \in Handle /\ CreateOp /\ Creating /\ ~Writing /\ up
      /\ ~entries[op.h].there /\ chunk[op.h].there /\ op.version \in Version
      /\ Total(entries) /\ Total(meta) /\ Total(diskMeta)
  BY OpKinds DEF WriteHeader, WriteHeaderFails, StoreInv, OpRange, VersionInv, ShapeInv
<1>1. UNCHANGED <<chunk, diskChunk, up, corrupt>>
  BY DEF WriteHeader, WriteHeaderFails, disks
<1>2. ASSUME meta' = [meta EXCEPT ![op.h].version = op.version]
      PROVE  \A k \in Handle : meta'[k].version \in Version \cup {0}
  BY <1>0, <1>2 DEF VersionInv, ShapeInv, Total, MetaShape, StoreInv, FilesInv, BoundsInv
<1>3. CASE WriteHeader
  <2>1. \A k \in Handle : /\ meta'[k].version \in Version \cup {0}
                          /\ diskMeta'[k].version \in Version \cup {0}
    <3>1. /\ meta' = [meta EXCEPT ![op.h].version = op.version]
          /\ diskMeta' = [diskMeta EXCEPT ![op.h] = meta'[op.h]]
      BY <1>3 DEF WriteHeader
    <3>2. \A k \in Handle : meta'[k].version \in Version \cup {0}
      BY <1>2, <3>1
    <3> QED
      BY <1>0, <3>1, <3>2 DEF Total, StoreInv, FilesInv, BoundsInv
  <2>2. BoundsInv'
    BY <1>1, <1>3, <2>1 DEF WriteHeader, StoreInv, FilesInv, BoundsInv
  <2>3. CASE op.kind = "create"
    <3>1. op' = NoOp /\ entries' = [entries EXCEPT ![op.h] =
            [there |-> TRUE, version |-> op.version, length |-> 0, sums |-> NoSums]]
      BY <1>3, <2>3 DEF WriteHeader, Open
    <3>2. /\ \A k \in Handle \ {op.h} : entries'[k] = entries[k]
          /\ entries'[op.h].there = TRUE /\ entries'[op.h].version = op.version
          /\ entries'[op.h].length = 0
      BY <1>0, <3>1 DEF Total
    <3>3. EntryOK(entries'[op.h], chunk[op.h])
      <4>1. chunk[op.h].size \in Nat
        BY <1>0, Numbers DEF StoreInv, FilesInv, Content
      <4>2. 0 \in 0..chunk[op.h].size
        BY <4>1
      <4>3. /\ entries'[op.h].there = TRUE /\ entries'[op.h].length \in 0..chunk[op.h].size
            /\ entries'[op.h].version \in Version /\ chunk[op.h].there
        BY <1>0, <3>2, <4>2
      <4> QED
        BY <4>3 DEF EntryOK
    <3>4. FilesInv'
      BY <1>0, <1>1, <2>2, <3>2, <3>3, OneChunk DEF StoreInv, FilesInv
    <3> QED
      BY <3>1, <3>4, IdleRange DEF StoreInv
  <2>4. CASE op.kind # "create"
    <3>1. op' = [op EXCEPT !.pc = "copy"] /\ UNCHANGED entries
      BY <1>3, <2>4 DEF WriteHeader
    <3>2. FilesInv'
      BY <1>1, <2>2, <3>1 DEF StoreInv, FilesInv
    <3>3. op'.pc = "copy" /\ op'.h = op.h /\ op'.kind = "copy"
          /\ op'.version = op.version /\ op'.from = op.from /\ op.kind = "copy"
      BY <1>0, <2>4, <3>1, OpGoesOn DEF CreateOp
    <3>4. OpRange'
      BY <1>0, <1>1, <3>1, <3>3 DEF StoreInv, OpRange, Writing, Creating, Copying
    <3> QED
      BY <3>2, <3>4 DEF StoreInv
  <2> QED
    BY <2>3, <2>4
<1>4. CASE WriteHeaderFails
  <2>1. /\ \A k \in Handle : meta'[k].version \in Version \cup {0}
        /\ UNCHANGED <<diskMeta, entries>>
    BY <1>2, <1>4 DEF WriteHeaderFails, disks, StoreInv, FilesInv, BoundsInv
  <2>2. /\ left' = [ops |-> left'.ops, faults |-> left'.faults]
        /\ left'.ops \in 0..MaxOps /\ op' = NoOp
    BY <1>4, FaultCount DEF WriteHeaderFails, StoreInv
  <2> QED
    BY <1>1, <2>1, <2>2, IdleRange DEF StoreInv, FilesInv, BoundsInv
<1> QED
  BY <1>3, <1>4

\* The data and the checksums of a copy are written.
LEMMA StoreCopies ==
  ASSUME VersionInv, StoreInv, CopyData \/ CopyDataFails \/ CopySums
  PROVE  StoreInv'
<1>0. /\ op.pc \in {"copy", "copysums"} /\ op.h \in Handle /\ CreateOp /\ Creating /\ ~Writing
      /\ Copying /\ up /\ ~entries[op.h].there /\ chunk[op.h].there /\ op.version \in Version
      /\ op.from \in Handle /\ entries[op.from].there
  <2>1. op.pc \in {"copy", "copysums"}
    BY DEF CopyData, CopyDataFails, CopySums
  <2>2. op.h \in Handle /\ Creating /\ ~Writing /\ up
    <3>1. op.pc \in {"copy", "copysums"} => CreateOp
      BY DEF VersionInv, OpInv, NoOp, WriteOp, VersionOp
    <3> QED
      BY <2>1, <3>1, OpKinds DEF CreateOp, Creating
  <2>3. CreateOp /\ Copying
    BY <2>1, <2>2, OpKinds DEF StoreInv, OpRange, Creating, Copying
  <2> QED
    BY <2>1, <2>2, <2>3 DEF StoreInv, OpRange
<1>1. UNCHANGED <<diskChunk, diskMeta, entries, up, corrupt>>
  BY DEF CopyData, CopyDataFails, CopySums, disks
<1>2. CASE CopyData \/ CopyDataFails
  <2>1. PICK n \in 0..ChunkSize :
          /\ chunk' = [chunk EXCEPT ![op.h] = CopyOf(chunk[op.from], n)]
          /\ CopyData => n = entries[op.from].length
    <3>1. entries[op.from].length \in 0..ChunkSize
          /\ \A n \in 0..(entries[op.from].length - 1) : n \in 0..ChunkSize
      BY <1>0, Numbers DEF StoreInv, FilesInv, EntryOK, Content
    <3>2. CASE CopyData
      BY <3>1, <3>2 DEF CopyData
    <3>3. CASE CopyDataFails /\ ~CopyData
      BY <3>1, <3>3 DEF CopyDataFails
    <3> QED
      BY <1>2, <3>2, <3>3
  <2> DEFINE f == CopyOf(chunk[op.from], n)
  <2>2. f \in Content /\ Clear(f) /\ f.there /\ f.size = n
    <3>1. chunk[op.from] \in Content
      BY <1>0 DEF StoreInv, FilesInv
    <3> QED
      BY <3>1, CopyContent
  <2>3. chunk' = [chunk EXCEPT ![op.h] = f]
    BY <2>1
  <2> HIDE DEF f
  <2>4. /\ left' = [ops |-> left'.ops, faults |-> left'.faults] /\ left'.ops \in 0..MaxOps
    BY <1>2, FaultCount DEF CopyData, CopyDataFails, StoreInv, FilesInv, BoundsInv
  <2>5. BoundsInv'
    BY <1>1, <1>2, <2>4 DEF CopyData, CopyDataFails, StoreInv, FilesInv, BoundsInv
  <2>6. EntryOK(entries'[op.h], f)
    BY <1>0, <1>1 DEF StoreInv, FilesInv, EntryOK
  <2>7. FilesInv'
    BY <1>0, <1>1, <2>2, <2>3, <2>5, <2>6, OneChunk DEF StoreInv
  <2>8. chunk'[op.h] = f
    BY <1>0, <2>3 DEF StoreInv, FilesInv
  <2>9. OpRange'
    <3>1. CASE CopyData
      <4>1. op' = [op EXCEPT !.pc = "copysums"]
        BY <3>1 DEF CopyData
      <4>2. op'.pc = "copysums" /\ op'.h = op.h /\ op'.kind = "copy"
            /\ op'.version = op.version /\ op'.from = op.from
        BY <1>0, <4>1, OpGoesOn DEF Copying
      <4> QED
        BY <1>0, <1>1, <2>1, <2>2, <2>8, <3>1, <4>2 DEF OpRange, Writing, Creating, Copying
    <3>2. CASE CopyDataFails
      BY <3>2, IdleRange DEF CopyDataFails, Fails
    <3> QED
      BY <1>2, <3>1, <3>2
  <2> QED
    BY <2>7, <2>9 DEF StoreInv
<1>3. CASE CopySums
  <2>1. /\ UNCHANGED <<chunk, left>> /\ op.pc = "copysums"
        /\ op' = [op EXCEPT !.pc = "sync"]
    BY <1>3 DEF CopySums
  <2>2. \A k \in Handle : meta'[k].version \in Version \cup {0}
    <3>1. PICK sums : meta' = [meta EXCEPT ![op.h].sums = sums]
      BY <1>3 DEF CopySums
    <3> QED
      BY <1>0, <3>1 DEF VersionInv, ShapeInv, Total, MetaShape, StoreInv, FilesInv, BoundsInv
  <2>3. FilesInv'
    BY <1>1, <2>1, <2>2 DEF StoreInv, FilesInv, BoundsInv
  <2>4. op'.pc = "sync" /\ op'.h = op.h /\ op'.kind = "copy"
        /\ op'.version = op.version /\ op'.from = op.from
    BY <1>0, <2>1, OpGoesOn DEF Copying
  <2>5. OpRange'
    BY <1>0, <1>1, <2>1, <2>4 DEF StoreInv, OpRange, Writing, Creating, Copying
  <2> QED
    BY <2>3, <2>5 DEF StoreInv
<1> QED
  BY <1>2, <1>3

\* The files are synced; a copy is in the table then.
LEMMA StoreSyncs ==
  ASSUME VersionInv, StoreInv, SyncStep
  PROVE  StoreInv'
<1>0. op.h \in Handle /\ up /\ Total(meta) /\ Total(diskMeta) /\ Total(entries)
      /\ op.pc # "idle"
  BY OpKinds DEF SyncStep, SyncData, SyncMeta, SyncVersion, SyncFails, VersionInv, ShapeInv
<1>1. UNCHANGED <<chunk, meta, up, corrupt>>
  BY DEF SyncStep, SyncData, SyncMeta, SyncVersion, SyncFails, files
<1>2. \A k \in Handle : meta'[k].version \in Version \cup {0}
                        /\ diskMeta'[k].version \in Version \cup {0}
  <2>1. diskMeta' = diskMeta \/ diskMeta' = [diskMeta EXCEPT ![op.h] = meta[op.h]]
    BY DEF SyncStep, SyncData, SyncMeta, SyncVersion, SyncFails, disks
  <2> QED
    BY <1>0, <1>1, <2>1 DEF StoreInv, FilesInv, BoundsInv, Total
<1>3. /\ left' = [ops |-> left'.ops, faults |-> left'.faults] /\ left'.ops \in 0..MaxOps
  BY FaultCount DEF SyncStep, SyncData, SyncMeta, SyncVersion, SyncFails, StoreInv, FilesInv, BoundsInv
<1>4. BoundsInv'
  BY <1>1, <1>2, <1>3 DEF StoreInv, FilesInv, BoundsInv
<1>5. /\ chunk[op.h] \in Content /\ Clear(chunk[op.h])
      /\ EntryOK(entries[op.h], chunk[op.h]) /\ (entries[op.h].there => up)
  BY <1>0 DEF StoreInv, FilesInv
<1>6. CASE SyncData
  <2>1. /\ diskChunk' = [diskChunk EXCEPT ![op.h] = chunk[op.h]] /\ UNCHANGED entries
        /\ op' = [op EXCEPT !.pc = "syncmeta"] /\ op.pc = "sync"
    BY <1>6 DEF SyncData
  <2>2. FilesInv'
    BY <1>0, <1>1, <1>4, <1>5, <2>1, OneChunk DEF StoreInv
  <2>3. /\ op'.pc = "syncmeta" /\ op'.h = op.h /\ op'.kind = op.kind
        /\ WriteOp => /\ op'.first = op.first /\ op'.after = op.after
                      /\ op'.gap = op.gap /\ op'.value = op.value
        /\ CreateOp => op'.version = op.version /\ op'.from = op.from
    BY <1>0, <2>1, OpGoesOn
  <2>4. CASE Writing /\ WriteOp /\ ~Creating /\ ~Copying
    <3>1. Writing' /\ ~Creating' /\ ~Copying' /\ op'.pc # "version"
      BY <2>3, <2>4 DEF Writing, Creating, Copying
    <3> QED
      BY <1>1, <2>1, <2>2, <2>3, <2>4, <3>1 DEF StoreInv, OpRange
  <2>5. CASE Creating /\ CreateOp /\ ~Writing
    <3>1. Creating' /\ ~Writing' /\ op'.pc # "version" /\ Copying /\ Copying' /\ op.kind = "copy"
      BY <2>1, <2>3, <2>5 DEF Writing, Creating, Copying, StoreInv, OpRange
    <3> QED
      BY <1>1, <2>1, <2>2, <2>3, <2>5, <3>1 DEF StoreInv, OpRange
  <2> QED
    BY <2>1, <2>4, <2>5, OpKinds
<1>7. CASE SyncMeta
  <2>1. op' = NoOp /\ UNCHANGED diskChunk /\ op.pc = "syncmeta"
    BY <1>7 DEF SyncMeta, Open
  <2>2. CASE op.kind = "copy"
    <3>1. PICK sums : entries' = [entries EXCEPT ![op.h] =
            [there |-> TRUE, version |-> op.version, length |-> entries[op.from].length,
             sums |-> sums]]
      BY <1>7, <2>2 DEF SyncMeta, Open
    <3>2. /\ \A k \in Handle \ {op.h} : entries'[k] = entries[k]
          /\ entries'[op.h].there = TRUE /\ entries'[op.h].version = op.version
          /\ entries'[op.h].length = entries[op.from].length
      BY <1>0, <3>1 DEF Total
    <3>3. Copying /\ Creating
      BY <1>0, <2>2 DEF Copying, Creating
    <3>4. /\ op.version \in Version /\ chunk[op.h].there
          /\ op.from \in Handle /\ entries[op.from].there
          /\ chunk[op.h].size = entries[op.from].length
      BY <2>1, <3>3 DEF StoreInv, OpRange
    <3>5. chunk[op.h].size \in Nat
      BY <1>5, Numbers DEF Content
    <3>6. chunk[op.h].size \in 0..chunk[op.h].size
      BY <3>5
    <3>7. EntryOK(entries'[op.h], chunk[op.h])
      <4>1. /\ entries'[op.h].there = TRUE /\ entries'[op.h].length \in 0..chunk[op.h].size
            /\ entries'[op.h].version \in Version /\ chunk[op.h].there
        BY <3>2, <3>4, <3>6
      <4> QED
        BY <4>1 DEF EntryOK
    <3>8. FilesInv'
      BY <1>0, <1>1, <1>4, <1>5, <2>1, <3>2, <3>7, OneChunk DEF StoreInv
    <3> QED
      BY <2>1, <3>8, IdleRange DEF StoreInv
  <2>3. CASE op.kind # "copy"
    <3>1. UNCHANGED entries
      BY <1>7, <2>3 DEF SyncMeta
    <3>2. FilesInv'
      BY <1>1, <1>4, <2>1, <3>1 DEF StoreInv, FilesInv
    <3> QED
      BY <2>1, <3>2, IdleRange DEF StoreInv
  <2> QED
    BY <2>2, <2>3
<1>8. CASE SyncVersion
  <2>1. op' = NoOp /\ UNCHANGED diskChunk /\ op.pc = "version"
        /\ entries' = [entries EXCEPT ![op.h].version = op.version]
    BY <1>8 DEF SyncVersion
  <2>2. op.version \in Version
    BY <2>1 DEF StoreInv, OpRange
  <2>3. EntryShape(entries[op.h])
    BY <1>0 DEF VersionInv, ShapeInv
  <2>4. PICK t, v, n, w :
          /\ entries[op.h] = [there |-> t, version |-> v, length |-> n, sums |-> w]
          /\ entries'[op.h] = [there |-> t, version |-> op.version, length |-> n, sums |-> w]
    BY <1>0, <2>1, <2>3 DEF EntryShape, Total
  <2>5. \A k \in Handle \ {op.h} : entries'[k] = entries[k]
    BY <1>0, <2>1 DEF Total
  <2>6. CASE entries[op.h].there
    <3>1. EntryOK(entries'[op.h], chunk[op.h])
      BY <1>5, <2>2, <2>4, <2>6 DEF EntryOK
    <3>2. FilesInv'
      BY <1>0, <1>1, <1>4, <1>5, <2>1, <2>5, <3>1, OneChunk DEF StoreInv
    <3> QED
      BY <2>1, <3>2, IdleRange DEF StoreInv
  <2>7. entries[op.h].there
    BY <2>1 DEF StoreInv, OpRange
  <2> QED
    BY <2>6, <2>7
<1>9. CASE SyncFails
  <2>1. op' = NoOp /\ UNCHANGED <<diskChunk, entries>>
    BY <1>9 DEF SyncFails, Fails, disks
  <2>2. FilesInv'
    BY <1>1, <1>4, <2>1 DEF StoreInv, FilesInv
  <2> QED
    BY <2>1, <2>2, IdleRange DEF StoreInv
<1> QED
  BY <1>6, <1>7, <1>8, <1>9 DEF SyncStep

\* SetVersion writes its version to the file.
LEMMA StoreBeginsVersion ==
  ASSUME VersionInv, StoreInv, NEW h \in Handle, NEW version \in Version,
         BeginSetVersion(h, version)
  PROVE  StoreInv'
<1>1. /\ up /\ entries[h].there /\ op.pc = "idle" /\ left.ops > 0
      /\ meta' = [meta EXCEPT ![h].version = version]
      /\ left' = [left EXCEPT !.ops = @ - 1]
      /\ op' = [kind |-> "version", pc |-> "version", h |-> h, version |-> version]
      /\ UNCHANGED <<chunk, diskChunk, diskMeta, entries, up, corrupt>>
  BY DEF BeginSetVersion, Free, disks
<1>2. \A k \in Handle : meta'[k].version \in Version \cup {0}
  BY <1>1 DEF VersionInv, ShapeInv, Total, MetaShape, StoreInv, FilesInv, BoundsInv
<1>3. left' = [ops |-> left'.ops, faults |-> left'.faults] /\ left'.ops \in 0..MaxOps
  <2>1. left.ops - 1 \in 0..MaxOps
    BY <1>1, Numbers DEF StoreInv, FilesInv, BoundsInv
  <2> QED
    BY <1>1, <2>1 DEF StoreInv, FilesInv, BoundsInv
<1>4. FilesInv'
  BY <1>1, <1>2, <1>3 DEF StoreInv, FilesInv, BoundsInv
<1>5. OpRange'
  BY <1>1 DEF OpRange, Writing, Creating, Copying
<1> QED
  BY <1>4, <1>5 DEF StoreInv

\* The files and the entry of a chunk are removed; no creation is in progress.
LEMMA StoreRemoves ==
  ASSUME VersionInv, StoreInv, NEW h \in Handle, Remove(h)
  PROVE  StoreInv'
<1>1. /\ up /\ entries[h].there /\ ~Creating
      /\ entries' = [entries EXCEPT ![h] = NoEntry]
      /\ chunk' = [chunk EXCEPT ![h] = NoFile] /\ meta' = [meta EXCEPT ![h] = NoMeta]
      /\ corrupt' = corrupt \ {h}
      /\ op' = NoOp \/ (op' = op /\ (op.pc = "idle" \/ op.h # h))
      /\ UNCHANGED <<diskChunk, diskMeta, up, left>>
  BY DEF Remove, disks
<1>2. \A k \in Handle : meta'[k].version \in Version \cup {0}
  BY <1>1 DEF VersionInv, ShapeInv, Total, NoMeta, StoreInv, FilesInv, BoundsInv
<1>3. BoundsInv'
  BY <1>1, <1>2 DEF StoreInv, FilesInv, BoundsInv
<1>4. /\ \A k \in Handle \ {h} : entries'[k] = entries[k]
      /\ entries'[h] = NoEntry
  BY <1>1 DEF VersionInv, ShapeInv, Total
<1>5. EntryOK(entries'[h], NoFile) /\ ~entries'[h].there
  BY <1>4 DEF EntryOK, NoEntry
<1>6. FilesInv'
  BY <1>1, <1>3, <1>4, <1>5, NoContent, OneChunk DEF StoreInv
<1>7. CASE op' = NoOp
  BY <1>6, <1>7, IdleRange DEF StoreInv
<1>8. CASE op' = op /\ op.pc = "idle"
  BY <1>6, <1>8 DEF StoreInv, OpRange, Writing, Creating, Copying
<1>9. CASE op' = op /\ op.pc # "idle" /\ op.h # h
  <2>1. ~Creating /\ ~Copying /\ op.h \in Handle
    BY <1>1, <1>9, OpKinds
  <2>2. /\ Writing' = Writing /\ ~Creating' /\ ~Copying'
        /\ entries'[op.h] = entries[op.h]
    BY <1>4, <1>9, <2>1 DEF Writing, Creating, Copying
  <2>3. OpRange'
    BY <1>9, <2>2 DEF StoreInv, OpRange
  <2> QED
    BY <1>6, <2>3 DEF StoreInv
<1> QED
  BY <1>1, <1>7, <1>8, <1>9

\* A damaged cell is inside its file.
LEMMA StoreRots ==
  ASSUME VersionInv, StoreInv, NEW h \in Handle, NEW i \in Cell, Rot(h, i)
  PROVE  StoreInv'
<1>1. /\ chunk' = [chunk EXCEPT ![h].cell[i] = Damaged]
      /\ diskChunk' = [diskChunk EXCEPT ![h].cell[i] = Damaged]
      /\ i < chunk[h].size /\ i < diskChunk[h].size
      /\ op' = NoOp /\ UNCHANGED <<meta, diskMeta, entries, up, corrupt>>
  BY DEF Rot, Fails
<1>2. ASSUME NEW f \in Content, Clear(f), i < f.size
      PROVE  /\ [f EXCEPT !.cell[i] = Damaged] \in Content
             /\ Clear([f EXCEPT !.cell[i] = Damaged])
             /\ [f EXCEPT !.cell[i] = Damaged].there = f.there
             /\ [f EXCEPT !.cell[i] = Damaged].size = f.size
  <2> DEFINE c == [f.cell EXCEPT ![i] = Damaged]
             g == [f EXCEPT !.cell = c]
  <2>1. c \in [Cell -> 0..MaxOps \cup {Damaged}]
        /\ \A k \in Cell : c[k] = IF k = i THEN Damaged ELSE f.cell[k]
    BY DEF Content
  <2>2. [f EXCEPT !.cell[i] = Damaged] = g
    BY DEF Content
  <2>3. g \in Content /\ g.there = f.there /\ g.size = f.size /\ g.cell = c
    <3> HIDE DEF c
    <3> QED
      BY <2>1 DEF Content
  <2>4. f.size \in Int /\ Cell \subseteq Int /\ ~(i >= f.size)
    BY <1>2, Numbers DEF Content
  <2> HIDE DEF c, g
  <2>5. Clear(g)
    BY <1>2, <2>1, <2>3, <2>4 DEF Clear
  <2> QED
    BY <2>2, <2>3, <2>5
<1>3. /\ chunk' \in [Handle -> Content] /\ \A k \in Handle : Clear(chunk'[k])
      /\ \A k \in Handle : chunk'[k].there = chunk[k].there /\ chunk'[k].size = chunk[k].size
  <2>1. PICK g : /\ chunk' = [chunk EXCEPT ![h] = g] /\ g \in Content /\ Clear(g)
                 /\ g.there = chunk[h].there /\ g.size = chunk[h].size
    <3>1. chunk[h] \in Content /\ Clear(chunk[h]) /\ chunk \in [Handle -> Content]
      BY DEF StoreInv, FilesInv
    <3> QED
      BY <1>1, <1>2, <3>1
  <2> QED
    BY <2>1 DEF StoreInv, FilesInv
<1>4. diskChunk' \in [Handle -> Content] /\ \A k \in Handle : Clear(diskChunk'[k])
  <2>1. PICK g : diskChunk' = [diskChunk EXCEPT ![h] = g] /\ g \in Content /\ Clear(g)
    <3>1. diskChunk[h] \in Content /\ Clear(diskChunk[h]) /\ diskChunk \in [Handle -> Content]
      BY DEF StoreInv, FilesInv
    <3> QED
      BY <1>1, <1>2, <3>1
  <2> QED
    BY <2>1 DEF StoreInv, FilesInv
<1>5. BoundsInv'
  BY <1>1, FaultCount DEF Rot, StoreInv, FilesInv, BoundsInv
<1>6. \A k \in Handle : EntryOK(entries'[k], chunk'[k]) /\ (entries'[k].there => up')
  BY <1>1, <1>3 DEF StoreInv, FilesInv, EntryOK
<1> QED
  BY <1>1, <1>3, <1>4, <1>5, <1>6, IdleRange DEF StoreInv, FilesInv

\* Steps that change only the list of corrupt chunks.
LEMMA StoreStays ==
  ASSUME StoreInv,
         \/ \E h \in Handle, b \in Block : ReadDamaged(h, b)
         \/ ClearCorrupt
         \/ UNCHANGED vars
  PROVE  StoreInv'
<1>1. /\ UNCHANGED <<chunk, diskChunk, meta, diskMeta, entries, up, op, left>>
      /\ corrupt' \subseteq Handle
  BY DEF ReadDamaged, ClearCorrupt, vars, files, disks, StoreInv, FilesInv, BoundsInv
<1>2. FilesInv'
  BY <1>1 DEF StoreInv, FilesInv, BoundsInv
<1>3. OpRange'
  BY <1>1 DEF StoreInv, OpRange, Writing, Creating, Copying
<1> QED
  BY <1>2, <1>3 DEF StoreInv

\* What is on the disk after a crash are files again.
LEMMA StoreCrashes ==
  ASSUME VersionInv, StoreInv, Crash
  PROVE  StoreInv'
<1>1. PICK c \in [Handle -> UNION {FileLeft(diskChunk[h], chunk[h]) : h \in Handle}] :
        /\ \A h \in Handle : c[h] \in FileLeft(diskChunk[h], chunk[h])
        /\ chunk' = c /\ diskChunk' = c
  BY DEF Crash
<1>2. PICK m \in [Handle -> UNION {MetaLeft(diskMeta[h], meta[h]) : h \in Handle}] :
        /\ \A h \in Handle : m[h] \in MetaLeft(diskMeta[h], meta[h])
        /\ meta' = m /\ diskMeta' = m
  BY DEF Crash
<1>3. ASSUME NEW h \in Handle PROVE c[h] \in Content /\ Clear(c[h])
  BY <1>1, LeftContent DEF StoreInv, FilesInv
<1>4. c \in [Handle -> Content] /\ \A h \in Handle : Clear(c[h])
  <2>1. c = [h \in Handle |-> c[h]]
    OBVIOUS
  <2> QED
    BY <1>3, <2>1
<1>5. ASSUME NEW h \in Handle PROVE m[h].version \in Version \cup {0}
  <2>1. MetaShape(diskMeta[h]) /\ (~diskMeta[h].there => diskMeta[h].version = 0)
    BY DEF VersionInv, ShapeInv, FileInv
  <2>2. m[h].version \in {0, diskMeta[h].version, meta[h].version}
    BY <1>2, <2>1, LeftVersion
  <2> QED
    BY <2>2 DEF StoreInv, FilesInv, BoundsInv
<1>6. entries' = [h \in Handle |-> NoEntry] /\ corrupt' = {} /\ op' = NoOp
  BY DEF Crash, Fails
<1>7. BoundsInv'
  BY <1>2, <1>5, <1>6, FaultCount DEF Crash, StoreInv, BoundsInv
<1>8. \A h \in Handle : EntryOK(entries'[h], chunk'[h]) /\ ~entries'[h].there
  BY <1>6 DEF EntryOK, NoEntry
<1> QED
  BY <1>1, <1>4, <1>6, <1>7, <1>8, IdleRange DEF StoreInv, FilesInv

\* An entry that Scan makes is as long as its file.
LEMMA StoreScans ==
  ASSUME VersionInv, StoreInv, Scan
  PROVE  StoreInv'
<1>1. /\ entries' = [h \in Handle |-> Opened(h)] /\ up'
      /\ meta' = [h \in Handle |-> IF chunk[h].there THEN meta[h] ELSE NoMeta]
      /\ UNCHANGED <<chunk, diskChunk, diskMeta, op, corrupt, left>> /\ op = NoOp
  BY DEF Scan, disks, VersionInv, OpInv
<1>2. BoundsInv'
  <2>1. NoMeta.version = 0
    BY DEF NoMeta
  <2> QED
    BY <1>1, <2>1 DEF StoreInv, FilesInv, BoundsInv
<1>3. ASSUME NEW h \in Handle PROVE EntryOK(Opened(h), chunk[h])
  <2>1. chunk[h].size \in Nat /\ meta[h].version \in Version \cup {0}
    BY Numbers DEF StoreInv, FilesInv, BoundsInv, Content
  <2>2. chunk[h].size \in 0..chunk[h].size
    BY <2>1
  <2>3. CASE Opened(h) = NoEntry
    BY <2>3 DEF EntryOK, NoEntry
  <2>4. CASE Opened(h) # NoEntry
    <3>1. /\ chunk[h].there /\ meta[h].version \in Version
          /\ Opened(h).there = TRUE /\ Opened(h).version = meta[h].version
          /\ Opened(h).length = chunk[h].size
      BY <2>1, <2>4 DEF Opened
    <3> QED
      BY <2>2, <3>1 DEF EntryOK
  <2> QED
    BY <2>3, <2>4
<1>4. FilesInv'
  BY <1>1, <1>2, <1>3 DEF StoreInv, FilesInv
<1> QED
  BY <1>1, <1>4, IdleRange DEF StoreInv

\* Every step keeps the files and the entries of chunks as they have to be.
LEMMA StoreStep == VersionInv /\ StoreInv /\ [Next]_vars => StoreInv'
<1> SUFFICES ASSUME VersionInv, StoreInv, [Next]_vars PROVE StoreInv'
  OBVIOUS
<1>1. ASSUME NEW h \in Handle, Request(h) PROVE StoreInv'
  <2>1. CASE (\E r \in Range : BeginWrite(h, r)) \/ (\E from \in PadFrom : BeginPad(h, from))
    BY <2>1, StoreBegins
  <2>2. CASE \E v \in Version : BeginSetVersion(h, v)
    BY <2>2, StoreBeginsVersion
  <2>3. CASE \E v \in NewVersion : \/ CreateFiles(h, v, "create", h)
                                    \/ \E from \in Handle : CreateFiles(h, v, "copy", from)
    BY <2>3, StoreCreates
  <2>4. CASE Remove(h)
    BY <2>4, StoreRemoves
  <2>5. CASE \E b \in Block : ReadDamaged(h, b)
    BY <2>5, StoreStays
  <2> QED
    BY <1>1, <2>1, <2>2, <2>3, <2>4, <2>5 DEF Request
<1>2. CASE \E h \in Handle, i \in Cell : Rot(h, i)
  BY <1>2, StoreRots
<1>3. CASE MutationStep
  BY <1>3, StoreMutates
<1>4. CASE CreateStep
  BY <1>4, StoreHeader, StoreCopies DEF CreateStep
<1>5. CASE SyncStep
  BY <1>5, StoreSyncs
<1>6. CASE ClearCorrupt \/ UNCHANGED vars
  BY <1>6, StoreStays
<1>7. CASE Crash
  BY <1>7, StoreCrashes
<1>8. CASE Scan
  BY <1>8, StoreScans
<1> QED
  BY <1>1, <1>2, <1>3, <1>4, <1>5, <1>6, <1>7, <1>8 DEF Next

\* An open chunk has both its files, and its entry is not longer than the file
\* of data; no cell behind the end of a file is anything but zero: what
\* ChunkStore::Read and RecomputeBlocks rely on when they read a block.
THEOREM FilesCorrect == Spec => []TypeOK
<1>1. ASSUME NEW f \in Content, Clear(f) PROVE FileOK(f)
  <2>1. f.there \in BOOLEAN /\ f.size \in 0..ChunkSize /\ f.cell \in [Cell -> 0..MaxOps \cup {Damaged}]
    BY DEF Content
  <2> QED
    BY <1>1, <2>1 DEF FileOK, Clear
<1>2. VersionInv /\ StoreInv => TypeOK
  <2> SUFFICES ASSUME VersionInv, StoreInv PROVE TypeOK
    OBVIOUS
  <2>1. \A h \in Handle : FileOK(chunk[h]) /\ FileOK(diskChunk[h])
    BY <1>1 DEF StoreInv, FilesInv
  <2>2. ASSUME NEW h \in Handle, entries[h].there
        PROVE  /\ up /\ chunk[h].there /\ meta[h].there
               /\ entries[h].version \in Version
               /\ entries[h].length <= chunk[h].size
    BY <2>2, Numbers DEF StoreInv, FilesInv, EntryOK, Content, VersionInv, EntryInv
  <2>3. corrupt \subseteq Handle
    BY DEF StoreInv, FilesInv, BoundsInv
  <2> QED
    BY <2>1, <2>2, <2>3 DEF TypeOK
<1> QED
  BY <1>2, InitVersionInv, StepKeeps, StoreInit, StoreStep, PTL DEF Spec

-----------------------------------------------------------------------------
\* Every checksum was taken of what the cells may show.
Wanted(w, sums) ==
  \A b \in Block : \A i \in DOMAIN sums[b] :
    i \in Cell /\ BlockOf(i) = b /\ sums[b][i] \in w[i]

\* Where mutation o has written, the checksums are of what it wrote.
Written(o, sums) ==
  \A b \in Block : \A i \in DOMAIN sums[b] :
    o.first <= i /\ i < o.after => sums[b][i] = o.value

\* What the cells of a mutation may show, and which checksums have it.
WrittenInv ==
  /\ op.pc = "data" =>
       /\ op.gap <= entries[op.h].length
       /\ \A i \in Cell : /\ op.first <= i /\ i < op.after => op.value \in want[op.h][i]
                          /\ op.gap <= i /\ i < op.first => 0 \in want[op.h][i]
  /\ op.pc # "data" => op.after <= entries[op.h].length /\ Written(op, entries[op.h].sums)
  /\ op.pc \in {"sync", "syncmeta"} => Written(op, meta[op.h].sums)

OpSums ==
  /\ Writing => WrittenInv
  /\ Copying => want[op.h] = want[op.from]
  /\ op.pc = "header" => chunk[op.h].size = 0

\* The checksums of a chunk, wherever they are kept.
ChunkSums(h) ==
  /\ Wanted(want[h], entries[h].sums)
  /\ Wanted(want[h], meta[h].sums) /\ (~meta[h].there => meta[h].sums = NoSums)
  /\ Wanted(want[h], diskMeta[h].sums) /\ (~diskMeta[h].there => diskMeta[h].sums = NoSums)

\* What a write that failed, or damage, left behind the end of the data.
Behind(h) ==
  entries[h].there => \A i \in Cell : i >= entries[h].length =>
    chunk[h].cell[i] \in want[h][i] \cup {0, Damaged}

SumInv ==
  /\ Total(want) /\ \A h \in Handle : ChunkSums(h) /\ Behind(h)
  /\ OpSums

-----------------------------------------------------------------------------
\* The more a cell may show, the more checksums are right.
LEMMA WantedGrows ==
  ASSUME NEW w, NEW w2, NEW sums, Wanted(w, sums), \A i \in Cell : w[i] \subseteq w2[i]
  PROVE  Wanted(w2, sums)
  BY DEF Wanted

\* No checksums.
LEMMA WantedNone == \A w : Wanted(w, NoSums)
  BY DEF Wanted, NoSums, NoSum

\* Checksums of two files, mixed.
LEMMA WantedOverlaid ==
  ASSUME NEW w, NEW s, NEW t, NEW blocks, Wanted(w, s), Wanted(w, t)
  PROVE  Wanted(w, Overlaid(s, blocks, t))
<1>1. \A b \in Block : Overlaid(s, blocks, t)[b] \in {s[b], t[b]}
  BY DEF Overlaid
<1> QED
  BY <1>1 DEF Wanted

\* A block that verifies shows only what it may.
LEMMA Shown ==
  ASSUME SumInv, NEW h \in Handle, NEW i \in Cell, Verifies(h, BlockOf(i)),
         i < entries[h].length
  PROVE  chunk[h].cell[i] \in want[h][i]
<1>1. Wanted(want[h], entries[h].sums) /\ BlockOf(i) \in Block
  BY DEF SumInv, ChunkSums, Block, BlockOf
<1>2. LET s == entries[h].sums[BlockOf(i)]
      IN  i \in DOMAIN s /\ s[i] = chunk[h].cell[i]
  BY DEF Verifies, Sum
<1> QED
  BY <1>1, <1>2 DEF Wanted

\* There are no checksums at first.
LEMMA SumInit == Init => SumInv
<1> SUFFICES ASSUME Init PROVE SumInv
  OBVIOUS
<1>1. /\ \A h \in Handle : meta[h] = NoMeta /\ diskMeta[h] = NoMeta /\ entries[h] = NoEntry
      /\ want = [h \in Handle |-> [i \in Cell |-> {}]] /\ op = NoOp
  BY DEF Init
<1>2. NoMeta.sums = NoSums /\ NoEntry.sums = NoSums /\ ~NoEntry.there
  BY DEF NoMeta, NoEntry
<1>3. Total(want)
  BY <1>1 DEF Total
<1>4. \A h \in Handle : ChunkSums(h) /\ Behind(h)
  BY <1>1, <1>2, WantedNone DEF ChunkSums, Behind
<1> QED
  BY <1>1, <1>3, <1>4 DEF SumInv, OpSums, NoOp, Writing, Copying

\* No operation is in progress.
LEMMA IdleSums == ASSUME op' = NoOp PROVE OpSums'
  BY DEF OpSums, NoOp, Writing, Copying

\* All but one chunk are as they were.
LEMMA OneSums ==
  ASSUME SumInv, NEW h \in Handle, Total(want'), ChunkSums(h)', Behind(h)', OpSums',
         \A k \in Handle \ {h} :
           /\ want'[k] = want[k] /\ entries'[k] = entries[k] /\ chunk'[k] = chunk[k]
           /\ meta'[k] = meta[k] /\ diskMeta'[k] = diskMeta[k]
  PROVE  SumInv'
<1>1. ASSUME NEW k \in Handle \ {h} PROVE ChunkSums(k)' /\ Behind(k)'
  BY DEF SumInv, ChunkSums, Behind
<1> QED
  BY <1>1 DEF SumInv

\* One field of one file of checksums is another.
LEMMA MetaSums ==
  ASSUME VersionInv, NEW h \in Handle, NEW s, meta' = [meta EXCEPT ![h].sums = s]
  PROVE  /\ meta'[h].sums = s /\ meta'[h].there = meta[h].there
         /\ \A k \in Handle \ {h} : meta'[k] = meta[k]
  BY DEF VersionInv, ShapeInv, Total, MetaShape

\* The version in one file of checksums is another.
LEMMA MetaVersion ==
  ASSUME VersionInv, NEW h \in Handle, NEW v, meta' = [meta EXCEPT ![h].version = v]
  PROVE  /\ meta'[h].sums = meta[h].sums /\ meta'[h].there = meta[h].there
         /\ \A k \in Handle \ {h} : meta'[k] = meta[k]
  BY DEF VersionInv, ShapeInv, Total, MetaShape

\* What a mutation writes, and the zeros before it, may be shown from now on.
LEMMA SumBegins ==
  ASSUME VersionInv, StoreInv, SumInv, NEW h \in Handle,
         (\E r \in Range : BeginWrite(h, r)) \/ (\E from \in PadFrom : BeginPad(h, from))
  PROVE  SumInv'
<1>1. PICK first, after, gap, value :
        /\ Begin(h, first, after, gap, value)
        /\ first \in 0..ChunkSize /\ after \in 0..ChunkSize /\ gap \in 0..first
        /\ gap <= entries[h].length
  BY Begun
<1>2. /\ op' = [kind |-> "write", pc |-> "data", h |-> h, first |-> first,
                after |-> after, gap |-> gap, value |-> value]
      /\ UNCHANGED <<chunk, meta, diskMeta, entries>>
      /\ want' = [want EXCEPT ![h] = [i \in Cell |->
            want[h][i] \cup (IF i \in first..(after - 1) THEN {value} ELSE {})
                       \cup (IF i \in gap..(first - 1) THEN {0} ELSE {})]]
  BY <1>1 DEF Begin, files, disks, SumInv, Total
<1>3. /\ Total(want') /\ \A k \in Handle \ {h} : want'[k] = want[k]
      /\ \A i \in Cell : want'[h][i] =
            want[h][i] \cup (IF i \in first..(after - 1) THEN {value} ELSE {})
                       \cup (IF i \in gap..(first - 1) THEN {0} ELSE {})
  BY <1>2 DEF SumInv, Total
<1>4. \A i \in Cell : /\ want[h][i] \subseteq want'[h][i]
                      /\ first <= i /\ i < after => value \in want'[h][i]
                      /\ gap <= i /\ i < first => 0 \in want'[h][i]
  <2>1. /\ Cell \subseteq Int /\ first \in Int /\ after \in Int /\ gap \in Int
    BY <1>1, Numbers
  <2> QED
    BY <1>3, <2>1
<1>5. ChunkSums(h)'
  BY <1>2, <1>4, WantedGrows DEF SumInv, ChunkSums
<1>6. Behind(h)'
  BY <1>2, <1>4 DEF SumInv, Behind
<1>7. OpSums'
  BY <1>1, <1>2, <1>4 DEF OpSums, WrittenInv, Writing, Copying
<1> QED
  BY <1>2, <1>3, <1>5, <1>6, <1>7, OneSums

\* A cell that a mutation changes is in a block whose checksum it changes.
LEMMA Covered ==
  ASSUME NEW gap \in Int, NEW length \in Int, NEW i \in Cell, gap <= i, i < length
  PROVE  BlockOf(i) \in Touched(gap, length)
<1>1. i \in gap..(length - 1)
  BY Numbers
<1> QED
  BY <1>1 DEF Touched

\* The mutation that is being done, and what it has written.
LEMMA Mutating ==
  ASSUME VersionInv, StoreInv, SumInv, op.pc \in {"data", "sums"}
  PROVE  /\ op.h \in Handle /\ Writing /\ WriteOp /\ ~Copying /\ WrittenInv
         /\ entries[op.h].there /\ meta[op.h].there /\ chunk[op.h].there
         /\ op.first \in Int /\ op.after \in Int /\ op.gap \in Int /\ op.gap <= op.first
         /\ op.first \in 0..ChunkSize /\ op.after \in 0..ChunkSize /\ op.value \in 0..MaxOps
         /\ entries[op.h].length \in Int
         /\ chunk[op.h] \in Content /\ Clear(chunk[op.h]) /\ chunk \in [Handle -> Content]
         /\ EntryShape(entries[op.h]) /\ Total(entries) /\ Total(want)
<1>1. Writing /\ WriteOp /\ ~Creating /\ ~Copying /\ op.h \in Handle
  BY OpKinds
<1>2. /\ entries[op.h].there /\ op.first \in 0..ChunkSize /\ op.after \in 0..ChunkSize
      /\ op.gap \in 0..op.first /\ op.value \in 0..MaxOps
  BY <1>1 DEF StoreInv, OpRange
<1>3. meta[op.h].there /\ EntryShape(entries[op.h]) /\ Total(entries)
  BY <1>1, <1>2 DEF VersionInv, EntryInv, ShapeInv
<1>4. /\ chunk[op.h].there /\ entries[op.h].length \in Int
      /\ chunk[op.h] \in Content /\ Clear(chunk[op.h]) /\ chunk \in [Handle -> Content]
  BY <1>1, <1>2 DEF StoreInv, FilesInv, EntryOK
<1>5. WrittenInv /\ Total(want)
  BY <1>1 DEF SumInv, OpSums
<1>6. op.first \in Int /\ op.after \in Int /\ op.gap \in Int /\ op.gap <= op.first
  BY <1>2, Numbers
<1> QED
  BY <1>1, <1>2, <1>3, <1>4, <1>5, <1>6

\* RecomputeBlocks takes the checksums of what the cells may show: what the
\* mutation wrote, the zeros of the gap before it, and what had verified; the
\* rest is what Unchecked tells of.
LEMMA SumWrites ==
  ASSUME VersionInv, StoreInv, SumInv, WriteData
  PROVE  SumInv'
<1>h. PICK h : h = op.h
  OBVIOUS
<1> DEFINE f == Filled(chunk[h], op.first, op.after, op.value)
           length == Greater(entries[h].length, op.after)
           blocks == Recomputed(op, length)
           new == [b \in Block |-> Sum(f.cell, b, length)]
           sums == Overlaid(entries[h].sums, blocks, new)
<1>0. op.pc = "data"
  BY DEF WriteData
<1>1. /\ h \in Handle /\ Writing /\ WriteOp /\ ~Copying /\ WrittenInv
      /\ entries[h].there /\ meta[h].there /\ chunk[h].there
      /\ op.first \in Int /\ op.after \in Int /\ op.gap \in Int /\ op.gap <= op.first
      /\ op.first \in 0..ChunkSize /\ op.after \in 0..ChunkSize /\ op.value \in 0..MaxOps
      /\ entries[h].length \in Int
      /\ chunk[h] \in Content /\ Clear(chunk[h]) /\ chunk \in [Handle -> Content]
      /\ EntryShape(entries[h]) /\ Total(entries) /\ Total(want)
  BY <1>0, <1>h, Mutating
<1>2. \A i \in Cell : f.cell[i] = IF op.first <= i /\ i < op.after THEN op.value
                                  ELSE chunk[h].cell[i]
  <2>1. /\ chunk[h] \in Content /\ Clear(chunk[h]) /\ chunk[h].there
        /\ op.first \in 0..ChunkSize /\ op.after \in 0..ChunkSize /\ op.value \in 0..MaxOps
    BY <1>1
  <2> QED
    BY <2>1, FilledContent
<1>3. length \in Int /\ length >= entries[h].length /\ length >= op.after
      /\ (length = entries[h].length \/ length = op.after)
  BY <1>1, Numbers
<1>4. /\ op' = [op EXCEPT !.pc = "sums"] /\ UNCHANGED <<meta, diskMeta>>
      /\ chunk' = [chunk EXCEPT ![h] = f]
      /\ entries' = [entries EXCEPT ![h] =
           [there |-> entries[h].there, version |-> entries[h].version, length |-> length,
            sums |-> sums]]
      /\ want' = [want EXCEPT ![h] = [i \in Cell |->
           IF BlockOf(i) \in blocks /\ Unchecked(h, i, f) THEN want[h][i] \cup {f.cell[i]}
           ELSE want[h][i]]]
  BY <1>1, <1>h DEF WriteData, disks, Total
<1> HIDE DEF sums, new, blocks, length, f
<1>5. /\ \A k \in Handle \ {h} : /\ chunk'[k] = chunk[k] /\ entries'[k] = entries[k]
                                 /\ want'[k] = want[k]
      /\ chunk'[h] = f /\ Total(want')
      /\ entries'[h].there = entries[h].there /\ entries'[h].length = length
      /\ entries'[h].sums = sums
  <2>1. PICK e : /\ e = [there |-> entries[h].there, version |-> entries[h].version,
                         length |-> length, sums |-> sums]
                 /\ entries' = [entries EXCEPT ![h] = e]
    BY <1>4
  <2>2. e.there = entries[h].there /\ e.length = length /\ e.sums = sums
    BY <2>1
  <2>3. /\ \A k \in Handle \ {h} : entries'[k] = entries[k]
        /\ entries'[h] = e
    BY <1>1, <2>1 DEF Total
  <2>4. /\ \A k \in Handle \ {h} : chunk'[k] = chunk[k]
        /\ chunk'[h] = f
    BY <1>1, <1>4
  <2>5. Total(want') /\ \A k \in Handle \ {h} : want'[k] = want[k]
    BY <1>1, <1>4 DEF Total
  <2> QED
    BY <2>2, <2>3, <2>4, <2>5
<1>6. \A i \in Cell : /\ want[h][i] \subseteq want'[h][i]
                      /\ BlockOf(i) \in blocks /\ Unchecked(h, i, f) => f.cell[i] \in want'[h][i]
  BY <1>1, <1>4 DEF Total
<1>7. ASSUME NEW i \in Cell, BlockOf(i) \in blocks, i < length
      PROVE  f.cell[i] \in want'[h][i]
  <2>1. CASE Unchecked(h, i, f)
    BY <1>6, <1>7, <2>1
  <2>2. CASE ~Unchecked(h, i, f) /\ op.first <= i /\ i < op.after
    <3>1. op.value \in want[h][i]
      BY <1>0, <1>1, <1>h, <2>2 DEF WrittenInv
    <3> QED
      BY <1>2, <1>6, <2>2, <3>1
  <2>3. CASE ~Unchecked(h, i, f) /\ ~(op.first <= i /\ i < op.after) /\ i < entries[h].length
    <3>1. chunk[h].cell[i] \in want[h][i]
      BY <1>1, <2>3, Shown DEF Unchecked
    <3> QED
      BY <1>2, <1>6, <2>3, <3>1
  <2>4. CASE ~Unchecked(h, i, f) /\ ~(op.first <= i /\ i < op.after) /\ i >= entries[h].length
    <3>1. i \in Int /\ op.gap <= i /\ i < op.first
      BY <1>0, <1>1, <1>3, <1>7, <1>h, <2>4, Numbers DEF WrittenInv
    <3>2. 0 \in want[h][i]
      BY <1>0, <1>1, <1>h, <3>1 DEF WrittenInv
    <3>3. f.cell[i] # Damaged
      BY <2>4 DEF Unchecked
    <3>4. chunk[h].cell[i] \in want[h][i] \cup {0, Damaged}
      BY <1>1, <2>4 DEF SumInv, Behind
    <3> QED
      BY <1>2, <1>6, <2>4, <3>2, <3>3, <3>4
  <2> QED
    BY <1>1, <2>1, <2>2, <2>3, <2>4, Numbers
<1>8. \A b \in Block :
        sums[b] = IF b \in blocks
                  THEN [i \in {j \in Cell : BlockOf(j) = b /\ j < length} |-> f.cell[i]]
                  ELSE entries[h].sums[b]
  BY DEF sums, new, Overlaid, Sum
<1>9. Wanted(want[h], entries[h].sums) /\ Wanted(want'[h], entries[h].sums)
  BY <1>1, <1>6, WantedGrows DEF SumInv, ChunkSums
<1>10. Wanted(want'[h], sums)
  <2> SUFFICES ASSUME NEW b \in Block, NEW i \in DOMAIN sums[b]
               PROVE  i \in Cell /\ BlockOf(i) = b /\ sums[b][i] \in want'[h][i]
    BY DEF Wanted
  <2>1. CASE b \in blocks
    <3>1. sums[b] = [j \in {k \in Cell : BlockOf(k) = b /\ k < length} |-> f.cell[j]]
      BY <1>8, <2>1
    <3>2. i \in Cell /\ BlockOf(i) = b /\ i < length /\ sums[b][i] = f.cell[i]
      BY <3>1
    <3> QED
      BY <1>7, <2>1, <3>2
  <2>2. CASE b \notin blocks
    BY <1>8, <1>9, <2>2 DEF Wanted
  <2> QED
    BY <2>1, <2>2
<1>11. ChunkSums(h)'
  BY <1>1, <1>4, <1>5, <1>6, <1>10, WantedGrows DEF SumInv, ChunkSums
<1>12. Behind(h)'
  <2>1. ASSUME NEW i \in Cell, i >= length PROVE f.cell[i] \in want'[h][i] \cup {0, Damaged}
    <3>1. i \in Int /\ i >= entries[h].length /\ ~(i < op.after)
      BY <1>1, <1>3, <2>1, Numbers
    <3>2. chunk[h].cell[i] \in want[h][i] \cup {0, Damaged}
      BY <1>1, <3>1 DEF SumInv, Behind
    <3> QED
      BY <1>2, <1>6, <3>1, <3>2
  <2> QED
    BY <1>5, <2>1 DEF Behind
<1>13. Written(op, sums)
  <2> SUFFICES ASSUME NEW b \in Block, NEW i \in DOMAIN sums[b], op.first <= i, i < op.after
               PROVE  sums[b][i] = op.value
    BY DEF Written
  <2>1. i \in Cell /\ BlockOf(i) = b
    BY <1>10 DEF Wanted
  <2>2. op.gap <= i /\ i < length
    BY <1>1, <1>3, <2>1, Numbers
  <2>3. b \in blocks
    BY <1>1, <1>3, <2>1, <2>2, Covered DEF blocks, Recomputed
  <2>4. sums[b] = [j \in {k \in Cell : BlockOf(k) = b /\ k < length} |-> f.cell[j]]
    BY <1>8, <2>3
  <2>5. sums[b][i] = f.cell[i]
    BY <2>4
  <2> QED
    BY <1>2, <2>1, <2>5
<1>14. OpSums'
  <2>1. /\ op'.h = h /\ op'.first = op.first /\ op'.after = op.after /\ op'.gap = op.gap
        /\ op'.value = op.value /\ op'.kind = "write" /\ op'.pc = "sums"
    BY <1>0, <1>1, <1>4, <1>h, OpGoesOn DEF Writing
  <2>2. Written(op', sums)
    BY <1>13, <2>1 DEF Written
  <2> QED
    BY <1>3, <1>5, <2>1, <2>2 DEF OpSums, WrittenInv, Writing, Copying
<1> QED
  BY <1>1, <1>4, <1>5, <1>11, <1>12, <1>14, OneSums

\* Where a mutation fails, the cells that it wrote are what they may show, with
\* the checksums that they had.
LEMMA SumFails ==
  ASSUME VersionInv, StoreInv, SumInv, WriteDataFails \/ ReadBackFails
  PROVE  SumInv'
<1>0. op.pc = "data"
  BY DEF WriteDataFails, ReadBackFails
<1>h. PICK h : h = op.h
  OBVIOUS
<1>1. /\ h \in Handle /\ WrittenInv
      /\ entries[h].there /\ meta[h].there /\ chunk[h].there
      /\ op.first \in Int /\ op.after \in Int
      /\ op.first \in 0..ChunkSize /\ op.after \in 0..ChunkSize /\ op.value \in 0..MaxOps
      /\ entries[h].length \in Int
      /\ chunk[h] \in Content /\ Clear(chunk[h]) /\ chunk \in [Handle -> Content]
      /\ EntryShape(entries[h]) /\ Total(entries) /\ Total(want)
  BY <1>0, <1>h, Mutating
<1>2. UNCHANGED <<meta, diskMeta, want>> /\ op' = NoOp
  BY DEF WriteDataFails, ReadBackFails, disks, history, Fails
<1>3. PICK n \in 0..ChunkSize :
        /\ n <= op.after
        /\ \/ chunk' = chunk
           \/ chunk' = [chunk EXCEPT ![h] = Filled(chunk[h], op.first, n, op.value)]
  <2>1. CASE WriteDataFails
    <3>1. PICK n \in op.first..(op.after - 1) : chunk' = [chunk EXCEPT ![h] =
              IF n = op.first THEN chunk[h]
              ELSE Filled(chunk[h], op.first, n, op.value)]
      BY <1>1, <1>h, <2>1 DEF WriteDataFails
    <3>2. n \in 0..ChunkSize /\ n <= op.after
      BY <1>1, Numbers
    <3>3. CASE n = op.first
      BY <1>1, <3>1, <3>2, <3>3
    <3>4. CASE n # op.first
      BY <3>1, <3>2, <3>4
    <3> QED
      BY <3>3, <3>4
  <2>2. CASE ReadBackFails
    <3>1. op.after <= op.after
      BY <1>1
    <3> QED
      BY <1>1, <1>h, <2>2, <3>1 DEF ReadBackFails
  <2> QED
    BY <2>1, <2>2
<1>4. /\ \A k \in Handle \ {h} : chunk'[k] = chunk[k]
      /\ \A i \in Cell : \/ chunk'[h].cell[i] = chunk[h].cell[i]
                         \/ /\ op.first <= i /\ i < op.after
                            /\ chunk'[h].cell[i] = op.value
  <2>1. CASE chunk' = chunk
    BY <2>1
  <2>2. CASE chunk' = [chunk EXCEPT ![h] = Filled(chunk[h], op.first, n, op.value)]
    <3>1. /\ chunk[h] \in Content /\ Clear(chunk[h]) /\ chunk[h].there
          /\ op.first \in 0..ChunkSize /\ op.value \in 0..MaxOps
      BY <1>1
    <3> DEFINE f == Filled(chunk[h], op.first, n, op.value)
    <3>2. \A i \in Cell : f.cell[i] = IF op.first <= i /\ i < n THEN op.value
                                      ELSE chunk[h].cell[i]
      BY <3>1, FilledContent
    <3>3. chunk' = [chunk EXCEPT ![h] = f]
      BY <2>2
    <3> HIDE DEF f
    <3>4. chunk'[h] = f /\ \A k \in Handle \ {h} : chunk'[k] = chunk[k]
      BY <1>1, <3>3
    <3>5. \A i \in Cell : i < n => i < op.after
      BY <1>1, <1>3, Numbers
    <3> QED
      BY <3>2, <3>4, <3>5
  <2> QED
    BY <1>3, <2>1, <2>2
<1>5. /\ \A k \in Handle \ {h} : entries'[k] = entries[k]
      /\ entries'[h].there = entries[h].there
      /\ entries'[h].sums = entries[h].sums
      /\ entries'[h].length \in Int /\ entries'[h].length >= entries[h].length
  <2>1. CASE entries' = entries
    <3>1. entries[h].length >= entries[h].length
      BY <1>1
    <3> QED
      BY <1>1, <2>1, <3>1
  <2>2. CASE ReadBackFails
    <3> DEFINE length == Greater(entries[h].length, op.after)
    <3>1. length \in Int /\ length >= entries[h].length
      BY <1>1, Numbers
    <3>2. entries' = [entries EXCEPT ![h] = [entries[h] EXCEPT !.length = length]]
      BY <1>1, <1>h, <2>2 DEF ReadBackFails, Total
    <3> HIDE DEF length
    <3>3. PICK e : /\ e = [entries[h] EXCEPT !.length = length]
                   /\ entries' = [entries EXCEPT ![h] = e]
      BY <3>2
    <3>4. e.there = entries[h].there /\ e.length = length /\ e.sums = entries[h].sums
      BY <1>1, <3>3, LongerEntry
    <3> QED
      BY <1>1, <3>1, <3>3, <3>4 DEF Total
  <2> QED
    <3>1. entries' = entries \/ ReadBackFails
      BY DEF WriteDataFails
    <3> QED
      BY <2>1, <2>2, <3>1
<1>6. ChunkSums(h)'
  BY <1>1, <1>2, <1>5 DEF SumInv, ChunkSums
<1>7. Behind(h)'
  <2>1. ASSUME NEW i \in Cell, i >= entries'[h].length
        PROVE  chunk'[h].cell[i] \in want[h][i] \cup {0, Damaged}
    <3>1. i >= entries[h].length
      BY <1>1, <1>5, <2>1, Numbers
    <3>2. chunk[h].cell[i] \in want[h][i] \cup {0, Damaged}
      BY <1>1, <3>1 DEF SumInv, Behind
    <3>3. op.first <= i /\ i < op.after => op.value \in want[h][i]
      BY <1>0, <1>1, <1>h DEF WrittenInv
    <3> QED
      BY <1>4, <3>2, <3>3
  <2> QED
    BY <1>2, <2>1 DEF Behind
<1> QED
  BY <1>1, <1>2, <1>4, <1>5, <1>6, <1>7, OneSums, IdleSums

\* The file of checksums gets those of the entry.
LEMMA SumWritesSums ==
  ASSUME VersionInv, StoreInv, SumInv, WriteSums \/ WriteSumsFails
  PROVE  SumInv'
<1>h. PICK h : h = op.h
  OBVIOUS
<1>0. op.pc = "sums"
  BY DEF WriteSums, WriteSumsFails
<1>1. /\ h \in Handle /\ Writing /\ WriteOp /\ ~Copying /\ WrittenInv
      /\ entries[h].there /\ meta[h].there
      /\ op.first \in Int /\ op.after \in Int /\ op.gap \in Int /\ op.gap <= op.first
      /\ entries[h].length \in Int
  BY <1>0, <1>h, Mutating
<1>2. UNCHANGED <<chunk, diskMeta, entries, want>>
  BY DEF WriteSums, WriteSumsFails, disks, history
<1>3. PICK blocks :
        /\ meta' = [meta EXCEPT ![h].sums = Overlaid(meta[h].sums, blocks, entries[h].sums)]
        /\ WriteSums => blocks = Recomputed(op, entries[h].length)
  <2>1. CASE WriteSums
    BY <1>h, <1>1, <2>1 DEF WriteSums, PutSums, VersionInv, ShapeInv, Total
  <2>2. CASE WriteSumsFails /\ ~WriteSums
    BY <1>h, <1>1, <2>2 DEF WriteSumsFails, PutSums, VersionInv, ShapeInv, Total
  <2> QED
    BY <2>1, <2>2
<1> DEFINE sums == Overlaid(meta[h].sums, blocks, entries[h].sums)
<1>4. /\ meta'[h].sums = sums /\ meta'[h].there = meta[h].there
      /\ \A k \in Handle \ {h} : meta'[k] = meta[k]
  <2>1. meta' = [meta EXCEPT ![h].sums = sums]
    BY <1>3
  <2> HIDE DEF sums
  <2> QED
    BY <1>1, <2>1, MetaSums
<1>5. Wanted(want[h], sums)
  BY <1>1, WantedOverlaid DEF SumInv, ChunkSums
<1> HIDE DEF sums
<1>6. ChunkSums(h)' /\ Behind(h)'
  BY <1>1, <1>2, <1>4, <1>5 DEF SumInv, ChunkSums, Behind
<1>7. OpSums'
  <2>1. CASE WriteSums
    <3>1. op' = [op EXCEPT !.pc = "sync"]
      BY <2>1 DEF WriteSums
    <3>2. /\ op'.h = h /\ op'.first = op.first /\ op'.after = op.after /\ op'.gap = op.gap
          /\ op'.value = op.value /\ op'.kind = "write" /\ op'.pc = "sync"
      BY <1>0, <1>1, <1>h, <3>1, OpGoesOn DEF Writing
    <3>3. op.after <= entries[h].length /\ Written(op, entries[h].sums)
      BY <1>0, <1>1, <1>h DEF WrittenInv
    <3>4. Written(op, sums)
      <4> SUFFICES ASSUME NEW b \in Block, NEW i \in DOMAIN sums[b], op.first <= i, i < op.after
                   PROVE  sums[b][i] = op.value
        BY DEF Written
      <4>1. i \in Cell /\ BlockOf(i) = b
        BY <1>5 DEF Wanted
      <4>2. op.gap <= i /\ i < entries[h].length
        BY <1>1, <3>3, <4>1, Numbers
      <4>3. b \in blocks
        BY <1>1, <1>3, <2>1, <4>1, <4>2, Covered DEF Recomputed
      <4>4. sums[b] = entries[h].sums[b]
        BY <4>3 DEF sums, Overlaid
      <4> QED
        BY <3>3, <4>4 DEF Written
    <3>5. Written(op', sums) /\ Written(op', entries[h].sums)
      BY <3>2, <3>3, <3>4 DEF Written
    <3> QED
      BY <1>2, <1>4, <3>2, <3>3, <3>5 DEF OpSums, WrittenInv, Writing, Copying
  <2>2. CASE WriteSumsFails
    BY <2>2, IdleSums DEF WriteSumsFails, Fails
  <2> QED
    BY <2>1, <2>2
<1> QED
  BY <1>1, <1>2, <1>4, <1>6, <1>7, OneSums DEF SumInv

\* The files of a new chunk have no checksums yet; a copy may show what its
\* source may.
LEMMA SumCreates ==
  ASSUME VersionInv, StoreInv, SumInv, NEW h \in Handle, NEW version \in NewVersion,
         NEW kind \in {"create", "copy"}, NEW from \in Handle,
         CreateFiles(h, version, kind, from)
  PROVE  SumInv'
<1>1. /\ ~entries[h].there /\ ~chunk[h].there /\ ~meta[h].there /\ ~diskMeta[h].there
      /\ kind = "copy" => from # h
      /\ UNCHANGED <<diskMeta, entries>>
      /\ chunk' = [chunk EXCEPT ![h].there = TRUE] /\ meta' = [meta EXCEPT ![h].there = TRUE]
      /\ op' = [kind |-> kind, pc |-> "header", h |-> h, version |-> version, from |-> from]
      /\ want' = [want EXCEPT ![h] = IF kind = "copy" THEN want[from] ELSE want[h]]
  BY DEF CreateFiles, disks, SumInv, Total
<1>2. /\ meta'[h].sums = NoSums /\ diskMeta[h].sums = NoSums /\ entries[h].sums = NoSums
      /\ meta'[h].there /\ \A k \in Handle \ {h} : meta'[k] = meta[k]
  <2>1. meta[h].sums = NoSums /\ diskMeta[h].sums = NoSums
    BY <1>1 DEF SumInv, ChunkSums
  <2>2. entries[h].sums = NoSums
    BY <1>1 DEF StoreInv, FilesInv, EntryOK, NoEntry
  <2>3. /\ meta'[h].sums = meta[h].sums /\ meta'[h].there
        /\ \A k \in Handle \ {h} : meta'[k] = meta[k]
    <3>1. PICK v : v = TRUE /\ meta' = [meta EXCEPT ![h].there = v]
      BY <1>1
    <3>2. Total(meta) /\ MetaShape(meta[h])
      BY DEF VersionInv, ShapeInv
    <3>3. meta'[h].there = v
      BY <3>1, <3>2 DEF Total, MetaShape
    <3>4. meta'[h].sums = meta[h].sums /\ \A k \in Handle \ {h} : meta'[k] = meta[k]
      BY <3>1, <3>2 DEF Total, MetaShape
    <3> QED
      BY <3>1, <3>3, <3>4
  <2> QED
    BY <2>1, <2>2, <2>3
<1>3. /\ Total(want') /\ \A k \in Handle \ {h} : want'[k] = want[k]
      /\ kind = "copy" => want'[h] = want[from]
  BY <1>1 DEF SumInv, Total
<1>4. chunk'[h].size = 0 /\ \A k \in Handle \ {h} : chunk'[k] = chunk[k]
  <2>1. chunk[h].size = 0 /\ chunk[h] \in Content /\ chunk \in [Handle -> Content]
    BY <1>1 DEF StoreInv, FilesInv, Clear
  <2>2. PICK f : f = [chunk[h] EXCEPT !.there = TRUE] /\ chunk' = [chunk EXCEPT ![h] = f]
    BY <1>1, <2>1
  <2>3. f.size = chunk[h].size
    BY <2>1, <2>2 DEF Content
  <2> QED
    BY <2>1, <2>2, <2>3
<1>5. ChunkSums(h)' /\ Behind(h)'
  BY <1>1, <1>2, WantedNone DEF ChunkSums, Behind
<1>6. OpSums'
  BY <1>1, <1>3, <1>4 DEF OpSums, Writing, Copying
<1> QED
  BY <1>1, <1>2, <1>3, <1>4, <1>5, <1>6, OneSums

\* The header of a new chunk is in its files, without a checksum.
LEMMA SumHeader ==
  ASSUME VersionInv, StoreInv, SumInv, WriteHeader \/ WriteHeaderFails
  PROVE  SumInv'
<1>h. PICK h : h = op.h
  OBVIOUS
<1>0. /\ op.pc = "header" /\ h \in Handle /\ CreateOp /\ Creating
      /\ ~entries[h].there /\ Total(entries) /\ Total(diskMeta) /\ meta[h].there
  BY <1>h, OpKinds DEF WriteHeader, WriteHeaderFails, StoreInv, OpRange, VersionInv, ShapeInv,
     CreateOp
<1>1. UNCHANGED <<chunk, want>>
  BY DEF WriteHeader, WriteHeaderFails, history
<1>2. /\ meta'[h].sums = meta[h].sums /\ meta'[h].there = meta[h].there
      /\ \A k \in Handle \ {h} : meta'[k] = meta[k]
  <2>1. meta' = meta \/ meta' = [meta EXCEPT ![h].version = op.version]
    BY <1>h DEF WriteHeader, WriteHeaderFails
  <2> QED
    BY <1>0, <2>1, MetaVersion
<1>3. diskMeta'[h] \in {diskMeta[h], meta'[h]} /\ \A k \in Handle \ {h} : diskMeta'[k] = diskMeta[k]
  <2>1. diskMeta' = diskMeta \/ diskMeta' = [diskMeta EXCEPT ![h] = meta'[h]]
    BY <1>h DEF WriteHeader, WriteHeaderFails, disks
  <2> QED
    BY <1>0, <2>1 DEF Total
<1>4. /\ \A k \in Handle \ {h} : entries'[k] = entries[k]
      /\ entries'[h].sums \in {entries[h].sums, NoSums}
  <2>1. CASE entries' = entries
    BY <2>1
  <2>2. CASE entries' # entries
    <3>1. PICK e : /\ e = [there |-> TRUE, version |-> op.version, length |-> 0, sums |-> NoSums]
                   /\ entries' = [entries EXCEPT ![h] = e]
      BY <1>h, <2>2 DEF WriteHeader, WriteHeaderFails, Open
    <3>2. e.sums = NoSums
      BY <3>1
    <3> QED
      BY <1>0, <3>1, <3>2 DEF Total
  <2> QED
    BY <2>1, <2>2
<1>5. ChunkSums(h)'
  BY <1>0, <1>1, <1>2, <1>3, <1>4, WantedNone DEF SumInv, ChunkSums
<1>6. Behind(h)'
  <2>1. chunk[h].size = 0 /\ Clear(chunk[h])
    BY <1>0, <1>h DEF SumInv, OpSums, StoreInv, FilesInv
  <2>2. \A i \in Cell : chunk[h].cell[i] = 0
    <3>1. \A i \in Cell : i >= 0
      BY Numbers
    <3>2. PICK f : f = chunk[h] /\ f.size = 0 /\ Clear(f)
      BY <2>1
    <3> QED
      BY <3>1, <3>2 DEF Clear
  <2> QED
    BY <1>1, <2>2 DEF Behind
<1>7. OpSums'
  <2>1. CASE op' = NoOp
    BY <2>1, IdleSums
  <2>2. CASE op' # NoOp
    <3>1. op' = [op EXCEPT !.pc = "copy"]
      BY <2>2 DEF WriteHeader, WriteHeaderFails, Open, Fails
    <3>2. op'.pc = "copy" /\ op'.h = op.h /\ op'.kind = op.kind /\ op'.from = op.from
      BY <1>0, <3>1, OpGoesOn
    <3>3. Copying' => Copying /\ ~Writing'
      BY <1>0, <3>2 DEF Writing, Copying
    <3>4. ~Writing'
      BY <1>0, <3>2 DEF Writing, Creating
    <3> QED
      BY <1>1, <3>2, <3>3, <3>4 DEF SumInv, OpSums
  <2> QED
    BY <2>1, <2>2
<1> QED
  BY <1>0, <1>1, <1>2, <1>3, <1>4, <1>5, <1>6, <1>7, OneSums DEF SumInv

\* The checksums of a copy are those of its source, whatever was read from it.
LEMMA SumCopies ==
  ASSUME VersionInv, StoreInv, SumInv, CopyData \/ CopyDataFails \/ CopySums
  PROVE  SumInv'
<1>h. PICK h : h = op.h
  OBVIOUS
<1>0. /\ op.pc \in {"copy", "copysums"} /\ h \in Handle /\ CreateOp /\ Creating /\ ~Writing
      /\ ~entries[h].there /\ op.from \in Handle /\ meta[h].there
      /\ Copying /\ want[h] = want[op.from] /\ chunk \in [Handle -> Content]
  <2>1. op.pc \in {"copy", "copysums"}
    BY DEF CopyData, CopyDataFails, CopySums
  <2>2. h \in Handle /\ CreateOp /\ Creating /\ ~Writing
    <3>1. CreateOp
      BY <2>1 DEF VersionInv, OpInv, NoOp, WriteOp, VersionOp
    <3> QED
      BY <1>h, <2>1, <3>1, OpKinds DEF CreateOp, Creating
  <2>3. ~entries[h].there /\ Copying
    BY <1>h, <2>1, <2>2, OpKinds DEF StoreInv, OpRange, Creating, Copying
  <2>4. op.from \in Handle /\ chunk \in [Handle -> Content]
    BY <2>3 DEF StoreInv, OpRange, FilesInv
  <2>5. want[h] = want[op.from]
    BY <1>h, <2>3 DEF SumInv, OpSums
  <2> QED
    BY <1>h, <2>1, <2>2, <2>3, <2>4, <2>5 DEF CreateOp
<1>1. UNCHANGED <<diskMeta, entries, want>>
  BY DEF CopyData, CopyDataFails, CopySums, disks, history
<1>2. \A k \in Handle \ {h} : chunk'[k] = chunk[k]
  <2>1. \/ chunk' = chunk
        \/ \E f : chunk' = [chunk EXCEPT ![h] = f]
    BY <1>h DEF CopyData, CopyDataFails, CopySums
  <2> QED
    BY <1>0, <2>1
<1>3. /\ meta'[h].there = meta[h].there /\ \A k \in Handle \ {h} : meta'[k] = meta[k]
      /\ meta'[h].sums \in {meta[h].sums, entries[op.from].sums}
  <2>1. CASE meta' = meta
    BY <2>1
  <2>2. CASE CopySums
    <3>1. meta' = [meta EXCEPT ![h].sums = entries[op.from].sums]
      BY <1>h, <2>2 DEF CopySums, CopiedSums
    <3> QED
      BY <1>0, <3>1, MetaSums
  <2> QED
    BY <2>1, <2>2 DEF CopyData, CopyDataFails
<1>4. Wanted(want[h], meta'[h].sums)
  <2>1. Wanted(want[h], entries[op.from].sums) /\ Wanted(want[h], meta[h].sums)
    BY <1>0 DEF SumInv, ChunkSums
  <2> QED
    BY <1>3, <2>1
<1>5. ChunkSums(h)' /\ Behind(h)'
  BY <1>0, <1>1, <1>3, <1>4 DEF SumInv, ChunkSums, Behind
<1>6. OpSums'
  <2>1. CASE op' = NoOp
    BY <2>1, IdleSums
  <2>2. CASE op' # NoOp
    <3>1. op' = [op EXCEPT !.pc = "copysums"] \/ op' = [op EXCEPT !.pc = "sync"]
      BY <2>2 DEF CopyData, CopyDataFails, CopySums, Fails
    <3>2. /\ op'.pc \in {"copysums", "sync"} /\ op'.h = op.h /\ op'.kind = op.kind
          /\ op'.from = op.from
      BY <1>0, <3>1, OpGoesOn
    <3>3. ~Writing'
      BY <1>0, <3>2 DEF Writing, Creating
    <3> QED
      BY <1>0, <1>1, <1>h, <3>2, <3>3 DEF OpSums
  <2> QED
    BY <2>1, <2>2
<1> QED
  BY <1>0, <1>1, <1>2, <1>3, <1>5, <1>6, OneSums DEF SumInv

\* A file of data is synced, or a step fails: no checksum changes.
LEMMA SumKept ==
  ASSUME VersionInv, StoreInv, SumInv, SyncData \/ SyncFails
  PROVE  SumInv'
<1>1. UNCHANGED <<chunk, meta, diskMeta, entries, want>>
  BY DEF SyncData, SyncFails, files, disks, history
<1>2. \A h \in Handle : ChunkSums(h)' /\ Behind(h)'
  BY <1>1 DEF SumInv, ChunkSums, Behind
<1>3. OpSums'
  <2>1. CASE SyncFails
    BY <2>1, IdleSums DEF SyncFails, Fails
  <2>2. CASE SyncData
    <3>1. op' = [op EXCEPT !.pc = "syncmeta"] /\ op.pc = "sync"
      BY <2>2 DEF SyncData
    <3>2. /\ op'.pc = "syncmeta" /\ op'.h = op.h /\ op'.kind = op.kind
          /\ WriteOp => /\ op'.first = op.first /\ op'.after = op.after /\ op'.value = op.value
          /\ CreateOp => op'.from = op.from
      BY <3>1, OpGoesOn
    <3>3. CASE Writing /\ WriteOp
      <4>1. /\ op.after <= entries[op.h].length
            /\ Written(op, entries[op.h].sums) /\ Written(op, meta[op.h].sums)
        BY <3>1, <3>3 DEF SumInv, OpSums, WrittenInv
      <4>2. /\ Written(op', entries[op.h].sums) /\ Written(op', meta[op.h].sums)
        BY <3>2, <3>3, <4>1 DEF Written
      <4>3. WrittenInv'
        BY <1>1, <3>2, <3>3, <4>1, <4>2 DEF WrittenInv
      <4> QED
        BY <3>2, <3>3, <4>3 DEF OpSums, Writing, Copying
    <3>4. CASE Creating /\ CreateOp
      <4>1. Copying' => Copying /\ want[op.h] = want[op.from]
        BY <3>1, <3>2 DEF Copying, SumInv, OpSums
      <4> QED
        BY <1>1, <3>2, <3>4, <4>1 DEF OpSums, Writing, Creating
    <3> QED
      BY <3>1, <3>3, <3>4, OpKinds
  <2> QED
    BY <2>1, <2>2
<1> QED
  BY <1>1, <1>2, <1>3 DEF SumInv

\* The file of checksums is synced.  What a mutation that is acknowledged
\* wrote is all that its cells may show then, and every checksum knows of it.
LEMMA SumSyncs ==
  ASSUME VersionInv, StoreInv, SumInv, SyncMeta
  PROVE  SumInv'
<1>h. PICK h : h = op.h
  OBVIOUS
<1>0. /\ op.pc = "syncmeta" /\ h \in Handle /\ op' = NoOp
      /\ Total(entries) /\ Total(diskMeta) /\ Total(want)
      /\ (Writing /\ WriteOp) \/ (Creating /\ CreateOp)
      /\ UNCHANGED <<chunk, meta>>
  BY <1>h, OpKinds DEF SyncMeta, Open, files, VersionInv, ShapeInv, SumInv
<1>1. diskMeta'[h] = meta[h] /\ \A k \in Handle \ {h} : diskMeta'[k] = diskMeta[k]
  BY <1>0, <1>h DEF SyncMeta, Total
<1>2. CASE op.kind = "copy"
  <2>1. PICK e : /\ e = [there |-> TRUE, version |-> op.version,
                         length |-> entries[op.from].length, sums |-> meta[h].sums]
                 /\ entries' = [entries EXCEPT ![h] = e]
    BY <1>2, <1>h DEF SyncMeta, Open
  <2>2. e.length = entries[op.from].length /\ e.sums = meta[h].sums
    BY <2>1
  <2>3. entries'[h] = e /\ \A k \in Handle \ {h} : entries'[k] = entries[k]
    BY <1>0, <2>1 DEF Total
  <2>4. want' = want
    BY <1>2 DEF SyncMeta, AcknowledgeCopy
  <2>5. ChunkSums(h)'
    BY <1>0, <1>1, <2>2, <2>3, <2>4 DEF SumInv, ChunkSums
  <2>6. Behind(h)'
    <3>1. chunk[h].size = entries[op.from].length /\ Clear(chunk[h])
      BY <1>0, <1>2, <1>h DEF StoreInv, OpRange, FilesInv, Copying
    <3>2. \A i \in Cell : i >= e.length => chunk[h].cell[i] = 0
      BY <2>2, <3>1 DEF Clear
    <3> QED
      BY <1>0, <2>3, <3>2 DEF Behind
  <2> QED
    BY <1>0, <1>1, <2>3, <2>4, <2>5, <2>6, OneSums, IdleSums
<1>3. CASE op.kind # "copy"
  <2>1. /\ entries' = entries
        /\ want' = [want EXCEPT ![h] = [i \in Cell |->
             IF i \in op.first..(op.after - 1) THEN {op.value} ELSE want[h][i]]]
    BY <1>0, <1>3, <1>h DEF SyncMeta, Acknowledge, Total
  <2>2. /\ Total(want') /\ \A k \in Handle \ {h} : want'[k] = want[k]
        /\ \A i \in Cell : want'[h][i] = IF i \in op.first..(op.after - 1) THEN {op.value}
                                         ELSE want[h][i]
    BY <1>0, <2>1 DEF Total
  <2>3. Writing
    BY <1>0, <1>3 DEF StoreInv, OpRange, Writing, Creating
  <2>4. /\ op.first \in Int /\ op.after \in Int /\ entries[h].there /\ entries[h].length \in Int
        /\ op.after <= entries[h].length
        /\ Written(op, entries[h].sums) /\ Written(op, meta[h].sums)
    <3>1. op.first \in 0..ChunkSize /\ op.after \in 0..ChunkSize /\ entries[h].there
      BY <1>h, <2>3 DEF StoreInv, OpRange
    <3>2. entries[h].length \in Int
      BY <1>0, <3>1 DEF StoreInv, FilesInv, EntryOK
    <3> QED
      BY <1>0, <1>h, <2>3, <3>1, <3>2 DEF SumInv, OpSums, WrittenInv
  <2>5. \A i \in Cell : /\ op.first <= i /\ i < op.after => want'[h][i] = {op.value}
                        /\ ~(op.first <= i /\ i < op.after) => want'[h][i] = want[h][i]
    BY <2>2, <2>4, Numbers
  <2>6. ASSUME NEW sums, Wanted(want[h], sums), Written(op, sums)
        PROVE  Wanted(want'[h], sums)
    BY <2>5, <2>6 DEF Wanted, Written
  <2>7. ChunkSums(h)'
    BY <1>0, <1>1, <2>1, <2>4, <2>6 DEF SumInv, ChunkSums
  <2>8. Behind(h)'
    <3>1. \A i \in Cell : i >= entries[h].length => ~(i < op.after)
      BY <2>4, Numbers
    <3> QED
      BY <1>0, <2>1, <2>5, <3>1 DEF SumInv, Behind
  <2> QED
    BY <1>0, <1>1, <2>1, <2>2, <2>7, <2>8, OneSums, IdleSums
<1> QED
  BY <1>2, <1>3

\* A version is written, synced and put in the table, beside the checksums.
LEMMA SumVersions ==
  ASSUME VersionInv, StoreInv, SumInv,
         SyncVersion \/ \E h \in Handle, v \in Version : BeginSetVersion(h, v)
  PROVE  SumInv'
<1>1. CASE SyncVersion
  <2>h. PICK h : h = op.h
    OBVIOUS
  <2>1. /\ h \in Handle /\ diskMeta' = [diskMeta EXCEPT ![h] = meta[h]]
        /\ entries' = [entries EXCEPT ![h].version = op.version]
        /\ op' = NoOp /\ UNCHANGED <<chunk, meta, want>>
        /\ Total(diskMeta) /\ Total(entries) /\ EntryShape(entries[h])
    BY <1>1, <2>h, OpKinds DEF SyncVersion, files, VersionInv, ShapeInv
  <2>2. diskMeta'[h] = meta[h] /\ \A k \in Handle \ {h} : diskMeta'[k] = diskMeta[k]
    BY <2>1 DEF Total
  <2>3. PICK t, v, n, w :
          /\ entries[h] = [there |-> t, version |-> v, length |-> n, sums |-> w]
          /\ entries'[h] = [there |-> t, version |-> op.version, length |-> n, sums |-> w]
    BY <2>1 DEF EntryShape, Total
  <2>4. /\ entries'[h].there = entries[h].there /\ entries'[h].length = entries[h].length
        /\ entries'[h].sums = entries[h].sums
    BY <2>3
  <2>5. \A k \in Handle \ {h} : entries'[k] = entries[k]
    BY <2>1 DEF Total
  <2>6. ChunkSums(h)' /\ Behind(h)'
    BY <2>1, <2>2, <2>4 DEF SumInv, ChunkSums, Behind
  <2> QED
    BY <2>1, <2>2, <2>5, <2>6, OneSums, IdleSums DEF SumInv
<1>2. ASSUME NEW h \in Handle, NEW v \in Version, BeginSetVersion(h, v)
      PROVE  SumInv'
  <2>1. /\ meta' = [meta EXCEPT ![h].version = v]
        /\ op' = [kind |-> "version", pc |-> "version", h |-> h, version |-> v]
        /\ UNCHANGED <<chunk, diskMeta, entries, want>>
    BY <1>2 DEF BeginSetVersion, disks
  <2>2. /\ meta'[h].sums = meta[h].sums /\ meta'[h].there = meta[h].there
        /\ \A k \in Handle \ {h} : meta'[k] = meta[k]
    BY <2>1, MetaVersion
  <2>3. ChunkSums(h)' /\ Behind(h)'
    BY <2>1, <2>2 DEF SumInv, ChunkSums, Behind
  <2>4. OpSums'
    BY <2>1 DEF OpSums, Writing, Copying
  <2> QED
    BY <2>1, <2>2, <2>3, <2>4, OneSums DEF SumInv
<1> QED
  BY <1>1, <1>2

\* A chunk is removed; what is on the disk of its checksums may come back.
LEMMA SumRemoves ==
  ASSUME VersionInv, StoreInv, SumInv, NEW h \in Handle, Remove(h)
  PROVE  SumInv'
<1>1. /\ ~Creating /\ chunk \in [Handle -> Content]
      /\ entries' = [entries EXCEPT ![h] = NoEntry]
      /\ chunk' = [chunk EXCEPT ![h] = NoFile] /\ meta' = [meta EXCEPT ![h] = NoMeta]
      /\ op' = NoOp \/ (op' = op /\ (op.pc = "idle" \/ op.h # h))
      /\ UNCHANGED <<diskMeta, want>>
  BY DEF Remove, disks, StoreInv, FilesInv
<1>2. /\ entries'[h] = NoEntry /\ meta'[h] = NoMeta
      /\ \A k \in Handle \ {h} : /\ entries'[k] = entries[k] /\ meta'[k] = meta[k]
                                 /\ chunk'[k] = chunk[k]
  BY <1>1 DEF VersionInv, ShapeInv, Total
<1>3. ChunkSums(h)' /\ Behind(h)'
  BY <1>1, <1>2, WantedNone DEF SumInv, ChunkSums, Behind, NoEntry, NoMeta
<1>4. OpSums'
  <2>1. CASE op' = NoOp
    BY <2>1, IdleSums
  <2>2. CASE op' = op /\ op.pc = "idle"
    BY <2>2 DEF OpSums, Writing, Copying
  <2>3. CASE op' = op /\ op.pc # "idle" /\ op.h # h
    <3>1. op.h \in Handle /\ ~Copying /\ op.pc # "header"
      BY <1>1, <2>3, OpKinds
    <3>2. ~Copying' /\ op'.pc # "header" /\ Writing' = Writing
      BY <2>3, <3>1 DEF Copying, Writing
    <3>3. /\ entries'[op'.h] = entries[op.h] /\ meta'[op'.h] = meta[op.h]
          /\ want'[op'.h] = want[op.h]
      BY <1>1, <1>2, <2>3, <3>1
    <3>4. Writing => WrittenInv
      BY DEF SumInv, OpSums
    <3>5. Writing => WrittenInv'
      BY <2>3, <3>3, <3>4 DEF WrittenInv
    <3> QED
      BY <3>2, <3>5 DEF OpSums
  <2> QED
    BY <1>1, <2>1, <2>2, <2>3
<1> QED
  BY <1>1, <1>2, <1>3, <1>4, OneSums DEF SumInv

\* A damaged cell: the checksum of its block is not of it.
LEMMA SumRots ==
  ASSUME VersionInv, StoreInv, SumInv, NEW h \in Handle, NEW i \in Cell, Rot(h, i)
  PROVE  SumInv'
<1>1. /\ chunk' = [chunk EXCEPT ![h].cell[i] = Damaged] /\ op' = NoOp
      /\ UNCHANGED <<meta, diskMeta, entries, want>>
      /\ chunk \in [Handle -> Content] /\ chunk[h] \in Content
  BY DEF Rot, Fails, history, StoreInv, FilesInv
<1>2. \A k \in Cell : chunk'[h].cell[k] \in {chunk[h].cell[k], Damaged}
  <2>1. PICK c : c = [chunk[h].cell EXCEPT ![i] = Damaged]
    OBVIOUS
  <2>2. \A k \in Cell : c[k] \in {chunk[h].cell[k], Damaged}
    BY <1>1, <2>1 DEF Content
  <2>3. chunk'[h].cell = c
    BY <1>1, <2>1 DEF Content
  <2> QED
    BY <2>2, <2>3
<1>3. \A k \in Handle \ {h} : chunk'[k] = chunk[k]
  BY <1>1
<1>4. ChunkSums(h)' /\ Behind(h)'
  BY <1>1, <1>2 DEF SumInv, ChunkSums, Behind
<1> QED
  BY <1>1, <1>3, <1>4, OneSums, IdleSums DEF SumInv

\* Steps that change only the list of corrupt chunks.
LEMMA SumStays ==
  ASSUME SumInv,
         \/ \E h \in Handle, b \in Block : ReadDamaged(h, b)
         \/ ClearCorrupt
         \/ UNCHANGED vars
  PROVE  SumInv'
<1>1. UNCHANGED <<chunk, meta, diskMeta, entries, op, want>>
  BY DEF ReadDamaged, ClearCorrupt, vars, files, disks, history
<1>2. \A h \in Handle : ChunkSums(h)' /\ Behind(h)'
  BY <1>1 DEF SumInv, ChunkSums, Behind
<1>3. OpSums'
  BY <1>1 DEF SumInv, OpSums, WrittenInv, Writing, Copying
<1> QED
  BY <1>1, <1>2, <1>3 DEF SumInv

\* What a crash leaves of the checksums was on the disk, or in memory.
LEMMA SumCrashes ==
  ASSUME VersionInv, StoreInv, SumInv, Crash
  PROVE  SumInv'
<1>1. PICK m \in [Handle -> UNION {MetaLeft(diskMeta[h], meta[h]) : h \in Handle}] :
        /\ \A h \in Handle : m[h] \in MetaLeft(diskMeta[h], meta[h])
        /\ meta' = m /\ diskMeta' = m
  BY DEF Crash
<1>2. entries' = [h \in Handle |-> NoEntry] /\ op' = NoOp /\ want' = want
  BY DEF Crash, Fails, history
<1>3. ASSUME NEW h \in Handle
      PROVE  Wanted(want[h], m[h].sums) /\ (~m[h].there => m[h].sums = NoSums)
  <2>1. CASE m[h] = NoMeta
    BY <2>1, WantedNone DEF NoMeta
  <2>2. CASE m[h] = diskMeta[h]
    BY <2>2 DEF SumInv, ChunkSums
  <2>3. CASE m[h] \notin {NoMeta, diskMeta[h]}
    <3>1. PICK v, kept : m[h] = [there |-> TRUE, version |-> v,
                                 sums |-> Overlaid(diskMeta[h].sums, kept, meta[h].sums)]
      BY <1>1, <2>3 DEF MetaLeft
    <3>2. m[h].there /\ m[h].sums = Overlaid(diskMeta[h].sums, kept, meta[h].sums)
      BY <3>1
    <3> QED
      BY <3>2, WantedOverlaid DEF SumInv, ChunkSums
  <2> QED
    BY <2>1, <2>2, <2>3
<1>4. \A h \in Handle : ChunkSums(h)' /\ Behind(h)'
  <2>1. NoEntry.sums = NoSums /\ ~NoEntry.there
    BY DEF NoEntry
  <2> QED
    BY <1>1, <1>2, <1>3, <2>1, WantedNone DEF ChunkSums, Behind
<1> QED
  BY <1>2, <1>4, IdleSums DEF SumInv

\* The checksums of an entry that Scan makes are those of its file.
LEMMA SumScans ==
  ASSUME VersionInv, StoreInv, SumInv, Scan
  PROVE  SumInv'
<1>1. /\ entries' = [h \in Handle |-> Opened(h)]
      /\ meta' = [h \in Handle |-> IF chunk[h].there THEN meta[h] ELSE NoMeta]
      /\ UNCHANGED <<chunk, diskMeta, want>> /\ op' = NoOp
  BY DEF Scan, disks, history, VersionInv, OpInv
<1>2. ASSUME NEW h \in Handle
      PROVE  Wanted(want[h], Opened(h).sums)
  <2>1. CASE Opened(h) = NoEntry
    BY <2>1, WantedNone DEF NoEntry
  <2>2. CASE Opened(h) # NoEntry
    <3>1. Opened(h).sums = [b \in Block |-> IF b * BlockSize < chunk[h].size
                                            THEN meta[h].sums[b] ELSE NoSum]
      BY <2>2 DEF Opened
    <3>2. \A b \in Block : Opened(h).sums[b] \in {meta[h].sums[b], NoSum}
      BY <3>1
    <3> QED
      BY <3>2 DEF SumInv, ChunkSums, Wanted, NoSum
  <2> QED
    BY <2>1, <2>2
<1>3. ASSUME NEW h \in Handle PROVE ChunkSums(h)'
  <2>1. meta'[h] \in {meta[h], NoMeta} /\ entries'[h] = Opened(h)
    BY <1>1
  <2>2. NoMeta.sums = NoSums
    BY DEF NoMeta
  <2> QED
    BY <1>1, <1>2, <2>1, <2>2, WantedNone DEF SumInv, ChunkSums
<1>4. ASSUME NEW h \in Handle PROVE Behind(h)'
  <2>1. CASE Opened(h) = NoEntry
    BY <1>1, <2>1 DEF Behind, NoEntry
  <2>2. CASE Opened(h) # NoEntry
    <3>1. Opened(h).length = chunk[h].size /\ Clear(chunk[h])
      BY <2>2 DEF Opened, StoreInv, FilesInv
    <3>2. \A i \in Cell : i >= Opened(h).length => chunk[h].cell[i] = 0
      BY <3>1 DEF Clear
    <3> QED
      BY <1>1, <3>2 DEF Behind
  <2> QED
    BY <2>1, <2>2
<1> QED
  BY <1>1, <1>3, <1>4, IdleSums DEF SumInv

\* Every step keeps the checksums right.
LEMMA SumStep == VersionInv /\ StoreInv /\ SumInv /\ [Next]_vars => SumInv'
<1> SUFFICES ASSUME VersionInv, StoreInv, SumInv, [Next]_vars PROVE SumInv'
  OBVIOUS
<1>1. ASSUME NEW h \in Handle, Request(h) PROVE SumInv'
  <2>1. CASE (\E r \in Range : BeginWrite(h, r)) \/ (\E from \in PadFrom : BeginPad(h, from))
    BY <2>1, SumBegins
  <2>2. CASE \E v \in Version : BeginSetVersion(h, v)
    BY <2>2, SumVersions
  <2>3. CASE \E v \in NewVersion : \/ CreateFiles(h, v, "create", h)
                                    \/ \E from \in Handle : CreateFiles(h, v, "copy", from)
    BY <2>3, SumCreates
  <2>4. CASE Remove(h)
    BY <2>4, SumRemoves
  <2>5. CASE \E b \in Block : ReadDamaged(h, b)
    BY <2>5, SumStays
  <2> QED
    BY <1>1, <2>1, <2>2, <2>3, <2>4, <2>5 DEF Request
<1>2. CASE \E h \in Handle, i \in Cell : Rot(h, i)
  BY <1>2, SumRots
<1>3. CASE MutationStep
  BY <1>3, SumWrites, SumFails, SumWritesSums DEF MutationStep
<1>4. CASE CreateStep
  BY <1>4, SumHeader, SumCopies DEF CreateStep
<1>5. CASE SyncStep
  BY <1>5, SumKept, SumSyncs, SumVersions DEF SyncStep
<1>6. CASE ClearCorrupt \/ UNCHANGED vars
  BY <1>6, SumStays
<1>7. CASE Crash
  BY <1>7, SumCrashes
<1>8. CASE Scan
  BY <1>8, SumScans
<1> QED
  BY <1>1, <1>2, <1>3, <1>4, <1>5, <1>6, <1>7, <1>8 DEF Next

\* A block that verifies shows only what was written to it, through any
\* failures, damage, crashes and copies: ChunkStore::Read returns nothing else,
\* but for what RecomputeBlocks found unverified, or damaged behind the end of
\* the data, and took a checksum of.
THEOREM ReadsTrue == Spec => []ReadTrue
<1>1. SumInv => ReadTrue
  <2> SUFFICES ASSUME SumInv, NEW h \in Handle, NEW b \in Block, Verifies(h, b),
                      NEW i \in Cell, BlockOf(i) = b, i < entries[h].length
               PROVE  chunk[h].cell[i] \in want[h][i]
    BY DEF ReadTrue
  <2> QED
    BY Shown
<1>2. Init => VersionInv /\ StoreInv /\ SumInv
  BY InitVersionInv, StoreInit, SumInit
<1>3. VersionInv /\ StoreInv /\ SumInv /\ [Next]_vars => (VersionInv /\ StoreInv /\ SumInv)'
  BY StepKeeps, StoreStep, SumStep
<1> QED
  BY <1>1, <1>2, <1>3, PTL DEF Spec

-----------------------------------------------------------------------------
(* What was acknowledged can be read.                                      *)

\* The same cells of block b are in front of both ends.
Extent(b, m, n) == \A i \in Cell : BlockOf(i) = b => (i < m <=> i < n)

\* Two files have the same in block b.
Alike(c, d, b) ==
  /\ Extent(b, c.size, d.size)
  /\ \A i \in Cell : BlockOf(i) = b /\ i < d.size => c.cell[i] = d.cell[i]

\* No cell of the block is damaged.
Intact(d, b) == \A i \in Cell : BlockOf(i) = b /\ i < d.size => d.cell[i] # Damaged

\* The checksum is that of the block, unless the block is damaged.
Taken(sum, d, b) == Intact(d, b) => sum = Sum(d.cell, b, d.size)

\* A block that nothing unfinished has touched is the same in memory and on the
\* disk, and so are its checksums, wherever they are kept: c and d are the
\* files of data, m and k those of checksums, and e is the entry.
CleanBlock(c, d, m, k, e, b) ==
  (c.there \/ d.there) /\ (m.there \/ k.there) =>
    /\ c.there => Alike(c, d, b)
    /\ m.there => Taken(m.sums[b], d, b)
    /\ Taken(k.sums[b], d, b)
    /\ e.there => Extent(b, e.length, c.size) /\ Taken(e.sums[b], d, b)

Clean(h) ==
  \A b \in Block : b \notin dirty[h] =>
    CleanBlock(chunk[h], diskChunk[h], meta[h], diskMeta[h], entries[h], b)

\* What is on the disk is enough to open the chunk, as long as was acknowledged.
Lasting(h) ==
  /\ chunk[h].there /\ diskChunk[h].there /\ meta[h].there /\ diskMeta[h].there
  /\ meta[h].version # 0 /\ diskMeta[h].version # 0
  /\ acked[h].length <= chunk[h].size /\ acked[h].length <= diskChunk[h].size
  /\ up => entries[h].there /\ acked[h].length <= entries[h].length

Lasts(h) ==
  /\ acked[h].length \in Nat
  /\ acked[h].length > 0 => Lasting(h)
  /\ entries[h].there => meta[h].version # 0

\* The blocks that a mutation touches, and how far their checksums are.
WriteTouch ==
  /\ Touched(op.gap, op.after) \subseteq dirty[op.h] /\ op.gap <= entries[op.h].length
  /\ op.pc # "data" =>
       \A b \in Touched(op.gap, entries[op.h].length) :
         entries[op.h].sums[b] = Sum(chunk[op.h].cell, b, entries[op.h].length)
  /\ op.pc \in {"sync", "syncmeta"} =>
       \A b \in Touched(op.gap, entries[op.h].length) :
         meta[op.h].sums[b] = entries[op.h].sums[b]
  /\ op.pc = "syncmeta" => diskChunk[op.h] = chunk[op.h]

\* How far a copy is.
CopyTouch ==
  /\ dirty[op.h] = Block /\ op.from # op.h
  /\ op.pc # "header" => meta[op.h].version # 0
  /\ op.pc \in {"copysums", "sync", "syncmeta"} =>
       chunk[op.h] = CopyOf(chunk[op.from], entries[op.from].length)
  /\ op.pc \in {"sync", "syncmeta"} => meta[op.h].sums = entries[op.from].sums
  /\ op.pc = "syncmeta" => diskChunk[op.h] = chunk[op.h]

OpTouch ==
  /\ Writing => WriteTouch
  /\ Creating => acked[op.h].length = 0
  /\ Copying => CopyTouch

DurableInv ==
  /\ Total(dirty) /\ \A h \in Handle : Clean(h) /\ Lasts(h)
  /\ OpTouch

-----------------------------------------------------------------------------
\* The checksum of the same cells, with the same in them.
LEMMA SameSum ==
  ASSUME NEW b, NEW m, NEW n, NEW u, NEW v, Extent(b, m, n),
         \A i \in Cell : BlockOf(i) = b /\ i < n => u[i] = v[i]
  PROVE  Sum(u, b, m) = Sum(v, b, n)
<1>1. {j \in Cell : BlockOf(j) = b /\ j < m} = {j \in Cell : BlockOf(j) = b /\ j < n}
  BY DEF Extent
<1>2. \A i \in {j \in Cell : BlockOf(j) = b /\ j < n} : u[i] = v[i]
  OBVIOUS
<1> QED
  BY <1>1, <1>2 DEF Sum

\* A block behind the end has no checksum.
LEMMA EmptySum ==
  ASSUME NEW b, NEW n, NEW u, \A i \in Cell : BlockOf(i) = b => ~(i < n)
  PROVE  Sum(u, b, n) = NoSum
<1>1. {j \in Cell : BlockOf(j) = b /\ j < n} = {}
  OBVIOUS
<1> QED
  BY <1>1 DEF Sum, NoSum

\* Files that have the same in a block have the same checksum of it.
LEMMA AlikeTaken ==
  ASSUME NEW b, NEW c, NEW d, Alike(c, d, b)
  PROVE  /\ Alike(d, c, b)
         /\ Intact(c, b) <=> Intact(d, b)
         /\ \A s : Taken(s, c, b) <=> Taken(s, d, b)
<1>1. Alike(d, c, b)
  BY DEF Alike, Extent
<1>2. Intact(c, b) <=> Intact(d, b)
  BY DEF Alike, Extent, Intact
<1>3. Sum(c.cell, b, c.size) = Sum(d.cell, b, d.size)
  BY SameSum DEF Alike
<1> QED
  BY <1>1, <1>2, <1>3 DEF Taken

\* And so are two that are both like a third.
LEMMA AlikeTwice ==
  ASSUME NEW b, NEW c, NEW d, NEW f, Alike(c, d, b), Alike(d, f, b)
  PROVE  Alike(c, f, b)
  BY DEF Alike, Extent

\* A file has in a block what it has itself.
LEMMA AlikeSame == \A b, c : Alike(c, c, b)
  BY DEF Alike, Extent

\* The cells of a block.
LEMMA BlockSpan ==
  ASSUME NEW i \in Cell
  PROVE  /\ BlockOf(i) \in Block /\ BlockOf(i) \in Nat
         /\ BlockOf(i) * BlockSize <= i /\ i < (BlockOf(i) + 1) * BlockSize
<1>1. i \in Nat /\ BlockSize \in Nat \ {0}
  BY Numbers
<1>2. /\ i \div BlockSize \in Nat
      /\ (i \div BlockSize) * BlockSize <= i /\ i < (i \div BlockSize + 1) * BlockSize
  BY <1>1
<1> QED
  BY <1>2 DEF BlockOf, Block

\* The empty store.
LEMMA DurableInit == Init => DurableInv
<1> SUFFICES ASSUME Init PROVE DurableInv
  OBVIOUS
<1>1. /\ \A h \in Handle : chunk[h] = NoFile /\ diskChunk[h] = NoFile
      /\ \A h \in Handle : meta[h] = NoMeta /\ diskMeta[h] = NoMeta /\ entries[h] = NoEntry
      /\ dirty = [h \in Handle |-> {}] /\ op = NoOp
      /\ \A h \in Handle : acked[h].length = 0
  BY DEF Init
<1>2. NoFile.there = FALSE /\ NoEntry.there = FALSE
  BY DEF NoFile, NoEntry
<1>3. ASSUME NEW h \in Handle PROVE Clean(h) /\ Lasts(h)
  <2>1. Clean(h)
    BY <1>1, <1>2 DEF Clean, CleanBlock
  <2>2. Lasts(h)
    BY <1>1, <1>2 DEF Lasts
  <2> QED
    BY <2>1, <2>2
<1> QED
  BY <1>1, <1>3 DEF DurableInv, Total, OpTouch, NoOp, Writing, Creating, Copying

\* No operation is in progress.
LEMMA IdleTouch == ASSUME op' = NoOp PROVE OpTouch'
  BY DEF OpTouch, NoOp, Writing, Creating, Copying

\* All but one chunk are as they were.
LEMMA OneDurable ==
  ASSUME DurableInv, NEW h \in Handle, Total(dirty'), Clean(h)', Lasts(h)', OpTouch',
         up' = up,
         \A k \in Handle \ {h} :
           /\ dirty'[k] = dirty[k] /\ entries'[k] = entries[k]
           /\ chunk'[k] = chunk[k] /\ diskChunk'[k] = diskChunk[k]
           /\ meta'[k] = meta[k] /\ diskMeta'[k] = diskMeta[k]
           /\ acked'[k].length = acked[k].length
  PROVE  DurableInv'
<1>1. ASSUME NEW k \in Handle \ {h} PROVE Clean(k)' /\ Lasts(k)'
  <2>1. Clean(k) /\ Lasts(k)
    BY DEF DurableInv
  <2>2. Clean(k)'
    BY <2>1 DEF Clean
  <2>3. Lasts(k)'
    BY <2>1 DEF Lasts, Lasting
  <2> QED
    BY <2>2, <2>3
<1> QED
  BY <1>1 DEF DurableInv

\* The blocks that a mutation will touch are not clean from now on.
LEMMA DurableBegins ==
  ASSUME VersionInv, StoreInv, DurableInv, NEW h \in Handle,
         (\E r \in Range : BeginWrite(h, r)) \/ (\E from \in PadFrom : BeginPad(h, from))
  PROVE  DurableInv'
<1>1. PICK first, after, gap, value : Begin(h, first, after, gap, value) /\ gap <= entries[h].length
  BY Begun
<1>2. /\ op' = [kind |-> "write", pc |-> "data", h |-> h, first |-> first,
                after |-> after, gap |-> gap, value |-> value]
      /\ dirty' = [dirty EXCEPT ![h] = dirty[h] \cup Touched(gap, after)]
      /\ UNCHANGED <<chunk, diskChunk, meta, diskMeta, entries, up, acked>>
  BY <1>1 DEF Begin, files, disks, DurableInv, Total
<1>3. /\ Total(dirty') /\ dirty'[h] = dirty[h] \cup Touched(gap, after)
      /\ \A k \in Handle \ {h} : dirty'[k] = dirty[k]
  BY <1>2 DEF DurableInv, Total
<1>4. Clean(h)' /\ Lasts(h)'
  <2>1. Clean(h) /\ Lasts(h)
    BY DEF DurableInv
  <2>2. Clean(h)'
    BY <1>2, <1>3, <2>1 DEF Clean
  <2>3. Lasts(h)'
    BY <1>2, <2>1 DEF Lasts, Lasting
  <2> QED
    BY <2>2, <2>3
<1>5. OpTouch'
  <2>1. WriteTouch'
    BY <1>1, <1>2, <1>3 DEF WriteTouch
  <2> QED
    BY <1>2, <2>1 DEF OpTouch, Writing, Creating, Copying
<1> QED
  BY <1>2, <1>3, <1>4, <1>5, OneDurable

\* A mutation, up to where it stops, changes nothing in a block that it does not
\* touch, not even where the block ends.
LEMMA Apart ==
  ASSUME NEW f \in Content, NEW g \in Content, NEW m \in Int, m <= f.size,
         NEW gap \in Int, NEW after \in Int, gap <= m,
         g.size \in {f.size, Greater(f.size, after)},
         \A i \in Cell : g.cell[i] = f.cell[i] \/ (gap <= i /\ i < after),
         NEW b, b \notin Touched(gap, after)
  PROVE  Alike(g, f, b) /\ Extent(b, Greater(m, after), m) /\ Extent(b, m, m)
<1>1. f.size \in Int /\ Cell \subseteq Int
  BY Numbers DEF Content
<1>2. \A i \in Cell : BlockOf(i) = b => ~(gap <= i /\ i < after)
  BY Covered
<1>3. Extent(b, Greater(m, after), m) /\ Extent(b, m, m)
  BY <1>1, <1>2, Numbers DEF Extent
<1>4. Extent(b, g.size, f.size)
  <2>1. Extent(b, Greater(f.size, after), f.size)
    BY <1>1, <1>2, Numbers DEF Extent
  <2> QED
    BY <2>1 DEF Extent
<1> QED
  BY <1>2, <1>3, <1>4 DEF Alike

\* A clean block stays clean when the files get longer somewhere else.
LEMMA CleanLonger ==
  ASSUME NEW b, NEW c, NEW d, NEW m, NEW k, NEW e, NEW f, NEW n, NEW s,
         c.there, m.there, e.there,
         CleanBlock(c, d, m, k, e, b), Alike(f, c, b), Extent(b, n, e.length), f.there,
         s = e.sums[b] \/ s = Sum(f.cell, b, n)
  PROVE  Alike(f, d, b) /\ Extent(b, n, f.size) /\ Taken(s, d, b)
<1>1. /\ Alike(c, d, b) /\ Extent(b, e.length, c.size) /\ Taken(e.sums[b], d, b)
  BY DEF CleanBlock
<1>2. Alike(f, d, b)
  BY <1>1, AlikeTwice
<1>3. Extent(b, n, f.size)
  BY <1>1 DEF Extent, Alike
<1>4. CASE s = Sum(f.cell, b, n)
  <2>1. Extent(b, n, d.size)
    BY <1>2, <1>3 DEF Extent, Alike
  <2>2. Sum(f.cell, b, n) = Sum(d.cell, b, d.size)
    BY <1>2, <2>1, SameSum DEF Alike
  <2> QED
    BY <1>2, <1>3, <1>4, <2>2 DEF Taken
<1> QED
  BY <1>1, <1>2, <1>3, <1>4

\* The file and the entry of a mutation that has written the cells up to after.
LEMMA DurableLonger ==
  ASSUME VersionInv, StoreInv, DurableInv, NEW h \in Handle, entries[h].there,
         NEW gap \in Int, NEW after \in Int, gap <= entries[h].length,
         Touched(gap, after) \subseteq dirty[h],
         NEW f \in Content, f.there, f.size \in {chunk[h].size, Greater(chunk[h].size, after)},
         \A i \in Cell : f.cell[i] = chunk[h].cell[i] \/ (gap <= i /\ i < after),
         chunk'[h] = f,
         entries'[h].length \in {entries[h].length, Greater(entries[h].length, after)},
         \A b \in Block : \/ entries'[h].sums[b] = entries[h].sums[b]
                          \/ entries'[h].sums[b] = Sum(f.cell, b, entries'[h].length),
         entries'[h].there,
         UNCHANGED <<diskChunk, meta, diskMeta, dirty, acked, up>>
  PROVE  Clean(h)' /\ Lasts(h)'
<1>1. /\ entries[h].length \in Int /\ entries[h].length <= chunk[h].size
      /\ chunk[h].size \in Int /\ chunk[h].there /\ meta[h].there /\ chunk[h] \in Content
      /\ Clean(h) /\ Lasts(h)
  BY Numbers DEF StoreInv, FilesInv, EntryOK, Content, VersionInv, EntryInv, DurableInv
<1>2. ASSUME NEW b \in Block, b \notin dirty[h]
      PROVE  CleanBlock(f, diskChunk[h], meta[h], diskMeta[h], entries'[h], b)
  <2>1. CleanBlock(chunk[h], diskChunk[h], meta[h], diskMeta[h], entries[h], b)
    BY <1>1, <1>2 DEF Clean
  <2>2. b \notin Touched(gap, after)
    BY <1>2
  <2>3. PICK c, m : c = chunk[h] /\ m = entries[h].length
    OBVIOUS
  <2>4. Alike(f, c, b) /\ Extent(b, Greater(m, after), m) /\ Extent(b, m, m)
    BY <1>1, <2>2, <2>3, Apart
  <2>5. Alike(f, chunk[h], b) /\ Extent(b, entries'[h].length, entries[h].length)
    BY <2>3, <2>4
  <2>6. PICK n, s : n = entries'[h].length /\ s = entries'[h].sums[b]
    OBVIOUS
  <2>7. s = entries[h].sums[b] \/ s = Sum(f.cell, b, n)
    BY <2>6
  <2>8. Extent(b, n, entries[h].length)
    BY <2>5, <2>6
  <2>9. Alike(f, diskChunk[h], b) /\ Extent(b, n, f.size) /\ Taken(s, diskChunk[h], b)
    BY <1>1, <2>1, <2>5, <2>7, <2>8, CleanLonger
  <2> QED
    BY <1>1, <2>1, <2>6, <2>9 DEF CleanBlock
<1>3. Clean(h)'
  BY <1>2 DEF Clean
<1>4. f.size \in Int /\ f.size >= chunk[h].size
      /\ entries'[h].length \in Int /\ entries'[h].length >= entries[h].length
  BY <1>1, Numbers
<1>5. Lasts(h)'
  <2>1. acked[h].length \in Nat
    BY <1>1 DEF Lasts
  <2>2. ASSUME acked[h].length > 0 PROVE Lasting(h)'
    <3>1. Lasting(h)
      BY <1>1, <2>2 DEF Lasts
    <3> QED
      BY <1>1, <1>4, <2>1, <3>1 DEF Lasting
  <2>3. meta[h].version # 0
    BY <1>1 DEF Lasts
  <2> QED
    BY <2>1, <2>2, <2>3 DEF Lasts
<1> QED
  BY <1>3, <1>5

\* The data of a mutation is written, or some of it, or it cannot be read back.
LEMMA DurableWrites ==
  ASSUME VersionInv, StoreInv, SumInv, DurableInv, WriteData \/ WriteDataFails \/ ReadBackFails
  PROVE  DurableInv'
<1>h. PICK h : h = op.h
  OBVIOUS
<1>0. op.pc = "data"
  BY DEF WriteData, WriteDataFails, ReadBackFails
<1>1. /\ h \in Handle /\ Writing /\ WriteOp
      /\ entries[h].there /\ meta[h].there /\ chunk[h].there
      /\ op.first \in Int /\ op.after \in Int /\ op.gap \in Int /\ op.gap <= op.first
      /\ op.first \in 0..ChunkSize /\ op.after \in 0..ChunkSize /\ op.value \in 0..MaxOps
      /\ entries[h].length \in Int
      /\ chunk[h] \in Content /\ Clear(chunk[h]) /\ chunk \in [Handle -> Content]
      /\ EntryShape(entries[h]) /\ Total(entries)
  BY <1>0, <1>h, Mutating
<1>2. /\ UNCHANGED <<diskChunk, meta, diskMeta, dirty, acked, up>>
      /\ Touched(op.gap, op.after) \subseteq dirty[h] /\ op.gap <= entries[h].length
      /\ Total(dirty)
  BY <1>1, <1>h DEF WriteData, WriteDataFails, ReadBackFails, disks, history, DurableInv,
     OpTouch, WriteTouch
<1>3. PICK n \in 0..ChunkSize :
        /\ n <= op.after /\ (n = op.after \/ WriteDataFails)
        /\ \/ chunk' = chunk /\ WriteDataFails
           \/ chunk' = [chunk EXCEPT ![h] = Filled(chunk[h], op.first, n, op.value)]
  <2>1. CASE WriteDataFails
    <3>1. PICK n \in op.first..(op.after - 1) : chunk' = [chunk EXCEPT ![h] =
              IF n = op.first THEN chunk[h]
              ELSE Filled(chunk[h], op.first, n, op.value)]
      BY <1>1, <1>h, <2>1 DEF WriteDataFails
    <3>2. n \in 0..ChunkSize /\ n <= op.after
      BY <1>1, Numbers
    <3>3. CASE n = op.first
      BY <1>1, <2>1, <3>1, <3>2, <3>3
    <3>4. CASE n # op.first
      BY <2>1, <3>1, <3>2, <3>4
    <3> QED
      BY <3>3, <3>4
  <2>2. CASE WriteData \/ ReadBackFails
    <3>1. op.after <= op.after
      BY <1>1
    <3> QED
      BY <1>1, <1>h, <2>2, <3>1 DEF ReadBackFails, WriteData
  <2> QED
    BY <2>1, <2>2
<1>4. PICK f \in Content :
        /\ chunk'[h] = f /\ f.there /\ \A k \in Handle \ {h} : chunk'[k] = chunk[k]
        /\ f.size \in {chunk[h].size, Greater(chunk[h].size, n)}
        /\ \A i \in Cell : f.cell[i] = chunk[h].cell[i] \/ (op.gap <= i /\ i < n)
        /\ WriteDataFails \/ f = Filled(chunk[h], op.first, op.after, op.value)
  <2>1. CASE chunk' = chunk /\ WriteDataFails
    BY <1>1, <2>1
  <2>2. CASE chunk' = [chunk EXCEPT ![h] = Filled(chunk[h], op.first, n, op.value)]
    <3>1. PICK c, first, value : c = chunk[h] /\ first = op.first /\ value = op.value
      OBVIOUS
    <3>2. c \in Content /\ Clear(c) /\ c.there /\ first \in 0..ChunkSize /\ value \in 0..MaxOps
      BY <1>1, <3>1
    <3>3. PICK f : f = Filled(c, first, n, value)
      OBVIOUS
    <3>4. /\ f \in Content /\ f.there /\ f.size = Greater(c.size, n)
          /\ \A i \in Cell : f.cell[i] = IF first <= i /\ i < n THEN value ELSE c.cell[i]
      <4>1. /\ Filled(c, first, n, value) \in Content /\ Filled(c, first, n, value).there
            /\ Filled(c, first, n, value).size = Greater(c.size, n)
            /\ \A i \in Cell : Filled(c, first, n, value).cell[i] =
                                IF first <= i /\ i < n THEN value ELSE c.cell[i]
        BY <3>2, FilledContent, ZenonT(40)
      <4> QED
        BY <3>3, <4>1, ZenonT(40)
    <3>5. chunk'[h] = f /\ \A k \in Handle \ {h} : chunk'[k] = chunk[k]
      BY <1>1, <2>2, <3>1, <3>3
    <3>6. \A i \in Cell : first <= i => op.gap <= i
      BY <1>1, <3>1, Numbers
    <3>7. WriteDataFails \/ f = Filled(chunk[h], op.first, op.after, op.value)
      BY <1>3, <3>1, <3>3
    <3> QED
      BY <3>1, <3>4, <3>5, <3>6, <3>7
  <2> QED
    BY <1>3, <2>1, <2>2
<1>5. /\ \A k \in Handle \ {h} : entries'[k] = entries[k]
      /\ entries'[h].there
      /\ entries'[h].length \in {entries[h].length, Greater(entries[h].length, n)}
      /\ \A b \in Block : \/ entries'[h].sums[b] = entries[h].sums[b]
                          \/ entries'[h].sums[b] = Sum(f.cell, b, entries'[h].length)
      /\ WriteData => \A b \in Touched(op.gap, entries'[h].length) \cap Block :
           entries'[h].sums[b] = Sum(f.cell, b, entries'[h].length)
  <2>1. CASE WriteDataFails
    <3>1. entries' = entries /\ ~WriteData
      BY <1>0, <2>1 DEF WriteDataFails, WriteData, Fails, NoOp
    <3> QED
      BY <1>1, <3>1
  <2>2. CASE ReadBackFails
    <3>1. PICK length : length = Greater(entries[h].length, op.after)
      OBVIOUS
    <3>2. PICK e : /\ e = [entries[h] EXCEPT !.length = length]
                   /\ entries' = [entries EXCEPT ![h] = e]
      BY <1>1, <1>h, <2>2, <3>1 DEF ReadBackFails, Total
    <3>3. e.there = entries[h].there /\ e.length = length /\ e.sums = entries[h].sums
      BY <1>1, <3>2, LongerEntry
    <3>4. entries'[h] = e /\ \A k \in Handle \ {h} : entries'[k] = entries[k]
      BY <1>1, <3>2 DEF Total
    <3>5. ~WriteData
      BY <1>0, <2>2 DEF ReadBackFails, WriteData, Fails, NoOp
    <3>6. n = op.after \/ WriteDataFails
      BY <1>3
    <3>7. CASE WriteDataFails
      BY <2>1, <3>7
    <3> QED
      BY <1>1, <3>1, <3>3, <3>4, <3>5, <3>6, <3>7
  <2>3. CASE WriteData /\ ~WriteDataFails
    <3>1. PICK length : length = Greater(entries[h].length, op.after)
      OBVIOUS
    <3>2. PICK new : new = [b \in Block |-> Sum(f.cell, b, length)]
      OBVIOUS
    <3>3. PICK sums : sums = Overlaid(entries[h].sums, Recomputed(op, length), new)
      OBVIOUS
    <3>4. PICK e : /\ e = [there |-> entries[h].there, version |-> entries[h].version,
                           length |-> length, sums |-> sums]
                   /\ entries' = [entries EXCEPT ![h] = e]
      <4>1. f = Filled(chunk[h], op.first, op.after, op.value)
        BY <1>4, <2>3
      <4>2. entries' = [entries EXCEPT ![h] =
              [there |-> @.there, version |-> @.version, length |-> length,
               sums |-> Overlaid(@.sums, Recomputed(op, length), new)]]
        BY <1>h, <2>3, <3>1, <3>2, <4>1 DEF WriteData
      <4> QED
        BY <1>1, <3>3, <4>2 DEF Total
    <3>5. e.there = entries[h].there /\ e.length = length /\ e.sums = sums
      BY <3>4
    <3>6. entries'[h] = e /\ \A k \in Handle \ {h} : entries'[k] = entries[k]
      BY <1>1, <3>4 DEF Total
    <3>7. \A b \in Block : sums[b] = IF b \in Touched(op.gap, length)
                                     THEN Sum(f.cell, b, length) ELSE entries[h].sums[b]
      BY <3>2, <3>3 DEF Overlaid, Recomputed
    <3>8. n = op.after
      BY <1>3, <2>3
    <3> QED
      BY <1>1, <3>1, <3>5, <3>6, <3>7, <3>8
  <2> QED
    BY <2>1, <2>2, <2>3
<1>6. Touched(op.gap, n) \subseteq dirty[h]
  <2>1. op.gap..(n - 1) \subseteq op.gap..(op.after - 1)
    BY <1>1, <1>3, Numbers
  <2>2. Touched(op.gap, n) \subseteq Touched(op.gap, op.after)
    BY <2>1 DEF Touched
  <2> QED
    BY <1>2, <2>2
<1>7. Clean(h)' /\ Lasts(h)'
  <2>1. PICK gap \in Int, after \in Int : gap = op.gap /\ after = n
    BY <1>1, Numbers
  <2>2. /\ gap <= entries[h].length /\ Touched(gap, after) \subseteq dirty[h]
        /\ f.there /\ f.size \in {chunk[h].size, Greater(chunk[h].size, after)}
        /\ \A i \in Cell : f.cell[i] = chunk[h].cell[i] \/ (gap <= i /\ i < after)
        /\ entries'[h].length \in {entries[h].length, Greater(entries[h].length, after)}
    BY <1>2, <1>4, <1>5, <1>6, <2>1
  <2> QED
    BY <1>1, <1>2, <1>4, <1>5, <2>1, <2>2, DurableLonger
<1>8. OpTouch'
  <2>1. CASE op' = NoOp
    BY <2>1, IdleTouch
  <2>2. CASE op' # NoOp
    <3>1. WriteData /\ op' = [op EXCEPT !.pc = "sums"]
      BY <2>2 DEF WriteData, WriteDataFails, ReadBackFails, Fails
    <3>2. /\ op'.h = h /\ op'.after = op.after /\ op'.gap = op.gap
          /\ op'.kind = "write" /\ op'.pc = "sums"
      BY <1>0, <1>1, <1>h, <3>1, OpGoesOn DEF Writing
    <3>3. op.gap <= entries'[h].length /\ entries'[h].length <= ChunkSize
          /\ entries'[h].length \in Int
      <4>1. /\ chunk[h].size \in 0..ChunkSize /\ entries[h].length <= chunk[h].size
        BY <1>1 DEF Content, StoreInv, FilesInv, EntryOK
      <4> QED
        BY <1>1, <1>2, <1>3, <1>5, <4>1, Numbers
    <3>4. Touched(op.gap, entries'[h].length) \subseteq Block
      <4>1. op.gap >= 0
        BY <1>1, <1>h DEF StoreInv, OpRange
      <4>2. op.gap..(entries'[h].length - 1) \subseteq Cell
        BY <1>1, <3>3, <4>1, Numbers DEF Cell
      <4> QED
        BY <4>2 DEF Touched, Block, BlockOf
    <3>5. WriteTouch'
      BY <1>2, <1>4, <1>5, <3>1, <3>2, <3>3, <3>4 DEF WriteTouch
    <3> QED
      BY <3>2, <3>5 DEF OpTouch, Writing, Creating, Copying
  <2> QED
    BY <2>1, <2>2
<1> QED
  BY <1>1, <1>2, <1>4, <1>5, <1>7, <1>8, OneDurable

\* The checksums that a mutation writes are those of the entry, which are as good.
LEMMA DurableWritesSums ==
  ASSUME VersionInv, StoreInv, SumInv, DurableInv, WriteSums \/ WriteSumsFails
  PROVE  DurableInv'
<1>h. PICK h : h = op.h
  OBVIOUS
<1>0. op.pc = "sums"
  BY DEF WriteSums, WriteSumsFails
<1>1. /\ h \in Handle /\ Writing /\ WriteOp
      /\ entries[h].there /\ meta[h].there /\ chunk[h].there
      /\ op.gap \in Int /\ entries[h].length \in Int
  BY <1>0, <1>h, Mutating
<1>2. UNCHANGED <<chunk, diskChunk, diskMeta, entries, dirty, acked, up>>
  BY DEF WriteSums, WriteSumsFails, disks, history
<1>3. PICK blocks :
        /\ meta' = [meta EXCEPT ![h].sums = Overlaid(meta[h].sums, blocks, entries[h].sums)]
        /\ WriteSums => blocks = Touched(op.gap, entries[h].length)
  <2>1. CASE WriteSums
    BY <1>h, <1>1, <2>1 DEF WriteSums, PutSums, VersionInv, ShapeInv, Total, Recomputed
  <2>2. CASE WriteSumsFails /\ ~WriteSums
    BY <1>h, <1>1, <2>2 DEF WriteSumsFails, PutSums, VersionInv, ShapeInv, Total
  <2> QED
    BY <2>1, <2>2
<1>4. PICK sums : sums = Overlaid(meta[h].sums, blocks, entries[h].sums)
  OBVIOUS
<1>5. /\ meta'[h].sums = sums /\ meta'[h].there = meta[h].there
      /\ meta'[h].version = meta[h].version
      /\ \A k \in Handle \ {h} : meta'[k] = meta[k]
  BY <1>1, <1>3, <1>4 DEF VersionInv, ShapeInv, Total, MetaShape
<1>6. \A b \in Block : sums[b] = IF b \in blocks THEN entries[h].sums[b] ELSE meta[h].sums[b]
  BY <1>4 DEF Overlaid
<1>7. Clean(h)'
  <2> SUFFICES ASSUME NEW b \in Block, b \notin dirty[h]
               PROVE  CleanBlock(chunk[h], diskChunk[h], meta'[h], diskMeta[h], entries[h], b)
    BY <1>2 DEF Clean
  <2>1. CleanBlock(chunk[h], diskChunk[h], meta[h], diskMeta[h], entries[h], b)
    BY <1>1 DEF DurableInv, Clean
  <2>2. meta'[h].sums[b] \in {entries[h].sums[b], meta[h].sums[b]}
    BY <1>5, <1>6
  <2> QED
    BY <1>1, <1>5, <2>1, <2>2 DEF CleanBlock
<1>8. Lasts(h)'
  BY <1>1, <1>2, <1>5 DEF DurableInv, Lasts, Lasting
<1>9. OpTouch'
  <2>1. CASE op' = NoOp
    BY <2>1, IdleTouch
  <2>2. CASE op' # NoOp
    <3>1. WriteSums /\ op' = [op EXCEPT !.pc = "sync"]
      BY <2>2 DEF WriteSums, WriteSumsFails, Fails
    <3>2. /\ op'.h = h /\ op'.after = op.after /\ op'.gap = op.gap
          /\ op'.kind = "write" /\ op'.pc = "sync"
      BY <1>0, <1>1, <1>h, <3>1, OpGoesOn DEF Writing
    <3>3. WriteTouch
      BY <1>1 DEF DurableInv, OpTouch
    <3>4. Touched(op.gap, entries[h].length) \subseteq Block
      <4>1. op.gap >= 0 /\ entries[h].length <= ChunkSize
        BY <1>1, <1>h, Numbers DEF StoreInv, OpRange, FilesInv, EntryOK, Content
      <4>2. op.gap..(entries[h].length - 1) \subseteq Cell
        BY <1>1, <4>1, Numbers DEF Cell
      <4> QED
        BY <4>2 DEF Touched, Block, BlockOf
    <3>5. \A b \in Touched(op.gap, entries[h].length) : meta'[h].sums[b] = entries[h].sums[b]
      BY <1>3, <1>5, <1>6, <3>1, <3>4
    <3>6. WriteTouch'
      BY <1>0, <1>2, <1>h, <3>2, <3>3, <3>5 DEF WriteTouch
    <3> QED
      BY <3>2, <3>6 DEF OpTouch, Writing, Creating, Copying
  <2> QED
    BY <2>1, <2>2
<1> QED
  BY <1>1, <1>2, <1>5, <1>7, <1>8, <1>9, OneDurable DEF DurableInv

\* What a chunk may have as its version is another, and nothing else.
LEMMA AckedVersions ==
  ASSUME VersionInv, NEW h \in Handle, NEW v,
         \/ acked' = [acked EXCEPT ![h].versions = v]
         \/ acked' = [acked EXCEPT ![h].versions = acked[h].versions \cup v]
  PROVE  \A k \in Handle : acked'[k].length = acked[k].length
<1>1. PICK w : acked' = [acked EXCEPT ![h].versions = w]
  OBVIOUS
<1> QED
  BY <1>1 DEF VersionInv, ShapeInv, Total, AckedShape

\* More or less of one chunk is acknowledged.
LEMMA AckedLength ==
  ASSUME VersionInv, NEW h \in Handle, NEW n, acked' = [acked EXCEPT ![h].length = n]
  PROVE  /\ acked'[h].length = n
         /\ \A k \in Handle \ {h} : acked'[k].length = acked[k].length
  BY DEF VersionInv, ShapeInv, Total, AckedShape

\* The files of a new chunk are empty; all of a copy is still to be written.
LEMMA DurableCreates ==
  ASSUME VersionInv, StoreInv, SumInv, DurableInv, NEW h \in Handle, NEW version \in NewVersion,
         NEW kind \in {"create", "copy"}, NEW from \in Handle,
         CreateFiles(h, version, kind, from)
  PROVE  DurableInv'
<1>1. /\ ~entries[h].there /\ ~chunk[h].there /\ ~meta[h].there
      /\ ~diskChunk[h].there /\ ~diskMeta[h].there
      /\ kind = "copy" => from # h
      /\ UNCHANGED <<diskChunk, diskMeta, entries, up>>
      /\ chunk' = [chunk EXCEPT ![h].there = TRUE] /\ meta' = [meta EXCEPT ![h].there = TRUE]
      /\ op' = [kind |-> kind, pc |-> "header", h |-> h, version |-> version, from |-> from]
      /\ dirty' = [dirty EXCEPT ![h] = IF kind = "copy" THEN Block ELSE {}]
      /\ acked' = [acked EXCEPT ![h].versions = {version}]
  BY DEF CreateFiles, disks
<1>2. /\ meta'[h].sums = NoSums /\ diskMeta[h].sums = NoSums
      /\ \A k \in Handle \ {h} : meta'[k] = meta[k]
  <2>1. meta[h].sums = NoSums /\ diskMeta[h].sums = NoSums
    BY <1>1 DEF SumInv, ChunkSums
  <2>2. meta'[h].sums = meta[h].sums /\ \A k \in Handle \ {h} : meta'[k] = meta[k]
    <3>1. PICK v : v = TRUE /\ meta' = [meta EXCEPT ![h].there = v]
      BY <1>1
    <3> QED
      BY <3>1 DEF VersionInv, ShapeInv, Total, MetaShape
  <2> QED
    BY <2>1, <2>2
<1>3. /\ Total(dirty') /\ \A k \in Handle \ {h} : dirty'[k] = dirty[k]
      /\ kind = "copy" => dirty'[h] = Block
  BY <1>1 DEF DurableInv, Total
<1>4. chunk'[h].size = 0 /\ \A k \in Handle \ {h} : chunk'[k] = chunk[k]
  <2>1. chunk[h].size = 0 /\ chunk[h] \in Content /\ chunk \in [Handle -> Content]
    BY <1>1 DEF StoreInv, FilesInv, Clear
  <2>2. PICK f : f = [chunk[h] EXCEPT !.there = TRUE] /\ chunk' = [chunk EXCEPT ![h] = f]
    BY <1>1, <2>1
  <2>3. f.size = chunk[h].size
    BY <2>1, <2>2 DEF Content
  <2> QED
    BY <2>1, <2>2, <2>3
<1>5. diskChunk[h].size = 0
  BY <1>1 DEF StoreInv, FilesInv, Clear
<1>6. \A k \in Handle : acked'[k].length = acked[k].length
  BY <1>1, AckedVersions
<1>7. acked[h].length = 0
  BY <1>1 DEF DurableInv, Lasts, Lasting
<1>8. Clean(h)'
  <2> SUFFICES ASSUME NEW b \in Block
               PROVE  CleanBlock(chunk'[h], diskChunk[h], meta'[h], diskMeta[h], entries[h], b)
    BY <1>1 DEF Clean
  <2>1. \A i \in Cell : ~(i < 0)
    BY Numbers
  <2>2. Alike(chunk'[h], diskChunk[h], b)
    BY <1>4, <1>5, <2>1 DEF Alike, Extent
  <2>3. Sum(diskChunk[h].cell, b, diskChunk[h].size) = NoSum
    BY <1>5, <2>1, EmptySum
  <2>4. Taken(NoSums[b], diskChunk[h], b)
    BY <2>3 DEF Taken, NoSums
  <2> QED
    BY <1>1, <1>2, <2>2, <2>4 DEF CleanBlock
<1>9. Lasts(h)'
  BY <1>1, <1>6, <1>7 DEF Lasts
<1>10. OpTouch'
  BY <1>1, <1>3, <1>6, <1>7 DEF OpTouch, CopyTouch, Writing, Creating, Copying
<1> QED
  BY <1>1, <1>2, <1>3, <1>4, <1>6, <1>8, <1>9, <1>10, OneDurable

\* A chunk with its header is empty, and so are its checksums.
LEMMA DurableHeader ==
  ASSUME VersionInv, StoreInv, SumInv, DurableInv, WriteHeader \/ WriteHeaderFails
  PROVE  DurableInv'
<1>h. PICK h : h = op.h
  OBVIOUS
<1>0. /\ op.pc = "header" /\ h \in Handle /\ CreateOp /\ Creating /\ up
      /\ Total(entries) /\ Total(diskMeta) /\ meta[h].there
  BY <1>h, OpKinds DEF WriteHeader, WriteHeaderFails, VersionInv, ShapeInv, CreateOp
<1>1. /\ ~entries[h].there /\ chunk[h].there /\ chunk[h].size = 0 /\ op.version \in Version
      /\ acked[h].length = 0
  BY <1>0, <1>h DEF StoreInv, OpRange, SumInv, OpSums, DurableInv, OpTouch
<1>2. UNCHANGED <<chunk, diskChunk, dirty, acked, up>>
  BY DEF WriteHeader, WriteHeaderFails, history, disks
<1>3. /\ meta'[h].sums = meta[h].sums /\ meta'[h].there = meta[h].there
      /\ \A k \in Handle \ {h} : meta'[k] = meta[k]
  <2>1. meta' = meta \/ meta' = [meta EXCEPT ![h].version = op.version]
    BY <1>h DEF WriteHeader, WriteHeaderFails
  <2> QED
    BY <1>0, <2>1, MetaVersion
<1>4. WriteHeader => meta'[h].version # 0
  <2>1. ASSUME WriteHeader PROVE meta'[h].version = op.version
    BY <1>0, <1>h, <2>1 DEF WriteHeader, VersionInv, ShapeInv, Total, MetaShape
  <2> QED
    BY <1>1, <2>1, Numbers
<1>5. diskMeta'[h] \in {diskMeta[h], meta'[h]} /\ \A k \in Handle \ {h} : diskMeta'[k] = diskMeta[k]
  <2>1. diskMeta' = diskMeta \/ diskMeta' = [diskMeta EXCEPT ![h] = meta'[h]]
    BY <1>h DEF WriteHeader, WriteHeaderFails, disks
  <2> QED
    BY <1>0, <2>1 DEF Total
<1>6. /\ \A k \in Handle \ {h} : entries'[k] = entries[k]
      /\ entries'[h].there => /\ entries'[h].length = 0 /\ entries'[h].sums = NoSums
                              /\ WriteHeader
  <2>1. CASE entries' = entries
    BY <1>1, <2>1
  <2>2. CASE entries' # entries
    <3>1. PICK e : /\ e = [there |-> TRUE, version |-> op.version, length |-> 0, sums |-> NoSums]
                   /\ entries' = [entries EXCEPT ![h] = e]
                   /\ WriteHeader
      BY <1>h, <2>2 DEF WriteHeader, WriteHeaderFails, Open
    <3>2. e.sums = NoSums /\ e.length = 0
      BY <3>1
    <3> QED
      BY <1>0, <3>1, <3>2 DEF Total
  <2> QED
    BY <2>1, <2>2
<1>7. Clean(h)'
  <2> SUFFICES ASSUME NEW b \in Block, b \notin dirty[h]
               PROVE  CleanBlock(chunk[h], diskChunk[h], meta'[h], diskMeta'[h], entries'[h], b)
    BY <1>2 DEF Clean
  <2>1. CleanBlock(chunk[h], diskChunk[h], meta[h], diskMeta[h], entries[h], b)
    BY <1>0 DEF DurableInv, Clean
  <2>2. /\ Alike(chunk[h], diskChunk[h], b)
        /\ Taken(meta'[h].sums[b], diskChunk[h], b) /\ Taken(diskMeta'[h].sums[b], diskChunk[h], b)
    BY <1>0, <1>1, <1>3, <1>5, <2>1 DEF CleanBlock
  <2>3. \A i \in Cell : ~(i < 0)
    BY Numbers
  <2>4. Extent(b, 0, chunk[h].size)
    BY <1>1 DEF Extent
  <2>5. Taken(NoSums[b], diskChunk[h], b)
    <3>1. \A i \in Cell : BlockOf(i) = b => ~(i < diskChunk[h].size)
      BY <1>1, <2>2, <2>3 DEF Alike, Extent
    <3>2. Sum(diskChunk[h].cell, b, diskChunk[h].size) = NoSum
      BY <3>1, EmptySum
    <3> QED
      BY <3>2 DEF Taken, NoSums
  <2> QED
    BY <1>6, <2>2, <2>4, <2>5 DEF CleanBlock
<1>8. Lasts(h)'
  BY <1>1, <1>2, <1>4, <1>6 DEF Lasts
<1>9. OpTouch'
  <2>1. CASE op' = NoOp
    BY <2>1, IdleTouch
  <2>2. CASE op' # NoOp
    <3>1. op' = [op EXCEPT !.pc = "copy"] /\ WriteHeader /\ op.kind # "create"
      BY <2>2 DEF WriteHeader, WriteHeaderFails, Open, Fails
    <3>2. op'.pc = "copy" /\ op'.h = h /\ op'.kind = op.kind /\ op'.from = op.from
          /\ op.kind = "copy"
      BY <1>0, <1>h, <3>1, OpGoesOn DEF CreateOp
    <3>3. dirty[h] = Block /\ op.from # h
      BY <1>0, <1>h, <3>2 DEF DurableInv, OpTouch, CopyTouch, Copying
    <3>4. CopyTouch'
      BY <1>2, <1>4, <3>1, <3>2, <3>3 DEF CopyTouch
    <3> QED
      BY <1>1, <1>2, <3>2, <3>4 DEF OpTouch, Writing, Creating, Copying
  <2> QED
    BY <2>1, <2>2
<1> QED
  BY <1>0, <1>2, <1>3, <1>5, <1>6, <1>7, <1>8, <1>9, OneDurable DEF DurableInv

\* A copy that is being made: no block of it is clean, and nothing is acknowledged.
LEMMA CopyGoesOn ==
  ASSUME VersionInv, StoreInv, DurableInv,
         op.pc \in {"copy", "copysums", "sync", "syncmeta"}, Creating
  PROVE  /\ op.h \in Handle /\ CreateOp /\ Copying /\ ~Writing /\ CopyTouch /\ up
         /\ ~entries[op.h].there /\ op.from \in Handle /\ entries[op.from].there
         /\ chunk[op.h].there /\ meta[op.h].there
         /\ acked[op.h].length = 0 /\ op.from # op.h /\ op.kind = "copy"
<1>1. CreateOp /\ ~Writing /\ op.h \in Handle /\ up
  BY OpKinds DEF CreateOp, Creating
<1>2. ~entries[op.h].there /\ chunk[op.h].there /\ op.kind = "copy"
  BY <1>1 DEF StoreInv, OpRange, CreateOp
<1>3. Copying
  BY <1>2 DEF Copying, Creating
<1>4. op.from \in Handle /\ entries[op.from].there
  BY <1>3 DEF StoreInv, OpRange
<1>5. CopyTouch /\ acked[op.h].length = 0
  BY <1>3 DEF DurableInv, OpTouch
<1> QED
  BY <1>1, <1>2, <1>3, <1>4, <1>5 DEF CopyTouch, CreateOp

\* A copy gets its data and its checksums.
LEMMA DurableCopies ==
  ASSUME VersionInv, StoreInv, DurableInv, CopyData \/ CopyDataFails \/ CopySums
  PROVE  DurableInv'
<1>h. PICK h, from : h = op.h /\ from = op.from
  OBVIOUS
<1>0. op.pc \in {"copy", "copysums"} /\ Creating
  <2>1. op.pc \in {"copy", "copysums"}
    BY DEF CopyData, CopyDataFails, CopySums
  <2> QED
    BY <2>1, OpKinds
<1>1. /\ h \in Handle /\ CreateOp /\ Copying /\ CopyTouch
      /\ ~entries[h].there /\ from \in Handle /\ from # h
      /\ acked[h].length = 0 /\ op.kind = "copy" /\ chunk \in [Handle -> Content]
  BY <1>0, <1>h, CopyGoesOn DEF StoreInv, FilesInv
<1>2. UNCHANGED <<diskChunk, diskMeta, entries, dirty, acked, up>>
  BY DEF CopyData, CopyDataFails, CopySums, disks, history
<1>3. \A k \in Handle \ {h} : chunk'[k] = chunk[k]
  <2>1. \/ chunk' = chunk
        \/ \E f : chunk' = [chunk EXCEPT ![h] = f]
    BY <1>h DEF CopyData, CopyDataFails, CopySums
  <2> QED
    BY <1>1, <2>1
<1>4. /\ meta'[h].there = meta[h].there /\ meta'[h].version = meta[h].version
      /\ \A k \in Handle \ {h} : meta'[k] = meta[k]
      /\ CopySums => meta'[h].sums = entries[from].sums
  <2>1. CASE meta' = meta /\ ~CopySums
    BY <2>1
  <2>2. CASE CopySums
    <3>1. PICK s : s = entries[from].sums /\ meta' = [meta EXCEPT ![h].sums = s]
      BY <1>h, <2>2 DEF CopySums, CopiedSums
    <3> QED
      BY <1>1, <3>1 DEF VersionInv, ShapeInv, Total, MetaShape
  <2> QED
    BY <2>1, <2>2 DEF CopyData, CopyDataFails
<1>5. Clean(h)'
  BY <1>1, <1>2, <1>h DEF Clean, CopyTouch
<1>6. Lasts(h)'
  BY <1>1, <1>2 DEF Lasts
<1>7. OpTouch'
  <2>1. CASE op' = NoOp
    BY <2>1, IdleTouch
  <2>2. CASE op' # NoOp
    <3>1. \/ CopyData /\ op' = [op EXCEPT !.pc = "copysums"]
          \/ CopySums /\ op' = [op EXCEPT !.pc = "sync"]
      BY <2>2 DEF CopyData, CopyDataFails, CopySums, Fails
    <3>2. /\ op'.pc \in {"copysums", "sync"} /\ op'.h = h /\ op'.kind = "copy"
          /\ op'.from = from /\ (CopyData \/ CopySums) /\ (op'.pc = "sync" => CopySums)
      <4>1. op.pc # "idle"
        BY <1>0
      <4>2. CASE CopyData /\ op' = [op EXCEPT !.pc = "copysums"]
        BY <1>1, <1>h, <4>1, <4>2, OpGoesOn
      <4>3. CASE CopySums /\ op' = [op EXCEPT !.pc = "sync"]
        BY <1>1, <1>h, <4>1, <4>3, OpGoesOn
      <4> QED
        BY <3>1, <4>2, <4>3
    <3>3. meta'[h].version # 0 /\ dirty[h] = Block
      BY <1>0, <1>1, <1>4, <1>h DEF CopyTouch
    <3>4. chunk'[h] = CopyOf(chunk[from], entries[from].length)
      <4>1. CASE CopyData
        <5>1. PICK f : /\ f = CopyOf(chunk[from], entries[from].length)
                       /\ chunk' = [chunk EXCEPT ![h] = f]
          BY <1>h, <4>1 DEF CopyData
        <5> QED
          BY <1>1, <5>1
      <4>2. CASE CopySums
        BY <1>1, <1>h, <4>2 DEF CopySums, CopyTouch
      <4> QED
        BY <3>2, <4>1, <4>2
    <3>5. CopyTouch'
      BY <1>1, <1>2, <1>3, <1>4, <3>2, <3>3, <3>4 DEF CopyTouch
    <3> QED
      BY <1>1, <1>2, <3>2, <3>5 DEF OpTouch, Writing, Creating, Copying
  <2> QED
    BY <2>1, <2>2
<1> QED
  BY <1>1, <1>2, <1>3, <1>4, <1>5, <1>6, <1>7, OneDurable DEF DurableInv

\* The data is on the disk as it is in memory.
LEMMA DurableSyncsData ==
  ASSUME VersionInv, StoreInv, SumInv, DurableInv, SyncData
  PROVE  DurableInv'
<1>h. PICK h : h = op.h
  OBVIOUS
<1>0. /\ op.pc = "sync" /\ diskChunk' = [diskChunk EXCEPT ![h] = chunk[h]]
      /\ op' = [op EXCEPT !.pc = "syncmeta"]
      /\ UNCHANGED <<chunk, meta, diskMeta, entries, dirty, acked, up>>
  BY <1>h DEF SyncData, files, history
<1>1. /\ h \in Handle /\ diskChunk \in [Handle -> Content]
      /\ (Writing /\ WriteOp /\ ~Creating /\ ~Copying) \/ (Creating /\ ~Writing)
  BY <1>0, <1>h, OpKinds DEF StoreInv, FilesInv
<1>2. diskChunk'[h] = chunk[h] /\ \A k \in Handle \ {h} : diskChunk'[k] = diskChunk[k]
  BY <1>0, <1>1
<1>3. chunk[h].there
  <2>1. CASE Writing
    BY <1>1, <1>h, <2>1 DEF StoreInv, OpRange, FilesInv, EntryOK
  <2>2. CASE Creating
    BY <1>h, <2>2 DEF StoreInv, OpRange
  <2> QED
    BY <1>1, <2>1, <2>2
<1>4. Clean(h)'
  <2> SUFFICES ASSUME NEW b \in Block, b \notin dirty[h]
               PROVE  CleanBlock(chunk[h], chunk[h], meta[h], diskMeta[h], entries[h], b)
    BY <1>0, <1>2 DEF Clean
  <2>1. CleanBlock(chunk[h], diskChunk[h], meta[h], diskMeta[h], entries[h], b)
    BY <1>1 DEF DurableInv, Clean
  <2>2. CASE meta[h].there \/ diskMeta[h].there
    <3>1. Alike(chunk[h], diskChunk[h], b) /\ Alike(chunk[h], chunk[h], b)
      BY <1>3, <2>1, <2>2, AlikeSame DEF CleanBlock
    <3>2. \A s : Taken(s, chunk[h], b) <=> Taken(s, diskChunk[h], b)
      BY <3>1, AlikeTaken
    <3> QED
      BY <1>3, <2>1, <2>2, <3>1, <3>2 DEF CleanBlock
  <2>3. CASE ~(meta[h].there \/ diskMeta[h].there)
    BY <2>3 DEF CleanBlock
  <2> QED
    BY <2>2, <2>3
<1>5. Lasts(h)'
  <2>1. Lasts(h)
    BY <1>1 DEF DurableInv
  <2>2. Lasting(h) => Lasting(h)'
    BY <1>0, <1>2 DEF Lasting
  <2> QED
    BY <1>0, <2>1, <2>2 DEF Lasts
<1>6. OpTouch'
  <2>1. CASE Writing
    <3>1. /\ op'.pc = "syncmeta" /\ op'.h = h /\ op'.kind = "write"
          /\ op'.after = op.after /\ op'.gap = op.gap
      BY <1>0, <1>1, <1>h, <2>1, OpGoesOn DEF Writing
    <3>2. WriteTouch
      BY <2>1 DEF DurableInv, OpTouch
    <3>3. WriteTouch'
      BY <1>0, <1>2, <1>h, <3>1, <3>2 DEF WriteTouch
    <3> QED
      BY <3>1, <3>3 DEF OpTouch, Writing, Creating, Copying
  <2>2. CASE Creating
    <3>0. op.pc \in {"copy", "copysums", "sync", "syncmeta"}
      BY <1>0
    <3>1. /\ CreateOp /\ CopyTouch /\ acked[h].length = 0 /\ op.kind = "copy"
      BY <1>h, <2>2, <3>0, CopyGoesOn
    <3>2. op'.pc = "syncmeta" /\ op'.h = h /\ op'.kind = "copy" /\ op'.from = op.from
      BY <1>0, <1>h, <3>1, OpGoesOn
    <3>3. CopyTouch'
      BY <1>0, <1>2, <1>h, <3>1, <3>2 DEF CopyTouch
    <3> QED
      BY <1>0, <3>1, <3>2, <3>3 DEF OpTouch, Writing, Creating, Copying
  <2> QED
    BY <1>1, <2>1, <2>2
<1> QED
  BY <1>0, <1>1, <1>2, <1>4, <1>5, <1>6, OneDurable DEF DurableInv

\* A step fails, and nothing but the operation changes.
LEMMA DurableStays ==
  ASSUME DurableInv,
         \/ SyncFails
         \/ \E h \in Handle, b \in Block : ReadDamaged(h, b)
         \/ ClearCorrupt
         \/ UNCHANGED vars
  PROVE  DurableInv'
<1>1. /\ UNCHANGED <<chunk, diskChunk, meta, diskMeta, entries, up, dirty, acked>>
      /\ op' = op \/ op' = NoOp
  BY DEF SyncFails, Fails, ReadDamaged, ClearCorrupt, vars, files, disks, history
<1>2. Total(dirty') /\ \A h \in Handle : Clean(h)' /\ Lasts(h)'
  BY <1>1 DEF DurableInv, Total, Clean, Lasts, Lasting
<1>3. OpTouch'
  <2>1. CASE op' = op
    BY <1>1, <2>1 DEF DurableInv, OpTouch, WriteTouch, CopyTouch, Writing, Creating, Copying
  <2> QED
    BY <1>1, <2>1, IdleTouch
<1> QED
  BY <1>2, <1>3 DEF DurableInv

\* A block that was in order before the file of checksums is synced, or whose
\* checksum has just been taken to where the data ends.
LEMMA CleanSynced ==
  ASSUME NEW b, NEW c, NEW m, NEW k, NEW e, NEW e2, c.there, m.there,
         \/ CleanBlock(c, c, m, k, e, b) /\ e2 = e
         \/ /\ Extent(b, e2.length, c.size)
            /\ Taken(m.sums[b], c, b) /\ Taken(e2.sums[b], c, b)
  PROVE  CleanBlock(c, c, m, m, e2, b)
<1>1. Alike(c, c, b)
  BY AlikeSame
<1> QED
  BY <1>1 DEF CleanBlock

\* A mutation is acknowledged: the blocks whose checksums it took are clean.
LEMMA DurableAcks ==
  ASSUME VersionInv, StoreInv, SumInv, DurableInv, SyncMeta, op.kind # "copy"
  PROVE  DurableInv'
<1>h. PICK h : h = op.h
  OBVIOUS
<1> DEFINE length == entries[h].length
<1>0. /\ op.pc = "syncmeta" /\ h \in Handle /\ op' = NoOp /\ up
      /\ Total(diskMeta) /\ Total(dirty)
      /\ (Writing /\ WriteOp) \/ (Creating /\ CreateOp)
      /\ diskMeta' = [diskMeta EXCEPT ![h] = meta[h]] /\ Acknowledge(op)
      /\ UNCHANGED <<chunk, diskChunk, meta, entries, up>>
  BY <1>h, OpKinds DEF SyncMeta, Open, files, VersionInv, ShapeInv, DurableInv
<1>1. Writing /\ WriteOp
  BY <1>0 DEF StoreInv, OpRange, Writing, Creating
<1>2. /\ entries[h].there /\ length \in Int /\ length <= chunk[h].size /\ length >= 0
      /\ chunk[h].size \in 0..ChunkSize /\ chunk[h].there /\ meta[h].there
      /\ op.after \in Nat /\ op.gap \in Nat /\ op.after <= length
  BY <1>0, <1>1, <1>h, Numbers DEF StoreInv, OpRange, FilesInv, EntryOK, Content, SumInv, OpSums,
     WrittenInv, VersionInv, EntryInv
<1>3. /\ diskChunk[h] = chunk[h]
      /\ \A b \in Touched(op.gap, length) :
           /\ entries[h].sums[b] = Sum(chunk[h].cell, b, length)
           /\ meta[h].sums[b] = entries[h].sums[b]
  BY <1>0, <1>1, <1>h DEF DurableInv, OpTouch, WriteTouch
<1>4. diskMeta'[h] = meta[h] /\ \A k \in Handle \ {h} : diskMeta'[k] = diskMeta[k]
  BY <1>0 DEF Total
<1>5. /\ Total(dirty') /\ \A k \in Handle \ {h} : dirty'[k] = dirty[k]
      /\ dirty'[h] = (dirty[h] \ Touched(op.gap, length)) \cup Overhang(h, length)
  <2>1. dirty' = [dirty EXCEPT ![h] =
                    (dirty[h] \ Touched(op.gap, length)) \cup Overhang(h, length)]
    BY <1>0, <1>h DEF Acknowledge, Total
  <2> QED
    BY <1>0, <2>1 DEF Total
<1>6. /\ acked'[h].length = Greater(acked[h].length, op.after)
      /\ \A k \in Handle \ {h} : acked'[k].length = acked[k].length
  <2>1. PICK n : /\ n = Greater(acked[h].length, op.after)
                 /\ acked' = [acked EXCEPT ![h].length = n]
    BY <1>h, <1>0 DEF Acknowledge, VersionInv, ShapeInv, Total
  <2> QED
    BY <1>0, <2>1, AckedLength
<1> HIDE DEF length
<1>7. ASSUME NEW b \in Block, b \notin Overhang(h, length)
      PROVE  Extent(b, length, chunk[h].size)
  <2>1. CASE chunk[h].size = length
    BY <2>1 DEF Extent
  <2>2. CASE chunk[h].size > length
    <3>1. ~((b + 1) * BlockSize > length)
      BY <1>7, <2>2 DEF Overhang
    <3>2. ASSUME NEW i \in Cell, BlockOf(i) = b PROVE i < length /\ i < chunk[h].size
      <4>1. i < (b + 1) * BlockSize /\ i \in Int /\ (b + 1) * BlockSize \in Int
        BY <3>2, BlockSpan, Numbers
      <4> QED
        BY <1>2, <3>1, <4>1
    <3> QED
      BY <3>2 DEF Extent
  <2> QED
    BY <1>2, <2>1, <2>2
<1>8. Clean(h)'
  <2> SUFFICES ASSUME NEW b \in Block, b \notin dirty'[h]
               PROVE  CleanBlock(chunk[h], chunk[h], meta[h], meta[h], entries[h], b)
    BY <1>0, <1>3, <1>4 DEF Clean
  <2>1. CASE b \notin dirty[h]
    <3>1. CleanBlock(chunk[h], chunk[h], meta[h], diskMeta[h], entries[h], b)
      BY <1>0, <1>3, <2>1 DEF DurableInv, Clean
    <3> QED
      BY <1>2, <3>1, CleanSynced
  <2>2. CASE b \in Touched(op.gap, length) /\ b \notin Overhang(h, length)
    <3>1. Extent(b, length, chunk[h].size)
      BY <1>7, <2>2
    <3>2. Sum(chunk[h].cell, b, length) = Sum(chunk[h].cell, b, chunk[h].size)
      BY <3>1, SameSum
    <3>3. Taken(meta[h].sums[b], chunk[h], b) /\ Taken(entries[h].sums[b], chunk[h], b)
      BY <1>3, <2>2, <3>2 DEF Taken
    <3> QED
      BY <1>2, <3>1, <3>3, CleanSynced DEF length
  <2> QED
    BY <1>5, <2>1, <2>2
<1>9. Lasts(h)'
  <2>1. acked[h].length \in Nat /\ meta[h].version # 0
        /\ (acked[h].length > 0 => acked[h].length <= length)
    BY <1>0, <1>2 DEF DurableInv, Lasts, Lasting, length
  <2>2. acked'[h].length \in Nat /\ acked'[h].length <= length
    BY <1>2, <1>6, <2>1, Numbers
  <2>3. acked'[h].length <= chunk[h].size
    BY <1>2, <2>2
  <2> QED
    BY <1>0, <1>2, <1>3, <1>4, <2>1, <2>2, <2>3 DEF Lasts, Lasting, length
<1> QED
  BY <1>0, <1>4, <1>5, <1>6, <1>8, <1>9, IdleTouch, OneDurable

\* A copy has in each block that is clean in its source what the source has.
LEMMA CleanCopied ==
  ASSUME NEW b, NEW c \in Content, NEW d, NEW m, NEW k, NEW e, NEW n \in 0..ChunkSize,
         NEW m2, NEW e2,
         c.there, m.there, e.there, e.length = n,
         CleanBlock(c, d, m, k, e, b),
         m2.sums[b] = e.sums[b], e2.sums[b] = e.sums[b], e2.length = n
  PROVE  CleanBlock(CopyOf(c, n), CopyOf(c, n), m2, m2, e2, b)
<1>1. PICK f : f = CopyOf(c, n)
  OBVIOUS
<1>2. f.size = n /\ \A i \in Cell : i < n => f.cell[i] = c.cell[i]
  BY <1>1, CopyContent
<1>3. Alike(c, d, b) /\ Extent(b, n, c.size) /\ Taken(e.sums[b], d, b)
  BY DEF CleanBlock
<1>4. Alike(f, d, b)
  <2>1. Extent(b, f.size, d.size)
    BY <1>2, <1>3 DEF Extent, Alike
  <2> QED
    BY <1>2, <1>3, <2>1 DEF Extent, Alike
<1>5. Taken(e.sums[b], f, b)
  BY <1>3, <1>4, AlikeTaken
<1>6. Alike(f, f, b) /\ Extent(b, n, f.size)
  BY <1>2, AlikeSame DEF Extent
<1> QED
  BY <1>1, <1>5, <1>6 DEF CleanBlock

\* A copy is in the table: as much of it is clean, and acknowledged, as of its
\* source.
LEMMA DurableAcksCopy ==
  ASSUME VersionInv, StoreInv, DurableInv, SyncMeta, op.kind = "copy"
  PROVE  DurableInv'
<1>h. PICK h, from : h = op.h /\ from = op.from
  OBVIOUS
<1>0. /\ op.pc = "syncmeta" /\ op' = NoOp /\ Creating
      /\ diskMeta' = [diskMeta EXCEPT ![h] = meta[h]]
      /\ UNCHANGED <<chunk, diskChunk, meta, up>> /\ AcknowledgeCopy(op)
      /\ Total(diskMeta) /\ Total(dirty) /\ Total(entries)
  BY <1>h DEF SyncMeta, Open, files, Creating, VersionInv, ShapeInv, DurableInv
<1>1. /\ h \in Handle /\ Copying /\ CopyTouch /\ up
      /\ from \in Handle /\ entries[from].there /\ from # h
      /\ chunk[h].there /\ meta[h].there
  BY <1>0, <1>h, CopyGoesOn
<1>2. /\ chunk[h] = CopyOf(chunk[from], entries[from].length) /\ diskChunk[h] = chunk[h]
      /\ meta[h].sums = entries[from].sums /\ meta[h].version # 0
  BY <1>0, <1>1, <1>h DEF CopyTouch
<1>3. PICK e : /\ e = [there |-> TRUE, version |-> op.version,
                       length |-> entries[from].length, sums |-> meta[h].sums]
               /\ entries' = [entries EXCEPT ![h] = e]
  BY <1>h DEF SyncMeta, Open
<1>4. e.length = entries[from].length /\ e.sums = entries[from].sums /\ e.there
  BY <1>2, <1>3
<1>5. entries'[h] = e /\ \A k \in Handle \ {h} : entries'[k] = entries[k]
  BY <1>0, <1>1, <1>3 DEF Total
<1>6. diskMeta'[h] = meta[h] /\ \A k \in Handle \ {h} : diskMeta'[k] = diskMeta[k]
  BY <1>0, <1>1 DEF Total
<1>7. /\ Total(dirty') /\ dirty'[h] = dirty[from] /\ \A k \in Handle \ {h} : dirty'[k] = dirty[k]
  <2>1. dirty' = [dirty EXCEPT ![h] = dirty[from]]
    BY <1>0, <1>h DEF AcknowledgeCopy
  <2> QED
    BY <1>0, <1>1, <2>1 DEF Total
<1>8. /\ acked'[h].length = acked[from].length
      /\ \A k \in Handle \ {h} : acked'[k].length = acked[k].length
  <2>1. PICK n : n = acked[from].length /\ acked' = [acked EXCEPT ![h].length = n]
    BY <1>0, <1>h DEF AcknowledgeCopy
  <2> QED
    BY <1>1, <2>1, AckedLength
<1>9. /\ chunk[from] \in Content /\ chunk[from].there /\ meta[from].there
      /\ entries[from].length \in 0..ChunkSize /\ Clean(from) /\ Lasts(from)
  <2>1. /\ entries[from].length \in 0..chunk[from].size /\ chunk[from].size \in 0..ChunkSize
        /\ chunk[from] \in Content /\ chunk[from].there
    BY <1>1 DEF StoreInv, FilesInv, EntryOK, Content
  <2>2. entries[from].length \in 0..ChunkSize
    BY <2>1, Numbers
  <2> QED
    BY <1>1, <2>1, <2>2 DEF VersionInv, EntryInv, DurableInv
<1>10. Clean(h)'
  <2> SUFFICES ASSUME NEW b \in Block, b \notin dirty[from]
               PROVE  CleanBlock(chunk[h], chunk[h], meta[h], meta[h], e, b)
    BY <1>0, <1>2, <1>5, <1>6, <1>7 DEF Clean
  <2>1. CleanBlock(chunk[from], diskChunk[from], meta[from], diskMeta[from], entries[from], b)
    BY <1>9 DEF Clean
  <2>2. meta[h].sums[b] = entries[from].sums[b] /\ e.sums[b] = entries[from].sums[b]
    BY <1>2, <1>4
  <2>3. PICK n \in 0..ChunkSize : n = entries[from].length
    BY <1>9
  <2>4. CleanBlock(CopyOf(chunk[from], n), CopyOf(chunk[from], n), meta[h], meta[h], e, b)
    BY <1>1, <1>4, <1>9, <2>1, <2>2, <2>3, CleanCopied
  <2> QED
    BY <1>2, <2>3, <2>4
<1>11. Lasts(h)'
  <2>1. chunk[h].size = entries[from].length
    BY <1>2, <1>9, CopyContent
  <2>2. acked[from].length \in Nat
        /\ (acked[from].length > 0 => acked[from].length <= entries[from].length)
    BY <1>1, <1>9 DEF Lasts, Lasting
  <2> QED
    BY <1>0, <1>1, <1>2, <1>4, <1>5, <1>6, <1>8, <2>1, <2>2 DEF Lasts, Lasting
<1> QED
  BY <1>0, <1>1, <1>5, <1>6, <1>7, <1>8, <1>10, <1>11, IdleTouch, OneDurable

\* A version is written and synced, with the checksums as they are.
LEMMA DurableVersions ==
  ASSUME VersionInv, StoreInv, DurableInv,
         SyncVersion \/ \E h \in Handle, v \in Version : BeginSetVersion(h, v)
  PROVE  DurableInv'
<1>1. CASE SyncVersion
  <2>h. PICK h : h = op.h
    OBVIOUS
  <2>1. /\ h \in Handle /\ diskMeta' = [diskMeta EXCEPT ![h] = meta[h]]
        /\ entries' = [entries EXCEPT ![h].version = op.version]
        /\ op.pc = "version" /\ op' = NoOp
        /\ UNCHANGED <<chunk, diskChunk, meta, up, dirty>>
        /\ acked' = [acked EXCEPT ![h].versions = {op.version}]
        /\ Total(diskMeta) /\ Total(entries) /\ EntryShape(entries[h])
    BY <1>1, <2>h, OpKinds DEF SyncVersion, files, VersionInv, ShapeInv
  <2>2. diskMeta'[h] = meta[h] /\ \A k \in Handle \ {h} : diskMeta'[k] = diskMeta[k]
    BY <2>1 DEF Total
  <2>3. PICK t, v, n, w :
          /\ entries[h] = [there |-> t, version |-> v, length |-> n, sums |-> w]
          /\ entries'[h] = [there |-> t, version |-> op.version, length |-> n, sums |-> w]
    BY <2>1 DEF EntryShape, Total
  <2>4. /\ entries'[h].there = entries[h].there /\ entries'[h].length = entries[h].length
        /\ entries'[h].sums = entries[h].sums
    BY <2>3
  <2>5. \A k \in Handle \ {h} : entries'[k] = entries[k]
    BY <2>1 DEF Total
  <2>6. entries[h].there /\ meta[h].there /\ chunk[h].there
    BY <2>1, <2>h DEF StoreInv, OpRange, FilesInv, EntryOK, VersionInv, EntryInv
  <2>7. \A k \in Handle : acked'[k].length = acked[k].length
    BY <2>1, AckedVersions
  <2>8. Clean(h) /\ Lasts(h)
    BY <2>1 DEF DurableInv
  <2>9. Clean(h)'
    <3> SUFFICES ASSUME NEW b \in Block, b \notin dirty[h]
                 PROVE  CleanBlock(chunk[h], diskChunk[h], meta[h], meta[h], entries'[h], b)
      BY <2>1, <2>2 DEF Clean
    <3>1. CleanBlock(chunk[h], diskChunk[h], meta[h], diskMeta[h], entries[h], b)
      BY <2>8 DEF Clean
    <3> QED
      BY <2>4, <2>6, <3>1 DEF CleanBlock
  <2>10. Lasts(h)'
    BY <2>1, <2>2, <2>4, <2>6, <2>7, <2>8 DEF Lasts, Lasting
  <2> QED
    BY <2>1, <2>2, <2>5, <2>7, <2>9, <2>10, IdleTouch, OneDurable DEF DurableInv
<1>2. ASSUME NEW h \in Handle, NEW v \in Version, BeginSetVersion(h, v)
      PROVE  DurableInv'
  <2>1. /\ meta' = [meta EXCEPT ![h].version = v]
        /\ op' = [kind |-> "version", pc |-> "version", h |-> h, version |-> v]
        /\ UNCHANGED <<chunk, diskChunk, diskMeta, entries, up, dirty>>
        /\ acked' = [acked EXCEPT ![h].versions = acked[h].versions \cup {v}]
    BY <1>2 DEF BeginSetVersion, disks, VersionInv, ShapeInv, Total
  <2>2. /\ meta'[h].sums = meta[h].sums /\ meta'[h].there = meta[h].there
        /\ \A k \in Handle \ {h} : meta'[k] = meta[k]
    BY <2>1, MetaVersion
  <2>3. meta'[h].version # 0
    <3>1. meta'[h].version = v
      BY <2>1 DEF VersionInv, ShapeInv, Total, MetaShape
    <3> QED
      BY <3>1, Numbers
  <2>4. \A k \in Handle : acked'[k].length = acked[k].length
    BY <2>1, AckedVersions
  <2>5. Clean(h) /\ Lasts(h)
    BY DEF DurableInv
  <2>6. Clean(h)'
    BY <2>1, <2>2, <2>5 DEF Clean, CleanBlock
  <2>7. Lasts(h)'
    BY <2>1, <2>2, <2>3, <2>4, <2>5 DEF Lasts, Lasting
  <2>8. OpTouch'
    BY <2>1 DEF OpTouch, Writing, Creating, Copying
  <2> QED
    BY <2>1, <2>2, <2>4, <2>6, <2>7, <2>8, OneDurable DEF DurableInv
<1> QED
  BY <1>1, <1>2

\* A chunk is removed; its files on the disk fit as before.
LEMMA DurableRemoves ==
  ASSUME VersionInv, StoreInv, DurableInv, NEW h \in Handle, Remove(h)
  PROVE  DurableInv'
<1>1. /\ ~Creating /\ chunk \in [Handle -> Content]
      /\ entries' = [entries EXCEPT ![h] = NoEntry]
      /\ chunk' = [chunk EXCEPT ![h] = NoFile] /\ meta' = [meta EXCEPT ![h] = NoMeta]
      /\ op' = NoOp \/ (op' = op /\ (op.pc = "idle" \/ op.h # h))
      /\ UNCHANGED <<diskChunk, diskMeta, dirty, up>>
      /\ acked' = [acked EXCEPT ![h].length = 0]
  BY DEF Remove, disks, StoreInv, FilesInv
<1>2. /\ entries'[h] = NoEntry /\ meta'[h] = NoMeta /\ chunk'[h] = NoFile
      /\ \A k \in Handle \ {h} : /\ entries'[k] = entries[k] /\ meta'[k] = meta[k]
                                 /\ chunk'[k] = chunk[k]
  BY <1>1 DEF VersionInv, ShapeInv, Total
<1>3. ~NoEntry.there /\ ~NoMeta.there /\ ~NoFile.there
  BY DEF NoEntry, NoMeta, NoFile
<1>4. acked'[h].length = 0 /\ \A k \in Handle \ {h} : acked'[k].length = acked[k].length
  BY <1>1, AckedLength
<1>5. Clean(h)'
  <2>1. Clean(h)
    BY DEF DurableInv
  <2> QED
    BY <1>1, <1>2, <1>3, <2>1 DEF Clean, CleanBlock
<1>6. Lasts(h)'
  BY <1>2, <1>3, <1>4 DEF Lasts
<1>7. OpTouch'
  <2>1. CASE op' = NoOp
    BY <2>1, IdleTouch
  <2>2. CASE op' = op /\ op.pc = "idle"
    BY <2>2 DEF OpTouch, Writing, Creating, Copying
  <2>3. CASE op' = op /\ op.pc # "idle" /\ op.h # h
    <3>1. op.h \in Handle /\ ~Copying
      BY <1>1, <2>3, OpKinds
    <3>2. ~Copying' /\ ~Creating' /\ Writing' = Writing
      BY <1>1, <2>3, <3>1 DEF Copying, Creating, Writing
    <3>3. /\ entries'[op'.h] = entries[op.h] /\ meta'[op'.h] = meta[op.h]
          /\ chunk'[op'.h] = chunk[op.h]
      BY <1>2, <2>3, <3>1
    <3>4. Writing => WriteTouch
      BY DEF DurableInv, OpTouch
    <3>5. Writing => WriteTouch'
      BY <1>1, <2>3, <3>3, <3>4 DEF WriteTouch
    <3> QED
      BY <3>2, <3>5 DEF OpTouch
  <2> QED
    BY <1>1, <2>1, <2>2, <2>3
<1> QED
  BY <1>1, <1>2, <1>4, <1>5, <1>6, <1>7, OneDurable DEF DurableInv

\* One cell of one file is damaged, and the rest of the files is as it was.
Rotten(t, u, h, i) ==
  /\ u[h].there = t[h].there /\ u[h].size = t[h].size
  /\ \A k \in Cell : u[h].cell[k] = IF k = i THEN Damaged ELSE t[h].cell[k]
  /\ \A k \in Handle \ {h} : u[k] = t[k]

\* What Rot makes of the files of data, on the disk or not.
LEMMA OneDamaged ==
  ASSUME NEW t \in [Handle -> Content], NEW h \in Handle, NEW i \in Cell
  PROVE  Rotten(t, [t EXCEPT ![h].cell[i] = Damaged], h, i)
<1>1. PICK c : c = [t[h].cell EXCEPT ![i] = Damaged]
  OBVIOUS
<1>2. \A k \in Cell : c[k] = IF k = i THEN Damaged ELSE t[h].cell[k]
  BY <1>1 DEF Content
<1>3. PICK f : f = [t[h] EXCEPT !.cell = c]
  OBVIOUS
<1>4. f.cell = c /\ f.there = t[h].there /\ f.size = t[h].size
  BY <1>3 DEF Content
<1>5. PICK u : u = [t EXCEPT ![h] = f]
  OBVIOUS
<1>6. u[h] = f /\ \A k \in Handle \ {h} : u[k] = t[k]
  BY <1>5
<1>7. [t EXCEPT ![h].cell[i] = Damaged] = u
  BY <1>1, <1>3, <1>5
<1>8. u[h].cell = c /\ u[h].there = t[h].there /\ u[h].size = t[h].size
  BY <1>4, <1>6
<1>9. Rotten(t, u, h, i)
  BY <1>2, <1>6, <1>8 DEF Rotten
<1> QED
  BY <1>7, <1>9

\* A damaged cell: the checksum of its block is not of it, on the disk either.
LEMMA DurableRots ==
  ASSUME VersionInv, StoreInv, DurableInv, NEW h \in Handle, NEW i \in Cell, Rot(h, i)
  PROVE  DurableInv'
<1>1. /\ chunk' = [chunk EXCEPT ![h].cell[i] = Damaged]
      /\ diskChunk' = [diskChunk EXCEPT ![h].cell[i] = Damaged]
      /\ i < chunk[h].size /\ i < diskChunk[h].size
      /\ op' = NoOp /\ UNCHANGED <<meta, diskMeta, entries, up, dirty, acked>>
      /\ chunk \in [Handle -> Content] /\ diskChunk \in [Handle -> Content]
  BY DEF Rot, Fails, history, StoreInv, FilesInv
<1>3. /\ chunk'[h].there = chunk[h].there /\ chunk'[h].size = chunk[h].size
      /\ \A k \in Cell : chunk'[h].cell[k] = IF k = i THEN Damaged ELSE chunk[h].cell[k]
      /\ \A k \in Handle \ {h} : chunk'[k] = chunk[k]
  <2>1. Rotten(chunk, chunk', h, i)
    BY <1>1, OneDamaged
  <2> QED
    BY <2>1 DEF Rotten
<1>4. /\ diskChunk'[h].there = diskChunk[h].there /\ diskChunk'[h].size = diskChunk[h].size
      /\ \A k \in Cell : diskChunk'[h].cell[k] = IF k = i THEN Damaged ELSE diskChunk[h].cell[k]
      /\ \A k \in Handle \ {h} : diskChunk'[k] = diskChunk[k]
  <2>1. Rotten(diskChunk, diskChunk', h, i)
    BY <1>1, OneDamaged
  <2> QED
    BY <2>1 DEF Rotten
<1>5. Clean(h)'
  <2> SUFFICES ASSUME NEW b \in Block, b \notin dirty[h]
               PROVE  CleanBlock(chunk'[h], diskChunk'[h], meta[h], diskMeta[h], entries[h], b)
    BY <1>1 DEF Clean
  <2>1. CleanBlock(chunk[h], diskChunk[h], meta[h], diskMeta[h], entries[h], b)
    BY DEF DurableInv, Clean
  <2>2. Alike(chunk[h], diskChunk[h], b) => Alike(chunk'[h], diskChunk'[h], b)
    BY <1>3, <1>4 DEF Alike
  <2>3. \A s : Taken(s, diskChunk[h], b) => Taken(s, diskChunk'[h], b)
    <3>1. CASE BlockOf(i) = b
      <4>1. ~Intact(diskChunk'[h], b)
        BY <1>1, <1>4, <3>1 DEF Intact
      <4> QED
        BY <4>1 DEF Taken
    <3>2. CASE BlockOf(i) # b
      <4>1. Alike(diskChunk'[h], diskChunk[h], b)
        BY <1>4, <3>2 DEF Alike, Extent
      <4> QED
        BY <4>1, AlikeTaken
    <3> QED
      BY <3>1, <3>2
  <2> QED
    BY <1>3, <1>4, <2>1, <2>2, <2>3 DEF CleanBlock
<1>6. Lasts(h)'
  BY <1>1, <1>3, <1>4 DEF DurableInv, Lasts, Lasting
<1> QED
  BY <1>1, <1>3, <1>4, <1>5, <1>6, IdleTouch, OneDurable DEF DurableInv

\* What a crash leaves of a file: one that is there was there, and has in each
\* block that is alike in memory and on the disk what both have.
LEMMA LeftAlike ==
  ASSUME NEW d \in Content, NEW f \in Content, NEW g \in FileLeft(d, f)
  PROVE  /\ g.there => f.there \/ d.there
         /\ f.there /\ d.there => g.there /\ g.size \in {d.size, f.size}
         /\ \A b : g.there /\ (f.there => Alike(f, d, b)) => Alike(g, d, b)
<1>1. ~NoFile.there
  BY DEF NoFile
<1>2. CASE ~f.there
  <2>1. g = NoFile \/ g = d
    BY <1>2 DEF FileLeft
  <2> QED
    BY <1>1, <1>2, <2>1, AlikeSame
<1>3. CASE f.there /\ g = NoFile /\ ~d.there
  BY <1>1, <1>3
<1>4. CASE f.there /\ ~(g = NoFile /\ ~d.there)
  <2>1. PICK n \in {d.size, f.size}, kept \in SUBSET {i \in Cell : f.cell[i] # d.cell[i]} :
          g = [there |-> TRUE, size |-> n,
               cell |-> [i \in Cell |-> IF i >= n THEN 0
                                        ELSE IF i \in kept THEN f.cell[i] ELSE d.cell[i]]]
    BY <1>4 DEF FileLeft
  <2>2. n \in Int /\ Cell \subseteq Int
    BY Numbers DEF Content
  <2>3. PICK c : c = [i \in Cell |-> IF i >= n THEN 0
                                     ELSE IF i \in kept THEN f.cell[i] ELSE d.cell[i]]
    OBVIOUS
  <2>4. \A i \in Cell : i < n => c[i] \in {f.cell[i], d.cell[i]}
    BY <2>2, <2>3
  <2>5. g.there /\ g.size = n /\ g.cell = c
    BY <2>1, <2>3
  <2>6. ASSUME NEW b, Alike(f, d, b) PROVE Alike(g, d, b)
    <3>1. Extent(b, n, d.size)
      BY <2>6 DEF Alike, Extent
    <3>2. \A i \in Cell : BlockOf(i) = b /\ i < d.size => g.cell[i] = d.cell[i]
      BY <2>4, <2>5, <2>6, <3>1 DEF Alike, Extent
    <3> QED
      BY <2>5, <3>1, <3>2 DEF Alike
  <2> QED
    BY <1>4, <2>5, <2>6
<1> QED
  BY <1>2, <1>3, <1>4

\* And of its checksums.
LEMMA LeftSums ==
  ASSUME NEW d, NEW f, NEW m \in MetaLeft(d, f)
  PROVE  /\ m.there => f.there \/ d.there
         /\ f.there /\ d.there => m.there /\ m.version \in {d.version, f.version}
         /\ m.there => \A b \in Block : \/ m.sums[b] = d.sums[b]
                                        \/ f.there /\ m.sums[b] = f.sums[b]
<1>1. ~NoMeta.there
  BY DEF NoMeta
<1>2. CASE ~f.there
  <2>1. m = NoMeta \/ m = d
    BY <1>2 DEF MetaLeft
  <2> QED
    BY <1>1, <1>2, <2>1
<1>3. CASE f.there /\ m = NoMeta /\ ~d.there
  BY <1>1, <1>3
<1>4. CASE f.there /\ ~(m = NoMeta /\ ~d.there)
  <2>1. PICK v \in {d.version, f.version}, kept \in SUBSET {b \in Block : f.sums[b] # d.sums[b]} :
          m = [there |-> TRUE, version |-> v, sums |-> Overlaid(d.sums, kept, f.sums)]
    BY <1>4 DEF MetaLeft
  <2>2. m.there /\ m.version = v /\ m.sums = Overlaid(d.sums, kept, f.sums)
    BY <2>1
  <2>3. \A b \in Block : m.sums[b] \in {d.sums[b], f.sums[b]}
    BY <2>2 DEF Overlaid
  <2> QED
    BY <1>4, <2>2, <2>3
<1> QED
  BY <1>2, <1>3, <1>4

\* A crash may lose what is in memory, and a clean block is as good on the disk.
LEMMA DurableCrashes ==
  ASSUME VersionInv, StoreInv, DurableInv, Crash
  PROVE  DurableInv'
<1>1. PICK c \in [Handle -> UNION {FileLeft(diskChunk[h], chunk[h]) : h \in Handle}] :
        /\ \A h \in Handle : c[h] \in FileLeft(diskChunk[h], chunk[h])
        /\ chunk' = c /\ diskChunk' = c
  BY DEF Crash
<1>2. PICK m \in [Handle -> UNION {MetaLeft(diskMeta[h], meta[h]) : h \in Handle}] :
        /\ \A h \in Handle : m[h] \in MetaLeft(diskMeta[h], meta[h])
        /\ meta' = m /\ diskMeta' = m
  BY DEF Crash
<1>3. /\ entries' = [h \in Handle |-> NoEntry] /\ op' = NoOp /\ ~up'
      /\ UNCHANGED <<dirty, acked>>
  BY DEF Crash, Fails, history
<1>4. ~NoEntry.there
  BY DEF NoEntry
<1>5. ASSUME NEW h \in Handle PROVE Clean(h)' /\ Lasts(h)'
  <2>1. /\ diskChunk[h] \in Content /\ chunk[h] \in Content /\ Clean(h) /\ Lasts(h)
        /\ c[h] \in FileLeft(diskChunk[h], chunk[h]) /\ m[h] \in MetaLeft(diskMeta[h], meta[h])
    BY <1>1, <1>2 DEF StoreInv, FilesInv, DurableInv
  <2>2. /\ c[h].there => chunk[h].there \/ diskChunk[h].there
        /\ chunk[h].there /\ diskChunk[h].there =>
             c[h].there /\ c[h].size \in {diskChunk[h].size, chunk[h].size}
        /\ \A b : c[h].there /\ (chunk[h].there => Alike(chunk[h], diskChunk[h], b)) =>
             Alike(c[h], diskChunk[h], b)
    BY <2>1, LeftAlike
  <2>3. /\ m[h].there => meta[h].there \/ diskMeta[h].there
        /\ meta[h].there /\ diskMeta[h].there =>
             m[h].there /\ m[h].version \in {diskMeta[h].version, meta[h].version}
        /\ m[h].there => \A b \in Block : \/ m[h].sums[b] = diskMeta[h].sums[b]
                                          \/ meta[h].there /\ m[h].sums[b] = meta[h].sums[b]
    BY <2>1, LeftSums
  <2>4. ASSUME NEW b \in Block, b \notin dirty[h]
        PROVE  CleanBlock(c[h], c[h], m[h], m[h], NoEntry, b)
    <3> SUFFICES ASSUME c[h].there, m[h].there
                 PROVE  Alike(c[h], c[h], b) /\ Taken(m[h].sums[b], c[h], b)
      BY <1>4 DEF CleanBlock
    <3>1. CleanBlock(chunk[h], diskChunk[h], meta[h], diskMeta[h], entries[h], b)
      BY <2>1, <2>4 DEF Clean
    <3>2. Alike(c[h], diskChunk[h], b)
      BY <2>2, <2>3, <3>1 DEF CleanBlock
    <3>3. Taken(m[h].sums[b], diskChunk[h], b)
      BY <2>2, <2>3, <3>1 DEF CleanBlock
    <3> QED
      BY <3>2, <3>3, AlikeTaken, AlikeSame
  <2>5. Clean(h)'
    BY <1>1, <1>2, <1>3, <2>4 DEF Clean
  <2>6. Lasts(h)'
    <3>1. ASSUME acked[h].length > 0 PROVE Lasting(h)'
      <4>1. Lasting(h)
        BY <2>1, <3>1 DEF Lasts
      <4> QED
        BY <1>1, <1>2, <1>3, <2>2, <2>3, <4>1 DEF Lasting
    <3> QED
      BY <1>3, <1>4, <2>1, <3>1 DEF Lasts
  <2> QED
    BY <2>5, <2>6
<1> QED
  BY <1>3, <1>5, IdleTouch DEF DurableInv, Total

\* What Scan opens is as long as its file, with its checksums.
LEMMA DurableScans ==
  ASSUME VersionInv, StoreInv, DurableInv, Scan
  PROVE  DurableInv'
<1>1. /\ entries' = [h \in Handle |-> Opened(h)]
      /\ meta' = [h \in Handle |-> IF chunk[h].there THEN meta[h] ELSE NoMeta]
      /\ UNCHANGED <<chunk, diskChunk, diskMeta, dirty, acked>> /\ op' = NoOp /\ up'
  BY DEF Scan, disks, history, VersionInv, OpInv
<1>2. ~NoEntry.there /\ ~NoMeta.there
  BY DEF NoEntry, NoMeta
<1>3. ASSUME NEW h \in Handle PROVE Clean(h)' /\ Lasts(h)'
  <2>1. /\ entries'[h] = Opened(h) /\ meta'[h] \in {meta[h], NoMeta}
        /\ (chunk[h].there => meta'[h] = meta[h])
        /\ Clean(h) /\ Lasts(h) /\ chunk[h] \in Content
    BY <1>1 DEF DurableInv, StoreInv, FilesInv
  <2>2. Opened(h).there =>
          /\ chunk[h].there /\ meta[h].there /\ meta[h].version # 0
          /\ Opened(h).length = chunk[h].size
          /\ \A b \in Block : Opened(h).sums[b] = IF b * BlockSize < chunk[h].size
                                                  THEN meta[h].sums[b] ELSE NoSum
    BY <1>2 DEF Opened
  <2>3. chunk[h].there /\ meta[h].there /\ meta[h].version # 0 =>
          Opened(h).there /\ Opened(h).length = chunk[h].size
    BY DEF Opened
  <2>4. ASSUME NEW b \in Block, b \notin dirty[h]
        PROVE  CleanBlock(chunk[h], diskChunk[h], meta'[h], diskMeta[h], Opened(h), b)
    <3>1. CleanBlock(chunk[h], diskChunk[h], meta[h], diskMeta[h], entries[h], b)
      BY <2>1, <2>4 DEF Clean
    <3>2. CASE Opened(h).there
      <4>1. /\ Alike(chunk[h], diskChunk[h], b) /\ Taken(meta[h].sums[b], diskChunk[h], b)
            /\ Taken(diskMeta[h].sums[b], diskChunk[h], b)
        BY <2>2, <3>1, <3>2 DEF CleanBlock
      <4>2. Taken(Opened(h).sums[b], diskChunk[h], b)
        <5>1. CASE b * BlockSize < chunk[h].size
          BY <2>2, <3>2, <4>1, <5>1
        <5>2. CASE ~(b * BlockSize < chunk[h].size)
          <6>1. ASSUME NEW i \in Cell, BlockOf(i) = b PROVE ~(i < chunk[h].size)
            <7>1. b * BlockSize <= i /\ i \in Int /\ b * BlockSize \in Int /\ chunk[h].size \in Int
              BY <2>1, <6>1, BlockSpan, Numbers DEF Content
            <7> QED
              BY <5>2, <7>1
          <6>2. \A i \in Cell : BlockOf(i) = b => ~(i < diskChunk[h].size)
            BY <4>1, <6>1 DEF Alike, Extent
          <6>3. Sum(diskChunk[h].cell, b, diskChunk[h].size) = NoSum
            BY <6>2, EmptySum
          <6>4. Opened(h).sums[b] = NoSum
            BY <2>2, <3>2, <5>2
          <6> QED
            BY <6>3, <6>4 DEF Taken
        <5> QED
          BY <5>1, <5>2
      <4>3. Extent(b, Opened(h).length, chunk[h].size)
        BY <2>2, <3>2 DEF Extent
      <4> QED
        BY <2>1, <2>2, <3>2, <4>1, <4>2, <4>3 DEF CleanBlock
    <3>3. CASE ~Opened(h).there
      BY <1>2, <2>1, <3>1, <3>3 DEF CleanBlock
    <3> QED
      BY <3>2, <3>3
  <2>5. Clean(h)'
    BY <1>1, <2>1, <2>4 DEF Clean
  <2>6. Lasts(h)'
    <3>1. ASSUME acked[h].length > 0 PROVE Lasting(h)'
      <4>1. Lasting(h)
        BY <2>1, <3>1 DEF Lasts
      <4> QED
        BY <1>1, <2>1, <2>3, <4>1 DEF Lasting
    <3> QED
      BY <1>1, <2>1, <2>2, <3>1 DEF Lasts
  <2> QED
    BY <2>5, <2>6
<1> QED
  BY <1>1, <1>3, IdleTouch DEF DurableInv, Total

\* Every step keeps what was acknowledged.
LEMMA DurableStep ==
  VersionInv /\ StoreInv /\ SumInv /\ DurableInv /\ [Next]_vars => DurableInv'
<1> SUFFICES ASSUME VersionInv, StoreInv, SumInv, DurableInv, [Next]_vars PROVE DurableInv'
  OBVIOUS
<1>1. ASSUME NEW h \in Handle, Request(h) PROVE DurableInv'
  <2>1. CASE (\E r \in Range : BeginWrite(h, r)) \/ (\E from \in PadFrom : BeginPad(h, from))
    BY <2>1, DurableBegins
  <2>2. CASE \E v \in Version : BeginSetVersion(h, v)
    BY <2>2, DurableVersions
  <2>3. CASE \E v \in NewVersion : \/ CreateFiles(h, v, "create", h)
                                    \/ \E from \in Handle : CreateFiles(h, v, "copy", from)
    BY <2>3, DurableCreates
  <2>4. CASE Remove(h)
    BY <2>4, DurableRemoves
  <2>5. CASE \E b \in Block : ReadDamaged(h, b)
    BY <2>5, DurableStays
  <2> QED
    BY <1>1, <2>1, <2>2, <2>3, <2>4, <2>5 DEF Request
<1>2. CASE \E h \in Handle, i \in Cell : Rot(h, i)
  BY <1>2, DurableRots
<1>3. CASE MutationStep
  BY <1>3, DurableWrites, DurableWritesSums DEF MutationStep
<1>4. CASE CreateStep
  BY <1>4, DurableHeader, DurableCopies DEF CreateStep
<1>5. CASE SyncStep
  <2>1. SyncMeta => DurableInv'
    BY DurableAcks, DurableAcksCopy
  <2> QED
    BY <1>5, <2>1, DurableSyncsData, DurableVersions, DurableStays DEF SyncStep
<1>6. CASE ClearCorrupt \/ UNCHANGED vars
  BY <1>6, DurableStays
<1>7. CASE Crash
  BY <1>7, DurableCrashes
<1>8. CASE Scan
  BY <1>8, DurableScans
<1> QED
  BY <1>1, <1>2, <1>3, <1>4, <1>5, <1>6, <1>7, <1>8 DEF Next

\* What was acknowledged is readable at any time and after any crashes and
\* restarts: ChunkStore::Write and Pad return after the checksums are synced
\* behind the data, and Scan opens what is on the disk; a block that no failed
\* or unfinished mutation has touched since still verifies, and shows what was
\* written to it, unless it is damaged on the disk.
THEOREM AcknowledgedReadable == Spec => []AckedReadable
<1>1. ASSUME SumInv, DurableInv, StoreInv, up, NEW h \in Handle, acked[h].length > 0
      PROVE  /\ entries[h].there /\ entries[h].length >= acked[h].length
             /\ chunk[h].there /\ meta[h].there
  <2>1. Lasting(h) /\ acked[h].length \in Nat
    BY <1>1 DEF DurableInv, Lasts
  <2>2. entries[h].there /\ acked[h].length <= entries[h].length
    BY <1>1, <2>1 DEF Lasting
  <2>3. entries[h].length \in Int
    BY <1>1, <2>2 DEF StoreInv, FilesInv, EntryOK
  <2> QED
    BY <2>1, <2>2, <2>3 DEF Lasting
<1>2. ASSUME SumInv, DurableInv, StoreInv, up, NEW h \in Handle, acked[h].length > 0,
             NEW b \in Block, b \notin dirty[h],
             \A i \in Cell : BlockOf(i) = b => chunk[h].cell[i] # Damaged
      PROVE  Verifies(h, b)
  <2>1. entries[h].there /\ chunk[h].there /\ meta[h].there
    BY <1>1, <1>2
  <2>2. CleanBlock(chunk[h], diskChunk[h], meta[h], diskMeta[h], entries[h], b)
    BY <1>2 DEF DurableInv, Clean
  <2>3. /\ Alike(chunk[h], diskChunk[h], b) /\ Extent(b, entries[h].length, chunk[h].size)
        /\ Taken(entries[h].sums[b], diskChunk[h], b)
    BY <2>1, <2>2 DEF CleanBlock
  <2>4. Taken(entries[h].sums[b], chunk[h], b)
    BY <2>3, AlikeTaken
  <2>5. entries[h].sums[b] = Sum(chunk[h].cell, b, chunk[h].size)
    BY <1>2, <2>4 DEF Taken, Intact
  <2>6. Sum(chunk[h].cell, b, entries[h].length) = Sum(chunk[h].cell, b, chunk[h].size)
    BY <2>3, SameSum
  <2> QED
    BY <2>5, <2>6 DEF Verifies
<1>3. SumInv /\ DurableInv /\ StoreInv => AckedReadable
  <2> SUFFICES ASSUME SumInv, DurableInv, StoreInv, up, NEW h \in Handle, acked[h].length > 0
               PROVE  /\ entries[h].there
                      /\ entries[h].length >= acked[h].length
                      /\ \A b \in Block \ dirty[h] :
                           LET cells == {i \in Cell : BlockOf(i) = b}
                               shown == {i \in cells : i < acked[h].length}
                           IN  shown # {} /\ (\A i \in cells : chunk[h].cell[i] # Damaged) =>
                                 Verifies(h, b) /\ \A i \in shown : chunk[h].cell[i] \in want[h][i]
    BY DEF AckedReadable
  <2>1. ASSUME NEW b \in Block, b \notin dirty[h],
               \A i \in Cell : BlockOf(i) = b => chunk[h].cell[i] # Damaged
        PROVE  /\ Verifies(h, b)
               /\ \A i \in Cell : BlockOf(i) = b /\ i < acked[h].length =>
                    chunk[h].cell[i] \in want[h][i]
    <3>1. Verifies(h, b)
      BY <1>2, <2>1
    <3>2. ASSUME NEW i \in Cell, BlockOf(i) = b, i < acked[h].length
          PROVE  chunk[h].cell[i] \in want[h][i]
      <4>1. i < entries[h].length
        <5>1. entries[h].there /\ entries[h].length >= acked[h].length
          BY <1>1
        <5>2. entries[h].length \in Int /\ acked[h].length \in Int
          BY <5>1 DEF StoreInv, FilesInv, EntryOK, DurableInv, Lasts
        <5> QED
          BY <3>2, <5>1, <5>2, Numbers
      <4> QED
        BY <3>1, <3>2, <4>1, Shown
    <3> QED
      BY <3>1, <3>2
  <2> QED
    BY <1>1, <2>1
<1>4. Init => VersionInv /\ StoreInv /\ SumInv /\ DurableInv
  BY InitVersionInv, StoreInit, SumInit, DurableInit
<1>5. VersionInv /\ StoreInv /\ SumInv /\ DurableInv /\ [Next]_vars =>
        (VersionInv /\ StoreInv /\ SumInv /\ DurableInv)'
  BY StepKeeps, StoreStep, SumStep, DurableStep
<1> QED
  BY <1>3, <1>4, <1>5, PTL DEF Spec

=============================================================================
