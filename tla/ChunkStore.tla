---------------------------- MODULE ChunkStore ----------------------------
(***************************************************************************)
(* The chunks of one chunkserver: src/src/chunkserver/chunk_store.cc.      *)
(*                                                                         *)
(* Each chunk has a file of data and a file with its version and the       *)
(* checksum of every block.  A byte is a cell, a mutation fills its cells  *)
(* with its own number, and a checksum is the content that it was taken    *)
(* of: two contents never have the same.                                   *)
(*                                                                         *)
(* Every file is kept twice: as the system shows it (chunk, meta), and as  *)
(* it is on the disk (diskChunk, diskMeta), where fsync brings it, with    *)
(* its directory entry when the file is new (as Linux file systems do; no  *)
(* directory is synced here).  After                                       *)
(* a crash each cell, checksum, size, version and directory entry is the   *)
(* one or the other.                                                       *)
(*                                                                         *)
(* One action is what happens between two places where a crash or a        *)
(* failure makes a difference.  Operations on different chunks share       *)
(* nothing but the table, so one operation runs at a time, beside reads    *)
(* and Remove, which do not wait for it.                                   *)
(***************************************************************************)
EXTENDS Integers

CONSTANTS
  Handle,      \* chunk handles
  Version,     \* chunk versions
  NewVersion,  \* those that chunks are created with
  ChunkSize,   \* config.chunk_size, in cells
  BlockSize,   \* config.checksum_block_size
  Range,       \* what is written, as <<first cell, first cell after>>
  PadFrom,     \* offsets of pads
  Fault,       \* what may go wrong: "io", "short", "crash", "rot"
  MaxOps,      \* bound: mutations and changes of versions
  MaxFaults    \* bound: faults

ASSUME StoreAssumption ==
  /\ ChunkSize \in Nat \ {0} /\ BlockSize \in Nat \ {0}
  /\ MaxOps \in Nat /\ MaxFaults \in Nat
  /\ Version \subseteq Nat \ {0} /\ NewVersion \subseteq Version
  /\ PadFrom \subseteq 0..ChunkSize
  /\ Range \subseteq {r \in (0..ChunkSize) \X (0..ChunkSize) : r[1] < r[2]}

VARIABLES
  chunk, diskChunk,  \* the files of data
  meta, diskMeta,    \* the files of versions and checksums
  entries,           \* the table: version, length and checksums of open chunks
  up,                \* whether the chunkserver runs
  op,                \* the operation in progress
  corrupt,           \* corrupt_: the chunks that a read found damaged
  left,              \* operations and faults that may still happen
  want,              \* history: what each cell may show
  dirty,             \* history: blocks touched by what was not acknowledged
  acked              \* history: acknowledged length, and versions it may have

files == <<chunk, meta>>
disks == <<diskChunk, diskMeta>>
history == <<want, dirty, acked>>
vars == <<files, disks, entries, up, op, corrupt, left, history>>

Cell == 0..(ChunkSize - 1)
Block == {i \div BlockSize : i \in Cell}
BlockOf(i) == i \div BlockSize
Touched(first, after) == {BlockOf(i) : i \in first..(after - 1)}
Damaged == -1

Lesser(m, n) == IF m < n THEN m ELSE n
Greater(m, n) == IF m > n THEN m ELSE n

\* Crc32 of block b of a file of that length.
Sum(cell, b, length) ==
  [i \in {j \in Cell : BlockOf(j) = b /\ j < length} |-> cell[i]]

\* A checksum that is missing, or zero, matches no content.
NoSum == <<>>
NoSums == [b \in Block |-> NoSum]

NoFile == [there |-> FALSE, size |-> 0, cell |-> [i \in Cell |-> 0]]

\* version = 0: the file is shorter than its header.
NoMeta == [there |-> FALSE, version |-> 0, sums |-> NoSums]
NoEntry == [there |-> FALSE, version |-> 0, length |-> 0, sums |-> NoSums]
NoOp == [pc |-> "idle"]

\* Create and CreateCopy hold table_mutex_, and all others wait.
Creating == op.pc # "idle" /\ op.kind \in {"create", "copy"}

Free(h) == up /\ op.pc = "idle" /\ entries[h].there

\* The content of the block is the one that its checksum was taken of.
Verifies(h, b) ==
  entries[h].sums[b] = Sum(chunk[h].cell, b, entries[h].length)

\* Something goes wrong, and the operation ends.
Fails(fault) ==
  /\ fault \in Fault /\ left.faults > 0
  /\ left' = [left EXCEPT !.faults = @ - 1]
  /\ op' = NoOp

-----------------------------------------------------------------------------
(* Write and Pad.                                                          *)

\* A mutation of the cells from first to after, that makes those from gap on
\* readable.
Begin(h, first, after, gap, value) ==
  /\ op' = [kind |-> "write", pc |-> "data", h |-> h, first |-> first,
            after |-> after, gap |-> gap, value |-> value]
  /\ left' = [left EXCEPT !.ops = @ - 1]
  /\ dirty' = [dirty EXCEPT ![h] = @ \cup Touched(gap, after)]
  /\ want' = [want EXCEPT ![h] = [i \in Cell |->
                @[i] \cup (IF i \in first..(after - 1) THEN {value} ELSE {})
                     \cup (IF i \in gap..(first - 1) THEN {0} ELSE {})]]
  /\ UNCHANGED <<files, disks, entries, up, corrupt, acked>>

\* Write, up to PwriteAll; what is not inside the chunk was refused.
BeginWrite(h, r) ==
  /\ Free(h) /\ left.ops > 0
  /\ Begin(h, r[1], r[2], Lesser(r[1], entries[h].length), left.ops)

\* Pad: behind the data the file is only made longer; data that is behind the
\* offset is overwritten with zeros.
BeginPad(h, from) ==
  /\ Free(h) /\ left.ops > 0
  /\ Begin(h, IF from >= entries[h].length THEN ChunkSize ELSE from, ChunkSize,
           Lesser(from, entries[h].length), 0)

\* The file when the cells from first to after are written.
Filled(f, first, after, value) ==
  [f EXCEPT !.size = Greater(@, after),
            !.cell = [i \in Cell |-> IF i \in first..(after - 1) THEN value ELSE @[i]]]

\* Mutant of Recomputed: the blocks between the end of the data and the offset
\* are left out.
Recomputed_NoGap(o, length) == Touched(Lesser(o.first, length - 1), length)

\* RecomputeBlocks: from the first block that changes to the end of the chunk.
Recomputed(o, length) == Touched(o.gap, length)

Overlaid(sums, blocks, new) == [b \in Block |-> IF b \in blocks THEN new[b] ELSE sums[b]]

\* No checksum would tell what is wrong with cell i: its block did not verify,
\* or it is damaged behind the end of the data, where a write that failed had
\* left something.
Unchecked(h, i, f) ==
  \/ ~Verifies(h, BlockOf(i))
  \/ i >= entries[h].length /\ f.cell[i] = Damaged

\* The data is written.  RecomputeBlocks reads the blocks back, with what was
\* not written, and whatever it finds has a valid checksum now, even where the
\* block did not verify before.
WriteData ==
  /\ op.pc = "data"
  /\ LET h == op.h
         f == Filled(chunk[h], op.first, op.after, op.value)
         length == Greater(entries[h].length, op.after)
         blocks == Recomputed(op, length)
     IN  /\ chunk' = [chunk EXCEPT ![h] = f]
         /\ entries' = [entries EXCEPT ![h] =
              [there |-> @.there, version |-> @.version, length |-> length,
               sums |-> Overlaid(@.sums, blocks, [b \in Block |-> Sum(f.cell, b, length)])]]
         /\ want' = [want EXCEPT ![h] = [i \in Cell |->
              IF BlockOf(i) \in blocks /\ Unchecked(h, i, f) THEN @[i] \cup {f.cell[i]}
              ELSE @[i]]]
  /\ op' = [op EXCEPT !.pc = "sums"]
  /\ UNCHANGED <<meta, disks, up, corrupt, left, dirty, acked>>

\* The data is written up to the cell n, or (a full disk) up to somewhere in
\* between; the entry is as before.
WriteDataFails ==
  /\ op.pc = "data"
  /\ \E n \in op.first..(op.after - 1) :
       /\ Fails(IF n = op.first THEN "io" ELSE "short")
       /\ chunk' = [chunk EXCEPT ![op.h] =
                      IF n = op.first THEN @ ELSE Filled(@, op.first, n, op.value)]
  /\ UNCHANGED <<meta, disks, entries, up, corrupt, history>>

\* The data is written and cannot be read back: the entry has its length and
\* no new checksums.
ReadBackFails ==
  /\ op.pc = "data"
  /\ Fails("io")
  /\ chunk' = [chunk EXCEPT ![op.h] = Filled(@, op.first, op.after, op.value)]
  /\ entries' = [entries EXCEPT ![op.h].length = Greater(@, op.after)]
  /\ UNCHANGED <<meta, disks, up, corrupt, history>>

\* RecomputeBlocks writes the checksums of these blocks.
PutSums(h, blocks) ==
  meta' = [meta EXCEPT ![h].sums = Overlaid(@, blocks, entries[h].sums)]

WriteSums ==
  /\ op.pc = "sums"
  /\ PutSums(op.h, Recomputed(op, entries[op.h].length))
  /\ op' = [op EXCEPT !.pc = "sync"]
  /\ UNCHANGED <<chunk, disks, entries, up, corrupt, left, history>>

WriteSumsFails ==
  /\ op.pc = "sums"
  /\ \E n \in Block :
       /\ Fails(IF n = 0 THEN "io" ELSE "short")
       /\ PutSums(op.h, {b \in Recomputed(op, entries[op.h].length) : b < n})
  /\ UNCHANGED <<chunk, disks, entries, up, corrupt, history>>

-----------------------------------------------------------------------------
(* Create and CreateCopy.                                                  *)

\* OpenEntry creates both files, which must not be there.  (No handle is given
\* to another chunk after its chunk was removed.)
CreateFiles(h, version, kind, from) ==
  /\ up /\ op.pc = "idle" /\ ~entries[h].there
  /\ ~chunk[h].there /\ ~meta[h].there /\ ~diskChunk[h].there /\ ~diskMeta[h].there
  /\ kind = "copy" => entries[from].there /\ from # h
  /\ chunk' = [chunk EXCEPT ![h].there = TRUE]
  /\ meta' = [meta EXCEPT ![h].there = TRUE]
  /\ op' = [kind |-> kind, pc |-> "header", h |-> h, version |-> version, from |-> from]
  /\ want' = [want EXCEPT ![h] = IF kind = "copy" THEN want[from] ELSE @]
  /\ dirty' = [dirty EXCEPT ![h] = IF kind = "copy" THEN Block ELSE {}]
  /\ acked' = [acked EXCEPT ![h].versions = {version}]
  /\ UNCHANGED <<disks, entries, up, corrupt, left>>

\* The chunk is in the table, as a copy of length, sums.
Open(h, length, sums) ==
  /\ entries' = [entries EXCEPT ![h] =
                   [there |-> TRUE, version |-> op.version, length |-> length,
                    sums |-> sums]]
  /\ op' = NoOp

\* WriteVersion for a new file; Create is done.
WriteHeader ==
  /\ op.pc = "header"
  /\ meta' = [meta EXCEPT ![op.h].version = op.version]
  /\ diskMeta' = [diskMeta EXCEPT ![op.h] = meta'[op.h]]
  /\ IF op.kind = "create" THEN Open(op.h, 0, NoSums)
     ELSE op' = [op EXCEPT !.pc = "copy"] /\ UNCHANGED entries
  /\ UNCHANGED <<chunk, diskChunk, up, corrupt, left, history>>

\* The files stay, without an entry: the chunk cannot be created again.
WriteHeaderFails ==
  /\ op.pc = "header"
  /\ Fails("io")
  /\ \/ meta' = [meta EXCEPT ![op.h].version = op.version]
     \/ UNCHANGED meta
  /\ UNCHANGED <<chunk, disks, entries, up, corrupt, history>>

\* The first n cells of the source.
CopyOf(f, n) == [there |-> TRUE, size |-> n,
                 cell |-> [i \in Cell |-> IF i < n THEN f.cell[i] ELSE 0]]

CopyData ==
  /\ op.pc = "copy"
  /\ chunk' = [chunk EXCEPT ![op.h] = CopyOf(chunk[op.from], entries[op.from].length)]
  /\ op' = [op EXCEPT !.pc = "copysums"]
  /\ UNCHANGED <<meta, disks, entries, up, corrupt, left, history>>

CopyDataFails ==
  /\ op.pc = "copy"
  /\ \E n \in 0..(entries[op.from].length - 1) :
       /\ Fails(IF n = 0 THEN "io" ELSE "short")
       /\ chunk' = [chunk EXCEPT ![op.h] = CopyOf(chunk[op.from], n)]
  /\ UNCHANGED <<meta, disks, entries, up, corrupt, history>>

\* Mutant of CopiedSums: the checksums are taken of what was read.
CopiedSums_Anew(o) ==
  [b \in Block |-> Sum(chunk[o.h].cell, b, entries[o.from].length)]

\* The checksums are those of the source, not of what was read from it.
CopiedSums(o) == entries[o.from].sums

CopySums ==
  /\ op.pc = "copysums"
  /\ meta' = [meta EXCEPT ![op.h].sums = CopiedSums(op)]
  /\ op' = [op EXCEPT !.pc = "sync"]
  /\ UNCHANGED <<chunk, disks, entries, up, corrupt, left, history>>

-----------------------------------------------------------------------------
(* fsync, and the end of a mutation or a copy.                             *)

SyncData ==
  /\ op.pc = "sync"
  /\ diskChunk' = [diskChunk EXCEPT ![op.h] = chunk[op.h]]
  /\ op' = [op EXCEPT !.pc = "syncmeta"]
  /\ UNCHANGED <<files, diskMeta, entries, up, corrupt, left, history>>

\* Blocks whose extent would be another if the length were that of the file,
\* which is longer when a write failed part way.
Overhang(h, length) ==
  IF chunk[h].size > length THEN {b \in Block : (b + 1) * BlockSize > length} ELSE {}

\* The mutation is acknowledged: the cells are what it wrote, and the blocks from
\* there to the end of the chunk are in order.
Acknowledge(o) ==
  LET length == entries[o.h].length IN
  /\ want' = [want EXCEPT ![o.h] = [i \in Cell |->
                IF i \in o.first..(o.after - 1) THEN {o.value} ELSE @[i]]]
  /\ dirty' = [dirty EXCEPT ![o.h] =
                 (@ \ Touched(o.gap, length)) \cup Overhang(o.h, length)]
  /\ acked' = [acked EXCEPT ![o.h].length = Greater(@, o.after)]

\* A copy is acknowledged with what was acknowledged of its source.
AcknowledgeCopy(o) ==
  /\ dirty' = [dirty EXCEPT ![o.h] = dirty[o.from]]
  /\ acked' = [acked EXCEPT ![o.h].length = acked[o.from].length]
  /\ UNCHANGED want

SyncMeta ==
  /\ op.pc = "syncmeta"
  /\ diskMeta' = [diskMeta EXCEPT ![op.h] = meta[op.h]]
  /\ IF op.kind = "copy"
     THEN /\ Open(op.h, entries[op.from].length, meta[op.h].sums)
          /\ AcknowledgeCopy(op)
     ELSE /\ op' = NoOp
          /\ Acknowledge(op)
          /\ UNCHANGED entries
  /\ UNCHANGED <<files, diskChunk, up, corrupt, left>>

\* A write of checksums for a copy, or an fsync, fails; what is not synced may
\* still be later.
SyncFails ==
  /\ op.pc \in {"copysums", "sync", "syncmeta", "version"}
  /\ Fails("io")
  /\ UNCHANGED <<files, disks, entries, up, corrupt, history>>

-----------------------------------------------------------------------------
(* SetVersion, Remove, Read and the list of corrupt chunks.                *)

\* SetVersion, when the version is another.
BeginSetVersion(h, version) ==
  /\ Free(h) /\ left.ops > 0
  /\ version # entries[h].version
  /\ meta' = [meta EXCEPT ![h].version = version]
  /\ op' = [kind |-> "version", pc |-> "version", h |-> h, version |-> version]
  /\ acked' = [acked EXCEPT ![h].versions = @ \cup {version}]
  /\ left' = [left EXCEPT !.ops = @ - 1]
  /\ UNCHANGED <<chunk, disks, entries, up, corrupt, want, dirty>>

\* Mutant of SyncVersion: the file is not synced.
SyncVersion_Not ==
  /\ op.pc = "version"
  /\ entries' = [entries EXCEPT ![op.h].version = op.version]
  /\ acked' = [acked EXCEPT ![op.h].versions = {op.version}]
  /\ op' = NoOp
  /\ UNCHANGED <<files, disks, up, corrupt, left, want, dirty>>

SyncVersion ==
  /\ op.pc = "version"
  /\ diskMeta' = [diskMeta EXCEPT ![op.h] = meta[op.h]]
  /\ entries' = [entries EXCEPT ![op.h].version = op.version]
  /\ acked' = [acked EXCEPT ![op.h].versions = {op.version}]
  /\ op' = NoOp
  /\ UNCHANGED <<files, diskChunk, up, corrupt, left, want, dirty>>

\* Remove does not wait for a mutation, which goes on with files that have no
\* name any more.
Remove(h) ==
  /\ up /\ entries[h].there /\ ~Creating
  /\ entries' = [entries EXCEPT ![h] = NoEntry]
  /\ chunk' = [chunk EXCEPT ![h] = NoFile]
  /\ meta' = [meta EXCEPT ![h] = NoMeta]
  /\ corrupt' = corrupt \ {h}
  /\ op' = IF op.pc # "idle" /\ op.h = h THEN NoOp ELSE op
  /\ acked' = [acked EXCEPT ![h].length = 0]
  /\ UNCHANGED <<disks, up, left, want, dirty>>

\* Read finds a block that does not verify; what verifies is returned.
ReadDamaged(h, b) ==
  /\ up /\ entries[h].there /\ ~Creating
  /\ op.pc # "idle" => op.h # h
  /\ b * BlockSize < entries[h].length /\ ~Verifies(h, b)
  /\ h \notin corrupt
  /\ corrupt' = corrupt \cup {h}
  /\ UNCHANGED <<files, disks, entries, up, op, left, history>>

\* ClearCorrupt, after a heartbeat that told of these chunks.
ClearCorrupt ==
  /\ up
  /\ \E told \in (SUBSET corrupt) \ {{}} : corrupt' = corrupt \ told
  /\ UNCHANGED <<files, disks, entries, up, op, left, history>>

-----------------------------------------------------------------------------
(* Damage, crashes and restarts.                                           *)

\* A cell is damaged on the disk.
Rot(h, i) ==
  /\ op.pc = "idle" /\ Fails("rot")
  /\ i < chunk[h].size /\ i < diskChunk[h].size
  /\ chunk' = [chunk EXCEPT ![h].cell[i] = Damaged]
  /\ diskChunk' = [diskChunk EXCEPT ![h].cell[i] = Damaged]
  /\ UNCHANGED <<meta, diskMeta, entries, up, corrupt, history>>

\* What a crash may leave of a file that is d on the disk and f in memory; a
\* file that was removed, or is new, may be there or not.
FileLeft(d, f) ==
  IF ~f.there THEN {NoFile, d}
  ELSE (IF d.there THEN {} ELSE {NoFile}) \cup
       {[there |-> TRUE, size |-> n,
         cell |-> [i \in Cell |-> IF i >= n THEN 0
                                  ELSE IF i \in kept THEN f.cell[i] ELSE d.cell[i]]] :
          n \in {d.size, f.size}, kept \in SUBSET {i \in Cell : f.cell[i] # d.cell[i]}}

MetaLeft(d, f) ==
  IF ~f.there THEN {NoMeta, d}
  ELSE (IF d.there THEN {} ELSE {NoMeta}) \cup
       {[there |-> TRUE, version |-> v, sums |-> Overlaid(d.sums, kept, f.sums)] :
          v \in {d.version, f.version},
          kept \in SUBSET {b \in Block : f.sums[b] # d.sums[b]}}

Crash ==
  /\ up /\ Fails("crash")
  /\ up' = FALSE
  /\ \E c \in [Handle -> UNION {FileLeft(diskChunk[h], chunk[h]) : h \in Handle}] :
       /\ \A h \in Handle : c[h] \in FileLeft(diskChunk[h], chunk[h])
       /\ chunk' = c /\ diskChunk' = c
  /\ \E m \in [Handle -> UNION {MetaLeft(diskMeta[h], meta[h]) : h \in Handle}] :
       /\ \A h \in Handle : m[h] \in MetaLeft(diskMeta[h], meta[h])
       /\ meta' = m /\ diskMeta' = m
  /\ entries' = [h \in Handle |-> NoEntry]
  /\ corrupt' = {}
  /\ UNCHANGED history

\* Mutant of Opened: the size of the file of checksums is not looked at.
Opened_AnyMeta(h) ==
  IF chunk[h].there
  THEN [there |-> TRUE, version |-> meta[h].version, length |-> chunk[h].size,
        sums |-> meta[h].sums]
  ELSE NoEntry

\* OpenEntry for files that are there: the length is that of the file, and the
\* checksums are as many as the length needs.
Opened(h) ==
  IF chunk[h].there /\ meta[h].there /\ meta[h].version # 0
  THEN [there |-> TRUE, version |-> meta[h].version, length |-> chunk[h].size,
        sums |-> [b \in Block |-> IF b * BlockSize < chunk[h].size
                                  THEN meta[h].sums[b] ELSE NoSum]]
  ELSE NoEntry

\* Scan opens what has both files and removes checksums without data.
Scan ==
  /\ ~up
  /\ up' = TRUE
  /\ entries' = [h \in Handle |-> Opened(h)]
  /\ meta' = [h \in Handle |-> IF chunk[h].there THEN meta[h] ELSE NoMeta]
  /\ UNCHANGED <<chunk, disks, op, corrupt, left, history>>

-----------------------------------------------------------------------------
Init ==
  /\ chunk = [h \in Handle |-> NoFile] /\ diskChunk = chunk
  /\ meta = [h \in Handle |-> NoMeta] /\ diskMeta = meta
  /\ entries = [h \in Handle |-> NoEntry]
  /\ up = TRUE
  /\ op = NoOp
  /\ corrupt = {}
  /\ left = [ops |-> MaxOps, faults |-> MaxFaults]
  /\ want = [h \in Handle |-> [i \in Cell |-> {}]]
  /\ dirty = [h \in Handle |-> {}]
  /\ acked = [h \in Handle |-> [length |-> 0, versions |-> {}]]

MutationStep == WriteData \/ WriteDataFails \/ ReadBackFails \/ WriteSums \/ WriteSumsFails

CreateStep == WriteHeader \/ WriteHeaderFails \/ CopyData \/ CopyDataFails \/ CopySums

SyncStep == SyncData \/ SyncMeta \/ SyncVersion \/ SyncFails

Request(h) ==
  \/ \E r \in Range : BeginWrite(h, r)
  \/ \E from \in PadFrom : BeginPad(h, from)
  \/ \E v \in Version : BeginSetVersion(h, v)
  \/ \E v \in NewVersion : \/ CreateFiles(h, v, "create", h)
                            \/ \E from \in Handle : CreateFiles(h, v, "copy", from)
  \/ Remove(h)
  \/ \E b \in Block : ReadDamaged(h, b)

Next ==
  \/ \E h \in Handle : Request(h) \/ \E i \in Cell : Rot(h, i)
  \/ MutationStep \/ CreateStep \/ SyncStep
  \/ ClearCorrupt \/ Crash \/ Scan

Spec == Init /\ [][Next]_vars

-----------------------------------------------------------------------------
(* Properties.                                                             *)

FileOK(f) ==
  /\ f.there \in BOOLEAN
  /\ f.size \in 0..ChunkSize
  /\ DOMAIN f.cell = Cell
  /\ \A i \in Cell : /\ f.cell[i] \in 0..MaxOps \cup {Damaged}
                     /\ i >= f.size => f.cell[i] = 0

\* The type invariant: an open chunk has both its files, and the file of data
\* is as long as the entry says; it is longer after a write that failed.
TypeOK ==
  /\ \A h \in Handle : FileOK(chunk[h]) /\ FileOK(diskChunk[h])
  /\ \A h \in Handle : entries[h].there =>
       /\ up /\ chunk[h].there /\ meta[h].there
       /\ entries[h].version \in Version
       /\ entries[h].length <= chunk[h].size
  /\ corrupt \subseteq Handle

\* What was acknowledged is readable, now and after any crash and restart,
\* in every block that no failed or unfinished mutation has touched since.
\* (Blocks that one has touched may be lost, with all that was acknowledged in
\* them: data and checksum are not written together.)
AckedReadable ==
  up => \A h \in Handle : acked[h].length > 0 =>
    /\ entries[h].there
    /\ entries[h].length >= acked[h].length
    /\ \A b \in Block \ dirty[h] :
         LET cells == {i \in Cell : BlockOf(i) = b}
             shown == {i \in cells : i < acked[h].length}
         IN  shown # {} /\ (\A i \in cells : chunk[h].cell[i] # Damaged) =>
               Verifies(h, b) /\ \A i \in shown : chunk[h].cell[i] \in want[h][i]

\* Read returns what was written (or padded), be it acknowledged or not, and no
\* damage, not even through a copy; except what a mutation found in a block that
\* did not verify, or damaged behind the end of the data: RecomputeBlocks gives
\* it a valid checksum.
ReadTrue ==
  \A h \in Handle, b \in Block : entries[h].there /\ Verifies(h, b) =>
    \A i \in Cell : BlockOf(i) = b /\ i < entries[h].length =>
      chunk[h].cell[i] \in want[h][i]

\* The version is the acknowledged one, or one whose SetVersion failed or is
\* not finished; no crash brings back an older one.
VersionKept ==
  \A h \in Handle : entries[h].there => entries[h].version \in acked[h].versions
=============================================================================
