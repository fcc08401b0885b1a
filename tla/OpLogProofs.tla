---------------------------- MODULE OpLogProofs ----------------------------
(***************************************************************************)
(* Proofs about OpLog for every number of records and segments, every      *)
(* threshold, and sinks that do not fail.                                  *)
(*                                                                         *)
(* The argument.  While a checkpoint's rename is not yet durable, a crash  *)
(* may bring back the checkpoint before it; the "base" is the newest       *)
(* checkpoint that a crash cannot take away.  The invariant says that the  *)
(* base with the segments after it holds, in order, all that was applied   *)
(* and is not in the flusher's hands (DiskInv), and that a checkpoint on   *)
(* its way holds exactly the base and the segments before its own number   *)
(* (WriterInv), so that neither its appearance nor the removal of what     *)
(* lies before it changes what recovery finds.                             *)
(***************************************************************************)
EXTENDS OpLog, FiniteSetTheorems, TLAPS

Base == IF writer.pc = "renamed" THEN ckpts \ {writer.number} ELSE ckpts
IsBase(n) == n \in Base /\ \A m \in Base : m <= n

\* What checkpoint n and the segments below k hold.
Below(n, k) == ckpt[n] \cup UNION {seg[s] : s \in {t \in Replayed(n) : t < k}}

ShapeInv ==
  /\ segment \in files
  /\ \A s \in files : s <= segment
  /\ \A s \in Segment : s > segment => seg[s] = {}
  /\ \A n \in ckpts : n <= segment
  /\ status # "down" => torn = {}
  /\ torn \subseteq {segment}

ControlInv ==
  /\ ~Running => /\ pending = {} /\ batch = {} /\ flusher = "idle"
                 /\ writer.pc = "none"
  /\ status # "up" => waiting = {}
  /\ flusher \in {"idle", "check", "rotate", "join"} => batch = {}
  /\ ~StateMutexFree => pending = {}

NumberInv ==
  /\ \A r \in mem : r < next
  /\ flushed < next
  /\ status = "up" => waiting \subseteq mem
  /\ \A b \in batch, p \in pending : b < p
  /\ \A p \in pending : flushed < p
  /\ flusher \in {"write", "rwrite"} => \A b \in batch : flushed < b

WriterInv ==
  /\ \E n \in ckpts : IsBase(n)
  /\ writer.pc # "none" => writer.number <= segment
  /\ writer.pc = "write" => \A m \in ckpts : m < writer.number
  /\ writer.pc \in {"renamed", "segments", "checkpoints"} =>
       IsLatest(writer.number)
  /\ flusher = "join" =>
       /\ \A m \in ckpts : m < segment
       /\ writer.pc # "none" => writer.number < segment
  /\ writer.pc = "renamed" => ckpt[writer.number] = writer.state
  /\ \A n \in ckpts : IsBase(n) =>
       /\ writer.pc \in {"write", "renamed"} =>
            writer.state = Below(n, writer.number)
       /\ flusher = "join" => snap = Below(n, segment)

InOrder(n) ==
  \A s \in Replayed(n) :
    /\ \A c \in ckpt[n], r \in seg[s] : c < r
    /\ \A t \in Replayed(n) : s < t => \A q \in seg[s], r \in seg[t] : q < r

\* What the disk owes to the process, and to those it answered.
Owed(n) ==
  /\ acked \subseteq RecoveredFrom(n)
  /\ Running => mem = RecoveredFrom(n) \cup batch \cup pending
  /\ status = "stopped" => mem = RecoveredFrom(n)
  /\ RecoveredFrom(n) \subseteq mem
  /\ \A r \in RecoveredFrom(n), q \in mem : q < r => q \in RecoveredFrom(n)
  /\ flusher \in {"ack", "rack"} => batch \subseteq RecoveredFrom(n)
  /\ flusher \in {"write", "rwrite"} =>
       \A r \in RecoveredFrom(n), q \in batch : r < q
  /\ \A r \in RecoveredFrom(n), q \in pending : r < q

DiskInv == \A n \in ckpts : IsBase(n) => InOrder(n) /\ Owed(n)

IInv == /\ TypeOK /\ ShapeInv /\ ControlInv /\ NumberInv /\ WriterInv /\ DiskInv

-----------------------------------------------------------------------------
\* A set of records is finite, so the sink's size is a number.
LEMMA RecordCount ==
  ASSUME NEW S \in SUBSET Record
  PROVE  Cardinality(S) \in Nat
<1>1. IsFiniteSet(Record)
  BY OpLogAssumption, FS_Interval DEF Record
<1> QED
  BY <1>1, FS_Subset, FS_CardinalityType

\* Every step keeps every variable in its type.
LEMMA TypeStep == TypeOK /\ [Next]_vars => TypeOK'
<1> SUFFICES ASSUME TypeOK, [Next]_vars PROVE TypeOK'
  OBVIOUS
<1> USE OpLogAssumption DEF Record, Segment, procVars, diskVars
<1>1. CASE Append
  BY <1>1 DEF TypeOK, Append
<1>2. ASSUME NEW r \in Record, WaitFlushed(r) PROVE TypeOK'
  BY <1>2 DEF TypeOK, WaitFlushed
<1>3. CASE TakeBatch
  BY <1>3 DEF TypeOK, TakeBatch, FlusherPC
<1>4. CASE WriteBatch
  <2>1. size' \in Nat
    BY <1>4, RecordCount DEF TypeOK, WriteBatch
  <2> QED BY <1>4, <2>1 DEF TypeOK, WriteBatch, FlusherPC, Appended
<1>5. CASE WriteBatchFails
  <2>1. PICK k \in 0..MaxRecord :
          /\ seg' = Appended(segment, Prefix(k))
          /\ torn' \in {torn, torn \cup {segment}}
    BY <1>5 DEF WriteBatchFails
  <2>2. seg' \in [Segment -> SUBSET Record]
    BY <2>1 DEF TypeOK, Appended, Prefix
  <2>3. torn' \subseteq Segment
    BY <2>1 DEF TypeOK
  <2>4. size' \in Nat
    BY <1>5, RecordCount DEF TypeOK, WriteBatchFails
  <2>5. flusher' \in FlusherPC
    BY <1>5 DEF WriteBatchFails, FlusherPC
  <2> QED BY <1>5, <2>2, <2>3, <2>4, <2>5 DEF TypeOK, WriteBatchFails
<1>6. CASE SetFlushed
  <2>1. flushed' \in batch \/ flushed' = flushed
    BY <1>6 DEF SetFlushed
  <2>2. batch \subseteq 1..MaxRecord /\ flushed \in 0..MaxRecord
    BY DEF TypeOK
  <2>3. flushed' \in 0..MaxRecord
    <3>1. CASE flushed' \in batch
      BY <2>2, <3>1
    <3>2. CASE flushed' = flushed
      BY <2>2, <3>2
    <3> QED BY <2>1, <3>1, <3>2
  <2> QED BY <1>6, <2>3 DEF TypeOK, SetFlushed, FlusherPC
<1>7. CASE NoRotation
  BY <1>7 DEF TypeOK, NoRotation, FlusherPC
<1>8. CASE RotateTakeBatch
  BY <1>8 DEF TypeOK, RotateTakeBatch, FlusherPC
<1>9. CASE RotateSwitch
  BY <1>9 DEF TypeOK, RotateSwitch, FlusherPC
<1>10. CASE StartCheckpointWriter
  <2>1. writer' \in [pc : WriterPC, number : Segment, state : SUBSET Record]
    BY <1>10 DEF TypeOK, StartCheckpointWriter, WriterPC
  <2> QED BY <1>10, <2>1 DEF TypeOK, StartCheckpointWriter, FlusherPC
<1>11. CASE WriteCheckpoint
  BY <1>11 DEF TypeOK, WriteCheckpoint, WriterPC
<1>12. CASE WriteCheckpointFails
  BY <1>12 DEF TypeOK, WriteCheckpointFails, WriterPC, NoWriter
<1>13. CASE SyncDirectory
  BY <1>13 DEF TypeOK, SyncDirectory, WriterPC
<1>14. CASE PruneSegment
  BY <1>14 DEF TypeOK, PruneSegment, OldSegments, WriterPC
<1>15. CASE PruneCheckpoint
  <2>1. writer' \in [pc : WriterPC, number : Segment, state : SUBSET Record]
    BY <1>15 DEF TypeOK, PruneCheckpoint, WriterPC, NoWriter
  <2>2. /\ ckpts' \subseteq Segment \cup {0}
        /\ ckpt' \in [Segment \cup {0} -> SUBSET Record]
    BY <1>15 DEF TypeOK, PruneCheckpoint, OldCheckpoints
  <2> QED BY <1>15, <2>1, <2>2 DEF TypeOK, PruneCheckpoint
<1>16. CASE Stop
  BY <1>16 DEF TypeOK, Stop
<1>17. CASE Stopped
  BY <1>17 DEF TypeOK, Stopped
<1>18. CASE Crash
  <2>1. /\ seg' \in [Segment -> SUBSET Record]
        /\ torn' \subseteq Segment
    <3>1. CASE CrashDuringWrite
      <4>1. PICK k \in 0..MaxRecord :
              /\ seg' = Appended(segment, Prefix(k))
              /\ torn' \in {torn, torn \cup {segment}}
        BY <3>1 DEF CrashDuringWrite
      <4>2. seg' \in [Segment -> SUBSET Record]
        BY <4>1 DEF TypeOK, Appended, Prefix
      <4> QED BY <4>1, <4>2 DEF TypeOK
    <3>2. CASE UNCHANGED <<seg, torn>>
      BY <3>2 DEF TypeOK
    <3> QED BY <1>18, <3>1, <3>2 DEF Crash
  <2>2. /\ ckpts' \subseteq Segment \cup {0}
        /\ ckpt' \in [Segment \cup {0} -> SUBSET Record]
    BY <1>18 DEF TypeOK, Crash, CrashDuringRename
  <2>3. writer' \in [pc : WriterPC, number : Segment, state : SUBSET Record]
    BY <1>18 DEF TypeOK, Crash, NoWriter, WriterPC
  <2> QED BY <1>18, <2>1, <2>2, <2>3 DEF TypeOK, Crash, FlusherPC
<1>19. CASE Recover
  <2>1. PICK n \in ckpts, a \in Segment :
          /\ mem' = RecoveredFrom(n)
          /\ torn' = torn \ Replayed(n)
          /\ segment' = a
          /\ files' = files \cup {a}
          /\ size' = Cardinality(seg[a])
    BY <1>19 DEF Recover
  <2>2. mem' \subseteq Record
    <3>1. ckpt[n] \subseteq Record
      BY DEF TypeOK
    <3>2. \A s \in Replayed(n) : seg[s] \subseteq Record
      BY DEF TypeOK, Replayed
    <3> QED BY <2>1, <3>1, <3>2 DEF RecoveredFrom
  <2>3. size' \in Nat
    BY <2>1, RecordCount DEF TypeOK
  <2>4. /\ status' = "up" /\ flushed' = 0
        /\ UNCHANGED <<next, pending, batch, flusher, waiting, snap, writer, seg,
                       ckpts, ckpt, acked>>
    BY <1>19 DEF Recover
  <2>5. torn' \subseteq Segment /\ files' \subseteq Segment
    BY <2>1 DEF TypeOK
  <2> QED BY <2>1, <2>2, <2>3, <2>4, <2>5 DEF TypeOK
<1>20. CASE UNCHANGED vars
  BY <1>20 DEF TypeOK, vars
<1> QED
  BY <1>1, <1>2, <1>3, <1>4, <1>5, <1>6, <1>7, <1>8, <1>9, <1>10, <1>11, <1>12,
     <1>13, <1>14, <1>15, <1>16, <1>17, <1>18, <1>19, <1>20
     DEF Next, FlusherNext, WriterNext

-----------------------------------------------------------------------------
\* What the flusher holds was applied.
LEMMA InFlightApplied ==
  IInv /\ Running => batch \subseteq mem /\ pending \subseteq mem
<1> SUFFICES ASSUME IInv, Running PROVE batch \subseteq mem /\ pending \subseteq mem
  OBVIOUS
<1>1. PICK n \in ckpts : IsBase(n)
  BY DEF IInv, WriterInv
<1> QED
  BY <1>1 DEF IInv, DiskInv, Owed

\* Membership in what recovery finds, without the UNION.
LEMMA RecoveredMember ==
  ASSUME NEW n, NEW r
  PROVE  r \in RecoveredFrom(n) <=>
           r \in ckpt[n] \/ \E s \in files : s >= FirstSegment(n) /\ r \in seg[s]
BY DEF RecoveredFrom, Replayed

\* The same for the segments below k.
LEMMA BelowMember ==
  ASSUME NEW n, NEW k, NEW r
  PROVE  r \in Below(n, k) <=>
           \/ r \in ckpt[n]
           \/ \E s \in files : s >= FirstSegment(n) /\ s < k /\ r \in seg[s]
BY DEF Below, Replayed

\* When no rename is in doubt the newest checkpoint is the base.
LEMMA BaseIsLatest ==
  ASSUME writer.pc # "renamed", NEW n
  PROVE  IsBase(n) <=> IsLatest(n)
BY DEF IsBase, Base, IsLatest

\* The segments and the checkpoints keep their shape.
LEMMA ShapeStep == ~SinkMayFail /\ IInv /\ Next => ShapeInv'
<1> SUFFICES ASSUME ~SinkMayFail, IInv, Next PROVE ShapeInv'
  OBVIOUS
<1>0. TypeOK /\ TypeOK' /\ ShapeInv
  BY TypeStep DEF IInv
<1> USE OpLogAssumption, <1>0 DEF diskVars
<1>1. CASE Append
  BY <1>1 DEF Append, ShapeInv
<1>2. ASSUME NEW r \in Record, WaitFlushed(r) PROVE ShapeInv'
  BY <1>2 DEF WaitFlushed, ShapeInv
<1>3. CASE TakeBatch
  BY <1>3 DEF TakeBatch, ShapeInv
<1>4. CASE WriteBatch
  <2>1. \A s \in Segment : s # segment => seg'[s] = seg[s]
    BY <1>4 DEF WriteBatch, Appended, TypeOK
  <2>2. segment \in Int
    BY DEF TypeOK, Segment
  <2>3. \A s \in Segment : s > segment => seg'[s] = {}
    BY <2>1, <2>2 DEF ShapeInv, Segment
  <2>4. UNCHANGED <<status, segment, files, torn, ckpts>>
    BY <1>4 DEF WriteBatch
  <2> QED BY <2>3, <2>4 DEF ShapeInv
<1>6. CASE SetFlushed
  BY <1>6 DEF SetFlushed, ShapeInv
<1>7. CASE NoRotation
  BY <1>7 DEF NoRotation, ShapeInv
<1>8. CASE RotateTakeBatch
  BY <1>8 DEF RotateTakeBatch, ShapeInv
<1>9. CASE RotateSwitch
  <2>1. /\ segment \in Int /\ segment' = segment + 1
        /\ files' = files \cup {segment + 1}
        /\ files \subseteq Int /\ ckpts \subseteq Int
    BY <1>9 DEF RotateSwitch, TypeOK, Segment
  <2>2. status' # "down" /\ torn = {}
    BY <1>9 DEF RotateSwitch, Running, ShapeInv
  <2>3. UNCHANGED <<seg, torn, ckpts>>
    BY <1>9 DEF RotateSwitch
  <2> QED BY <2>1, <2>2, <2>3 DEF ShapeInv, Segment
<1>10. CASE StartCheckpointWriter
  BY <1>10 DEF StartCheckpointWriter, ShapeInv
<1>11. CASE WriteCheckpoint
  BY <1>11 DEF WriteCheckpoint, ShapeInv, IInv, WriterInv
<1>12. CASE WriteCheckpointFails
  BY <1>12 DEF WriteCheckpointFails, ShapeInv
<1>13. CASE SyncDirectory
  BY <1>13 DEF SyncDirectory, ShapeInv
<1>14. CASE PruneSegment
  <2>1. writer.number <= segment
    BY <1>14 DEF PruneSegment, IInv, WriterInv
  <2>2. CASE OldSegments = {} /\ UNCHANGED <<files, seg, torn>>
    BY <1>14, <2>2 DEF PruneSegment, ShapeInv
  <2>3. ASSUME NEW s \in OldSegments, files' = files \ {s},
               seg' = [seg EXCEPT ![s] = {}], torn' = torn \ {s}
        PROVE  ShapeInv'
    <3>1. s < segment /\ s \in Segment
      BY <2>1 DEF OldSegments, TypeOK, Segment
    <3>2. \A t \in Segment : seg'[t] = {} \/ seg'[t] = seg[t]
      BY <2>3 DEF TypeOK
    <3>3. UNCHANGED <<status, segment, ckpts>>
      BY <1>14 DEF PruneSegment
    <3> QED BY <2>3, <3>1, <3>2, <3>3 DEF ShapeInv, Segment
  <2> QED BY <1>14, <2>2, <2>3 DEF PruneSegment
<1>15. CASE PruneCheckpoint
  <2>1. ckpts' \subseteq ckpts /\ UNCHANGED <<status, segment, files, seg, torn>>
    BY <1>15 DEF PruneCheckpoint
  <2> QED BY <2>1 DEF ShapeInv
<1>16. CASE Stop
  BY <1>16 DEF Stop, ShapeInv
<1>17. CASE Stopped
  BY <1>17 DEF Stopped, ShapeInv
<1>18. CASE Crash
  <2>1. ckpts' \subseteq ckpts /\ status' = "down" /\ UNCHANGED <<segment, files>>
    BY <1>18 DEF Crash, CrashDuringRename
  <2>2. torn = {}
    BY <1>18 DEF Crash, Running, ShapeInv
  <2>3. /\ torn' \subseteq {segment}
        /\ \A s \in Segment : s # segment => seg'[s] = seg[s]
    BY <1>18, <2>2 DEF Crash, CrashDuringWrite, Appended, TypeOK
  <2>4. segment \in Int
    BY DEF TypeOK, Segment
  <2>5. \A s \in Segment : s > segment => seg'[s] = {}
    BY <2>3, <2>4 DEF ShapeInv, Segment
  <2> QED BY <2>1, <2>3, <2>5 DEF ShapeInv
<1>19. CASE Recover
  <2>1. PICK n \in ckpts, a \in Segment :
          /\ IsLatest(n) /\ IsActive(a, n)
          /\ torn' = torn \ Replayed(n)
          /\ segment' = a
          /\ files' = files \cup {a}
    BY <1>19 DEF Recover
  <2>2. n <= segment /\ n \in Int /\ segment \in Int /\ segment >= 1
    BY DEF ShapeInv, TypeOK, Segment
  <2>3. a = segment
    BY <2>1, <2>2 DEF IsActive, FirstSegment, ShapeInv, Segment
  <2>4. torn' = {}
    BY <2>1, <2>2 DEF ShapeInv, Replayed, FirstSegment
  <2>5. UNCHANGED <<seg, ckpts>>
    BY <1>19 DEF Recover
  <2> QED BY <2>1, <2>3, <2>4, <2>5 DEF ShapeInv
<1> QED
  BY <1>1, <1>2, <1>3, <1>4, <1>6, <1>7, <1>8, <1>9, <1>10, <1>11, <1>12,
     <1>13, <1>14, <1>15, <1>16, <1>17, <1>18, <1>19
     DEF Next, FlusherNext, WriterNext, WriteBatchFails

\* The program counters agree with what the threads hold.
LEMMA ControlStep == ~SinkMayFail /\ IInv /\ Next => ControlInv'
<1> SUFFICES ASSUME ~SinkMayFail, IInv, Next PROVE ControlInv'
  OBVIOUS
<1>0. ControlInv
  BY DEF IInv
<1> USE <1>0 DEF diskVars, Running, StateMutexFree
<1>1. CASE Append
  BY <1>1 DEF Append, ControlInv
<1>2. ASSUME NEW r \in Record, WaitFlushed(r) PROVE ControlInv'
  BY <1>2 DEF WaitFlushed, ControlInv
<1>3. CASE TakeBatch
  BY <1>3 DEF TakeBatch, ControlInv
<1>4. CASE WriteBatch
  BY <1>4 DEF WriteBatch, ControlInv
<1>6. CASE SetFlushed
  BY <1>6 DEF SetFlushed, ControlInv
<1>7. CASE NoRotation
  BY <1>7 DEF NoRotation, ControlInv
<1>8. CASE RotateTakeBatch
  BY <1>8 DEF RotateTakeBatch, ControlInv
<1>9. CASE RotateSwitch
  BY <1>9 DEF RotateSwitch, ControlInv
<1>10. CASE StartCheckpointWriter
  BY <1>10 DEF StartCheckpointWriter, ControlInv
<1>11. CASE WriteCheckpoint
  BY <1>11 DEF WriteCheckpoint, ControlInv, WriterInv
<1>12. CASE WriteCheckpointFails
  BY <1>12 DEF WriteCheckpointFails, ControlInv, NoWriter
<1>13. CASE SyncDirectory
  BY <1>13 DEF SyncDirectory, ControlInv
<1>14. CASE PruneSegment
  BY <1>14 DEF PruneSegment, ControlInv
<1>15. CASE PruneCheckpoint
  BY <1>15 DEF PruneCheckpoint, ControlInv, NoWriter
<1>16. CASE Stop
  BY <1>16 DEF Stop, ControlInv
<1>17. CASE Stopped
  BY <1>17 DEF Stopped, ControlInv
<1>18. CASE Crash
  BY <1>18 DEF Crash, ControlInv, NoWriter
<1>19. CASE Recover
  BY <1>19 DEF Recover, ControlInv
<1> QED
  BY <1>1, <1>2, <1>3, <1>4, <1>6, <1>7, <1>8, <1>9, <1>10, <1>11, <1>12,
     <1>13, <1>14, <1>15, <1>16, <1>17, <1>18, <1>19
     DEF Next, FlusherNext, WriterNext, WriteBatchFails

\* Records are numbered in the order in which they reach the flusher.
LEMMA NumberStep == ~SinkMayFail /\ IInv /\ Next => NumberInv'
<1> SUFFICES ASSUME ~SinkMayFail, IInv, Next PROVE NumberInv'
  OBVIOUS
<1>0. /\ TypeOK /\ TypeOK' /\ ControlInv /\ NumberInv
      /\ Running => batch \subseteq mem /\ pending \subseteq mem
  BY TypeStep, InFlightApplied DEF IInv
<1>a. /\ mem \subseteq Int /\ batch \subseteq Int /\ pending \subseteq Int
      /\ next \in Int /\ next >= 1 /\ flushed \in Int
  BY <1>0, OpLogAssumption DEF TypeOK, Record
<1> USE <1>0, <1>a DEF diskVars
<1>1. CASE Append
  BY <1>1 DEF Append, NumberInv, Running, StateMutexFree, ControlInv
<1>2. ASSUME NEW r \in Record, WaitFlushed(r) PROVE NumberInv'
  BY <1>2 DEF WaitFlushed, NumberInv
<1>3. CASE TakeBatch
  BY <1>3 DEF TakeBatch, NumberInv, Running
<1>4. CASE WriteBatch
  BY <1>4 DEF WriteBatch, NumberInv, Running
<1>6. CASE SetFlushed
  BY <1>6 DEF SetFlushed, NumberInv, Running
<1>7. CASE NoRotation
  BY <1>7 DEF NoRotation, NumberInv
<1>8. CASE RotateTakeBatch
  BY <1>8 DEF RotateTakeBatch, NumberInv, Running
<1>9. CASE RotateSwitch
  BY <1>9 DEF RotateSwitch, NumberInv
<1>10. CASE StartCheckpointWriter
  BY <1>10 DEF StartCheckpointWriter, NumberInv
<1>11. CASE WriteCheckpoint
  BY <1>11 DEF WriteCheckpoint, NumberInv
<1>12. CASE WriteCheckpointFails
  BY <1>12 DEF WriteCheckpointFails, NumberInv
<1>13. CASE SyncDirectory
  BY <1>13 DEF SyncDirectory, NumberInv
<1>14. CASE PruneSegment
  BY <1>14 DEF PruneSegment, NumberInv
<1>15. CASE PruneCheckpoint
  BY <1>15 DEF PruneCheckpoint, NumberInv
<1>16. CASE Stop
  BY <1>16 DEF Stop, NumberInv
<1>17. CASE Stopped
  BY <1>17 DEF Stopped, NumberInv
<1>18. CASE Crash
  BY <1>18 DEF Crash, NumberInv, Running
<1>19. CASE Recover
  <2>1. PICK n \in ckpts : IsLatest(n) /\ mem' = RecoveredFrom(n)
    BY <1>19 DEF Recover
  <2>2. ~Running
    BY <1>19 DEF Recover, Running
  <2>3. IsBase(n)
    BY <2>1, <2>2, BaseIsLatest DEF ControlInv
  <2>4. mem' \subseteq mem
    BY <2>1, <2>3 DEF IInv, DiskInv, Owed
  <2> QED BY <1>19, <2>2, <2>4 DEF Recover, NumberInv, ControlInv
<1> QED
  BY <1>1, <1>2, <1>3, <1>4, <1>6, <1>7, <1>8, <1>9, <1>10, <1>11, <1>12,
     <1>13, <1>14, <1>15, <1>16, <1>17, <1>18, <1>19
     DEF Next, FlusherNext, WriterNext, WriteBatchFails

\* There is one newest checkpoint.
LEMMA UniqueLatest ==
  ASSUME ckpts \subseteq Int, NEW m, NEW n, IsLatest(m), IsLatest(n)
  PROVE  m = n
<1>1. m \in Int /\ n \in Int /\ m <= n /\ n <= m
  BY DEF IsLatest
<1> QED BY <1>1

\* The newest checkpoint, durable or not, recovers what the base recovers.
LEMMA LatestRecoversBase ==
  ASSUME TypeOK, WriterInv, NEW n \in ckpts, IsBase(n), NEW m \in ckpts, IsLatest(m)
  PROVE  /\ RecoveredFrom(m) = RecoveredFrom(n)
         /\ Replayed(m) \subseteq Replayed(n)
         /\ ckpt[m] \subseteq Below(n, m) \cup ckpt[n]
<1>1. CASE writer.pc # "renamed"
  <2>1. m = n
    <3>1. m <= n /\ n <= m /\ m \in Int /\ n \in Int
      BY <1>1, OpLogAssumption DEF IsBase, Base, IsLatest, TypeOK, Segment
    <3> QED BY <3>1
  <2> QED BY <2>1
<1>2. CASE writer.pc = "renamed"
  <2>1. /\ m = writer.number
        /\ n < m /\ n \in Int /\ m \in Int /\ m > 0 /\ n >= 0
        /\ files \subseteq Int
    BY <1>2, OpLogAssumption
       DEF IsBase, Base, IsLatest, TypeOK, Segment, WriterInv
  <2>2. ckpt[m] = Below(n, m)
    BY <1>2, <2>1 DEF WriterInv
  <2>3. FirstSegment(m) = m /\ FirstSegment(n) <= m /\ FirstSegment(n) \in Int
    BY <2>1 DEF FirstSegment
  <2>4. ASSUME NEW r PROVE r \in RecoveredFrom(m) <=> r \in RecoveredFrom(n)
    <3>1. r \in RecoveredFrom(m) <=>
            r \in Below(n, m) \/ \E s \in files : s >= m /\ r \in seg[s]
      BY <2>2, <2>3, RecoveredMember
    <3>2. r \in Below(n, m) <=>
            \/ r \in ckpt[n]
            \/ \E s \in files : s >= FirstSegment(n) /\ s < m /\ r \in seg[s]
      BY BelowMember
    <3>3. r \in RecoveredFrom(n) <=>
            r \in ckpt[n] \/ \E s \in files : s >= FirstSegment(n) /\ r \in seg[s]
      BY RecoveredMember
    <3>4. \A s \in files : s \in Int /\ (s >= m => s >= FirstSegment(n))
      BY <2>1, <2>3
    <3> QED BY <2>1, <3>1, <3>2, <3>3, <3>4
  <2>5. RecoveredFrom(m) = RecoveredFrom(n)
    BY <2>4
  <2>6. Replayed(m) \subseteq Replayed(n)
    <3>1. \A s \in files : s >= m => s >= FirstSegment(n)
      BY <2>1, <2>3
    <3> QED BY <2>3, <3>1 DEF Replayed
  <2> QED BY <2>2, <2>5, <2>6
<1> QED BY <1>1, <1>2

\* A step that leaves the disk, the writer and Rotate's snapshot alone.
LEMMA WriterFrame ==
  ASSUME WriterInv, UNCHANGED <<ckpts, ckpt, files, seg, writer, segment, snap>>,
         flusher' = "join" => flusher = "join"
  PROVE  WriterInv'
<1>1. \A n : IsBase(n)' <=> IsBase(n)
  BY DEF IsBase, Base
<1>2. \A n, k : Below(n, k)' = Below(n, k)
  BY DEF Below, Replayed
<1>3. \A n : IsLatest(n)' <=> IsLatest(n)
  BY DEF IsLatest
<1> QED BY <1>1, <1>2, <1>3 DEF WriterInv

\* A checkpoint on its way holds the base and the segments before its number.
LEMMA WriterStep == ~SinkMayFail /\ IInv /\ Next => WriterInv'
<1> SUFFICES ASSUME ~SinkMayFail, IInv, Next PROVE WriterInv'
  OBVIOUS
<1>0. TypeOK /\ TypeOK' /\ ShapeInv /\ ControlInv /\ WriterInv
  BY TypeStep DEF IInv
<1>a. /\ segment \in Int /\ writer.number \in Int /\ writer.number > 0
      /\ files \subseteq Int /\ ckpts \subseteq Int
      /\ \A m \in ckpts : m <= segment
  BY <1>0, OpLogAssumption DEF TypeOK, Segment, ShapeInv
<1>b. PICK w \in Int : w = writer.number /\ w > 0
  BY <1>a
<1> USE <1>0 DEF diskVars
<1>1. CASE Append
  BY <1>1, WriterFrame DEF Append
<1>2. ASSUME NEW r \in Record, WaitFlushed(r) PROVE WriterInv'
  BY <1>2, WriterFrame DEF WaitFlushed
<1>3. CASE TakeBatch
  BY <1>3, WriterFrame DEF TakeBatch
<1>4. CASE WriteBatch
  <2>1. UNCHANGED <<ckpts, ckpt, files, writer, segment>> /\ flusher' # "join"
    BY <1>4 DEF WriteBatch
  <2>2. \A s \in Segment : s # segment => seg'[s] = seg[s]
    BY <1>4 DEF WriteBatch, Appended, TypeOK
  <2>3. ASSUME NEW n \in ckpts, NEW k \in Int, k <= segment
        PROVE  Below(n, k)' = Below(n, k)
    <3>1. {t \in Replayed(n) : t < k}' = {t \in Replayed(n) : t < k}
      BY <2>1 DEF Replayed
    <3>2. \A t \in {u \in Replayed(n) : u < k} : seg'[t] = seg[t]
      BY <2>2, <2>3, <1>a DEF Replayed, TypeOK, Segment
    <3> QED BY <2>1, <3>1, <3>2 DEF Below
  <2>4. \A n : (IsBase(n)' <=> IsBase(n)) /\ (IsLatest(n)' <=> IsLatest(n))
    BY <2>1 DEF IsBase, Base, IsLatest
  <2> QED BY <1>a, <2>1, <2>3, <2>4 DEF WriterInv
<1>6. CASE SetFlushed
  BY <1>6, WriterFrame DEF SetFlushed
<1>7. CASE NoRotation
  BY <1>7, WriterFrame DEF NoRotation
<1>8. CASE RotateTakeBatch
  BY <1>8, WriterFrame DEF RotateTakeBatch
<1>9. CASE RotateSwitch
  <2>1. /\ UNCHANGED <<ckpts, ckpt, seg, writer>>
        /\ flusher' = "join" /\ segment' = segment + 1 /\ snap' = mem
        /\ files' = files \cup {segment + 1}
    BY <1>9 DEF RotateSwitch
  <2>2. \A n : (IsBase(n)' <=> IsBase(n)) /\ (IsLatest(n)' <=> IsLatest(n))
    BY <2>1 DEF IsBase, Base, IsLatest
  <2>3. ASSUME NEW n \in ckpts, NEW k \in Int, k <= segment + 1
        PROVE  Below(n, k)' = Below(n, k)
    <3>1. \A s : s \in files' /\ s < k <=> s \in files /\ s < k
      BY <1>a, <2>1, <2>3
    <3>2. {t \in Replayed(n) : t < k}' = {t \in Replayed(n) : t < k}
      BY <3>1 DEF Replayed, FirstSegment
    <3> QED BY <2>1, <3>2 DEF Below
  <2>4. ASSUME NEW n \in ckpts, IsBase(n) PROVE snap' = Below(n, segment)'
    <3>1. mem = RecoveredFrom(n)
      BY <1>9, <2>4 DEF RotateSwitch, IInv, DiskInv, Owed, ControlInv,
                        StateMutexFree
    <3>5. \A t \in files : t < segment + 1
      BY <1>a DEF ShapeInv
    <3>2. {t \in Replayed(n) : t < segment + 1} = Replayed(n)
      BY <3>5 DEF Replayed
    <3>3. Below(n, segment + 1) = RecoveredFrom(n)
      BY <3>2 DEF Below, RecoveredFrom
    <3>4. ASSUME NEW j \in Int, j = segment + 1
          PROVE  Below(n, j)' = Below(n, j)
      BY <2>3, <3>4, <1>a
    <3>6. Below(n, segment)' = Below(n, segment + 1)
      BY <1>a, <2>1, <3>4
    <3> QED BY <2>1, <3>1, <3>3, <3>6
  <2>5. ASSUME NEW n \in ckpts, IsBase(n), writer.pc \in {"write", "renamed"}
        PROVE  writer.state = Below(n, w)'
    <3>1. w <= segment + 1
      BY <1>a, <1>b, <2>5 DEF WriterInv
    <3>2. Below(n, w)' = Below(n, w)
      BY <2>3, <3>1
    <3> QED BY <1>b, <2>5, <3>2 DEF WriterInv
  <2>6. /\ \A m \in ckpts : m < segment'
        /\ writer.pc # "none" => writer.number < segment'
    BY <1>a, <2>1 DEF WriterInv
  <2>7. writer.number = w /\ writer'.number = w
    BY <1>b, <2>1
  <2> QED BY <1>a, <2>1, <2>2, <2>4, <2>5, <2>6, <2>7 DEF WriterInv
<1>10. CASE StartCheckpointWriter
  <2>1. /\ UNCHANGED <<ckpts, ckpt, seg, files, segment>>
        /\ flusher = "join" /\ flusher' # "join"
        /\ writer.pc = "none"
        /\ writer'.pc = "write" /\ writer'.number = segment
        /\ writer'.state = snap
    BY <1>10 DEF StartCheckpointWriter
  <2>2. \A n : IsBase(n)' <=> IsBase(n)
    BY <2>1 DEF IsBase, Base
  <2>3. \A n, k : Below(n, k)' = Below(n, k)
    BY <2>1 DEF Below, Replayed
  <2> QED BY <1>a, <2>1, <2>2, <2>3 DEF WriterInv
<1>11. CASE WriteCheckpoint
  <2>1. /\ UNCHANGED <<flusher, seg, files, segment, snap>>
        /\ writer.pc = "write" /\ writer'.pc = "renamed"
        /\ writer'.number = writer.number /\ writer'.state = writer.state
        /\ ckpts' = ckpts \cup {writer.number}
        /\ ckpt' = [ckpt EXCEPT ![writer.number] = writer.state]
    BY <1>11 DEF WriteCheckpoint, TypeOK
  <2>2. \A m \in ckpts : m < writer.number
    BY <2>1 DEF WriterInv
  <2>3. \A n : IsBase(n)' <=> IsBase(n)
    BY <1>a, <2>1, <2>2 DEF IsBase, Base
  <2>4. /\ ckpt'[writer.number] = writer.state
        /\ \A n \in ckpts : ckpt'[n] = ckpt[n]
    BY <1>a, <2>1, <2>2 DEF TypeOK
  <2>5. ASSUME NEW n \in ckpts, NEW k PROVE Below(n, k)' = Below(n, k)
    BY <2>1, <2>4 DEF Below, Replayed
  <2>6. IsLatest(writer.number)'
    BY <1>a, <2>1, <2>2 DEF IsLatest
  <2>7. \A n : IsBase(n) => n \in ckpts
    BY <2>1 DEF IsBase, Base
  <2> QED BY <1>a, <2>1, <2>3, <2>4, <2>5, <2>6, <2>7 DEF WriterInv
<1>12. CASE WriteCheckpointFails
  <2>1. /\ UNCHANGED <<flusher, seg, files, segment, snap, ckpts, ckpt>>
        /\ writer.pc = "write" /\ writer'.pc = "none"
    BY <1>12 DEF WriteCheckpointFails, NoWriter
  <2>2. \A n : IsBase(n)' <=> IsBase(n)
    BY <2>1 DEF IsBase, Base
  <2>3. \A n, k : Below(n, k)' = Below(n, k)
    BY <2>1 DEF Below, Replayed
  <2> QED BY <2>1, <2>2, <2>3 DEF WriterInv
<1>13. CASE SyncDirectory
  <2>1. /\ UNCHANGED <<flusher, seg, files, segment, snap, ckpts, ckpt>>
        /\ writer.pc = "renamed" /\ writer'.pc = "segments"
        /\ writer.number = w /\ writer'.number = w
    BY <1>13, <1>b DEF SyncDirectory, TypeOK
  <2>2. IsLatest(w) /\ IsLatest(w)'
    BY <2>1 DEF WriterInv, IsLatest
  <2>3. \A n : IsBase(n)' <=> n = w
    <3>1. Base' = ckpts
      BY <2>1 DEF Base
    <3>2. \A n : IsBase(n)' <=> IsLatest(n)
      BY <3>1 DEF IsBase, IsLatest
    <3> QED BY <1>a, <2>2, <3>2, UniqueLatest
  <2>4. PICK o \in ckpts : IsBase(o)
    BY DEF WriterInv
  <2>5. ckpt[w] = Below(o, w)
    BY <2>1, <2>4 DEF WriterInv
  <2>6. o \in Int /\ o < w /\ o >= 0
    BY <1>a, <2>1, <2>2, <2>4, OpLogAssumption
       DEF IsBase, Base, IsLatest, TypeOK, Segment
  <2>7. ASSUME flusher = "join" PROVE snap = Below(w, segment)'
    <3>1. snap = Below(o, segment) /\ w < segment
      BY <2>1, <2>4, <2>7 DEF WriterInv
    <3>2. /\ FirstSegment(w) = w
          /\ FirstSegment(o) <= w /\ FirstSegment(o) \in Int
      BY <1>a, <2>6 DEF FirstSegment
    <3>3. ASSUME NEW r
          PROVE  r \in Below(w, segment) <=> r \in Below(o, segment)
      <4>1. r \in Below(w, segment) <=>
              \/ r \in Below(o, w)
              \/ \E s \in files : s >= w /\ s < segment /\ r \in seg[s]
        BY <2>5, <3>2, BelowMember
      <4>2. r \in Below(o, w) <=>
              \/ r \in ckpt[o]
              \/ \E s \in files : /\ s >= FirstSegment(o)
                                  /\ s < w /\ r \in seg[s]
        BY BelowMember
      <4>3. r \in Below(o, segment) <=>
              \/ r \in ckpt[o]
              \/ \E s \in files : /\ s >= FirstSegment(o)
                                  /\ s < segment /\ r \in seg[s]
        BY BelowMember
      <4>4. \A s \in files :
              /\ s >= w => s >= FirstSegment(o)
              /\ s < w => s < segment
              /\ s < w \/ s >= w
        BY <1>a, <3>1, <3>2
      <4> QED BY <4>1, <4>2, <4>3, <4>4
    <3>4. Below(w, segment) = Below(o, segment)
      BY <3>3
    <3>5. Below(w, segment)' = Below(w, segment)
      BY <2>1 DEF Below, Replayed
    <3> QED BY <3>1, <3>4, <3>5
  <2>8. w \in ckpts'
    BY <2>2 DEF IsLatest
  <2> QED BY <2>1, <2>2, <2>3, <2>7, <2>8 DEF WriterInv
<1>14. CASE PruneSegment
  <2>1. /\ UNCHANGED <<flusher, segment, snap, ckpts, ckpt>>
        /\ writer.pc = "segments" /\ writer'.pc \in {"segments", "checkpoints"}
        /\ writer.number = w /\ writer'.number = w
    BY <1>14, <1>b DEF PruneSegment, TypeOK
  <2>2. IsLatest(w) /\ IsLatest(w)'
    BY <2>1 DEF WriterInv, IsLatest
  <2>3. \A n : (IsBase(n)' <=> n = w) /\ (IsBase(n) <=> n = w)
    <3>1. Base' = ckpts /\ Base = ckpts
      BY <2>1 DEF Base
    <3>2. \A n : (IsBase(n)' <=> IsLatest(n)) /\ (IsBase(n) <=> IsLatest(n))
      BY <3>1 DEF IsBase, IsLatest
    <3> QED BY <1>a, <2>2, <3>2, UniqueLatest
  <2>4. /\ \A s : s \in files' /\ s >= w <=>
                  s \in files /\ s >= w
        /\ \A s \in files : s >= w => seg'[s] = seg[s]
    <3>1. CASE UNCHANGED <<files, seg>>
      BY <3>1
    <3>2. ASSUME NEW s \in OldSegments, files' = files \ {s},
                 seg' = [seg EXCEPT ![s] = {}]
          PROVE  /\ \A t : t \in files' /\ t >= w <=> t \in files /\ t >= w
                 /\ \A t \in files : t >= w => seg'[t] = seg[t]
      <4>1. s < w /\ s \in Int
        BY <1>a, <1>b DEF OldSegments
      <4>2. \A t \in files : t # s => seg'[t] = seg[t]
        BY <3>2 DEF TypeOK
      <4> QED BY <1>a, <3>2, <4>1, <4>2
    <3> QED BY <1>14, <3>1, <3>2 DEF PruneSegment
  <2>5. FirstSegment(w) = w
    BY <1>b DEF FirstSegment
  <2>6. \A k : Below(w, k)' = Below(w, k)
    <3>1. Replayed(w)' = Replayed(w)
      BY <2>1, <2>4, <2>5 DEF Replayed, FirstSegment
    <3>2. \A s \in Replayed(w) : seg'[s] = seg[s]
      BY <2>4, <2>5 DEF Replayed
    <3> QED BY <2>1, <3>1, <3>2 DEF Below
  <2>7. w \in ckpts'
    BY <2>2 DEF IsLatest
  <2> QED BY <2>1, <2>2, <2>3, <2>6, <2>7 DEF WriterInv
<1>15. CASE PruneCheckpoint
  <2>1. /\ UNCHANGED <<flusher, segment, snap, files, seg>>
        /\ writer.pc = "checkpoints" /\ ckpts' \subseteq ckpts
        /\ writer.number = w /\ (writer' = writer \/ writer'.pc = "none")
    BY <1>15, <1>b DEF PruneCheckpoint, NoWriter
  <2>2. IsLatest(w)
    BY <2>1 DEF WriterInv
  <2>3. w \notin OldCheckpoints /\ w \in ckpts
    BY <1>a, <2>2 DEF OldCheckpoints, Newer, IsLatest
  <2>4. w \in ckpts' /\ ckpt'[w] = ckpt[w]
    BY <1>15, <2>3 DEF PruneCheckpoint, OldCheckpoints, TypeOK
  <2>5. \A n : (IsBase(n)' <=> n = w) /\ (IsBase(n) <=> n = w)
    BY <1>a, <2>1, <2>2, <2>4 DEF IsBase, Base, IsLatest
  <2>6. \A k : Below(w, k)' = Below(w, k)
    BY <2>1, <2>4 DEF Below, Replayed
  <2>7. IsLatest(w)'
    BY <2>1, <2>2, <2>4 DEF IsLatest
  <2> QED BY <2>1, <2>3, <2>4, <2>5, <2>6, <2>7 DEF WriterInv
<1>16. CASE Stop
  BY <1>16, WriterFrame DEF Stop
<1>17. CASE Stopped
  BY <1>17, WriterFrame DEF Stopped
<1>18. CASE Crash
  <2>1. flusher' = "idle" /\ writer'.pc = "none"
    BY <1>18 DEF Crash, NoWriter
  <2>2. \E n \in ckpts' : IsBase(n)'
    <3>1. PICK o \in ckpts : IsBase(o)
      BY DEF WriterInv
    <3>2. CASE ckpts' = ckpts /\ writer.pc # "renamed"
      BY <2>1, <3>1, <3>2 DEF IsBase, Base
    <3>3. CASE ckpts' = ckpts /\ writer.pc = "renamed"
      BY <2>1, <3>3 DEF IsBase, Base, WriterInv, IsLatest
    <3>4. CASE writer.pc = "renamed" /\ ckpts' = ckpts \ {writer.number}
      BY <2>1, <3>1, <3>4 DEF IsBase, Base
    <3> QED BY <1>18, <3>2, <3>3, <3>4 DEF Crash, CrashDuringRename
  <2> QED BY <2>1, <2>2 DEF WriterInv
<1>19. CASE Recover
  <2>1. /\ UNCHANGED <<ckpts, writer, flusher>>
        /\ flusher = "idle" /\ writer.pc = "none"
    BY <1>19 DEF Recover, ControlInv, Running
  <2>2. \A n : IsBase(n)' <=> IsBase(n)
    BY <2>1 DEF IsBase, Base
  <2> QED BY <2>1, <2>2 DEF WriterInv
<1> QED
  BY <1>1, <1>2, <1>3, <1>4, <1>6, <1>7, <1>8, <1>9, <1>10, <1>11, <1>12,
     <1>13, <1>14, <1>15, <1>16, <1>17, <1>18, <1>19
     DEF Next, FlusherNext, WriterNext, WriteBatchFails

\* What recovery reads does not change when the disk does not.
LEMMA DiskFrame ==
  ASSUME UNCHANGED <<ckpt, files, seg>>
  PROVE  \A n : /\ RecoveredFrom(n)' = RecoveredFrom(n)
               /\ InOrder(n)' <=> InOrder(n)
BY DEF RecoveredFrom, InOrder, Replayed, FirstSegment

\* The base does not change when the checkpoints do not, unless a rename
\* becomes durable or is undone.
LEMMA BaseFrame ==
  ASSUME ckpts' = ckpts,
         \/ writer' = writer
         \/ writer.pc # "renamed" /\ writer'.pc # "renamed"
  PROVE  \A n : IsBase(n)' <=> IsBase(n)
BY DEF IsBase, Base

\* The newest checkpoint is before its segments, too.
LEMMA LatestInOrder ==
  ASSUME TypeOK, WriterInv, NEW n \in ckpts, IsBase(n), NEW m \in ckpts, IsLatest(m),
         InOrder(n)
  PROVE  InOrder(m)
<1>0. /\ Replayed(m) \subseteq Replayed(n)
      /\ ckpt[m] \subseteq Below(n, m) \cup ckpt[n]
  BY LatestRecoversBase
<1>1. m \in Int /\ m >= 0 /\ files \subseteq Int
  BY OpLogAssumption DEF TypeOK, Segment
<1>2. ASSUME NEW s \in Replayed(m), NEW c \in ckpt[m], NEW r \in seg[s]
      PROVE  c < r
  <2>1. s \in Replayed(n)
    BY <1>0
  <2>2. CASE c \in ckpt[n]
    BY <2>1, <2>2 DEF InOrder
  <2>3. CASE c \in Below(n, m)
    <3>1. CASE c \in ckpt[n]
      BY <2>2, <3>1
    <3>2. ASSUME NEW t \in Replayed(n), t < m, c \in seg[t] PROVE c < r
      <4>1. t < s
        BY <1>1, <3>2 DEF Replayed, FirstSegment
      <4> QED BY <2>1, <3>2, <4>1 DEF InOrder
    <3> QED BY <2>3, <3>1, <3>2 DEF Below
  <2> QED BY <1>0, <2>2, <2>3
<1>3. ASSUME NEW s \in Replayed(m), NEW t \in Replayed(m), s < t,
             NEW q \in seg[s], NEW r \in seg[t]
      PROVE  q < r
  BY <1>0, <1>3 DEF InOrder
<1> QED BY <1>2, <1>3 DEF InOrder

\* A crash keeps a prefix of the batch and either of the two checkpoints.
LEMMA CrashStep ==
  ASSUME IInv, Crash, NEW n \in ckpts', IsBase(n)'
  PROVE  InOrder(n)' /\ Owed(n)'
<1>0. /\ TypeOK /\ ShapeInv /\ ControlInv /\ NumberInv /\ WriterInv
      /\ Running /\ batch \subseteq mem /\ pending \subseteq mem
  BY InFlightApplied DEF IInv, Crash
<1>a. /\ segment \in Int /\ segment >= 1 /\ files \subseteq Int
      /\ ckpts \subseteq Int /\ \A m \in ckpts : m >= 0 /\ m <= segment
      /\ mem \subseteq Int /\ batch \subseteq Int /\ pending \subseteq Int
  BY <1>0, OpLogAssumption DEF TypeOK, Segment, Record, ShapeInv
<1>1. /\ UNCHANGED <<mem, acked, files, segment>> /\ status' = "down"
      /\ batch' = {} /\ pending' = {} /\ flusher' = "idle"
      /\ writer'.pc = "none" /\ ckpts' \subseteq ckpts
  BY DEF Crash, CrashDuringRename, NoWriter
<1>2. n \in ckpts /\ (IsBase(n) \/ IsLatest(n)) /\ ckpt'[n] = ckpt[n]
  <2>1. CASE UNCHANGED <<ckpts, ckpt>>
    BY <1>1, <2>1 DEF IsBase, Base, IsLatest
  <2>2. CASE /\ writer.pc = "renamed"
             /\ ckpts' = ckpts \ {writer.number}
             /\ ckpt' = [ckpt EXCEPT ![writer.number] = {}]
    BY <1>0, <1>1, <2>2 DEF IsBase, Base, TypeOK
  <2> QED BY <2>1, <2>2 DEF Crash, CrashDuringRename
<1>3. PICK o \in ckpts : IsBase(o)
  BY <1>0 DEF WriterInv
<1>4. InOrder(o) /\ Owed(o)
  BY <1>3 DEF IInv, DiskInv
<1>5. RecoveredFrom(n) = RecoveredFrom(o) /\ InOrder(n)
  <2>1. CASE IsLatest(n)
    BY <1>0, <1>2, <1>3, <1>4, <2>1, LatestRecoversBase, LatestInOrder
  <2>2. CASE IsBase(n)
    <3>1. n <= o /\ o <= n
      BY <1>3, <2>2 DEF IsBase
    <3>2. n = o
      BY <1>a, <1>2, <3>1
    <3> QED BY <1>4, <3>2
  <2> QED BY <1>2, <2>1, <2>2
<1>6. PICK k \in Int :
        /\ seg'[segment] = seg[segment] \cup {r \in batch : r <= k} \/ seg' = seg
        /\ \A s \in files : s # segment => seg'[s] = seg[s]
        /\ flusher \notin {"write", "rwrite"} => seg' = seg
  <2>1. CASE CrashDuringWrite
    <3>1. torn = {}
      BY <1>0 DEF ShapeInv, Running
    <3>2. PICK k \in 0..MaxRecord : seg' = Appended(segment, Prefix(k))
      BY <2>1 DEF CrashDuringWrite
    <3>3. seg' = [seg EXCEPT ![segment] = seg[segment] \cup {r \in batch : r <= k}]
      BY <3>1, <3>2 DEF Appended, Prefix
    <3>4. k \in Int /\ flusher \in {"write", "rwrite"}
      BY <2>1, OpLogAssumption DEF CrashDuringWrite
    <3> QED BY <1>0, <3>3, <3>4 DEF TypeOK
  <2>2. CASE seg' = seg
    BY <2>2
  <2> QED BY <2>1, <2>2 DEF Crash
<1> DEFINE P == IF seg' = seg THEN {} ELSE {r \in batch : r <= k}
<1>7. /\ seg'[segment] = seg[segment] \cup P
      /\ \A s \in files : s # segment => seg'[s] = seg[s]
      /\ P \subseteq batch
      /\ \A r \in P, q \in batch : q < r => q \in P
      /\ P # {} => flusher \in {"write", "rwrite"}
  <2>1. CASE seg' = seg
    BY <2>1
  <2>2. CASE seg' # seg
    <3>1. P = {r \in batch : r <= k}
      BY <2>2
    <3>2. ASSUME NEW r \in P, NEW q \in batch, q < r PROVE q \in P
      <4>1. r \in Int /\ q \in Int /\ r <= k
        BY <1>a, <3>1
      <4>2. q <= k
        BY <3>2, <4>1
      <4> QED BY <3>1, <4>2
    <3> QED BY <1>6, <2>2, <3>1, <3>2
  <2> QED BY <2>1, <2>2
<1> HIDE DEF P
<1>8. /\ Replayed(n)' = Replayed(n) /\ segment \in Replayed(n)
  <2>1. segment >= FirstSegment(n) /\ segment \in files
    BY <1>0, <1>a, <1>2 DEF FirstSegment, ShapeInv
  <2> QED BY <1>1, <2>1 DEF Replayed, FirstSegment
<1>9. RecoveredFrom(n)' = RecoveredFrom(n) \cup P
  <2>1. \A s \in Replayed(n) : s # segment => seg'[s] = seg[s]
    BY <1>7 DEF Replayed
  <2>2. ASSUME NEW r PROVE r \in RecoveredFrom(n)' <=> r \in RecoveredFrom(n) \cup P
    BY <1>2, <1>7, <1>8, <2>1 DEF RecoveredFrom
  <2> QED BY <2>2
<1>10. \A r \in RecoveredFrom(n), q \in P : r < q
  BY <1>4, <1>5, <1>7 DEF Owed
<1>11. InOrder(n)'
  <2>1. /\ \A c \in ckpt[n] : c \in RecoveredFrom(n)
        /\ \A s \in Replayed(n) : \A r \in seg[s] : r \in RecoveredFrom(n)
    BY DEF RecoveredFrom
  <2>2. ASSUME NEW s \in Replayed(n), NEW c \in ckpt[n], NEW r \in seg'[s]
        PROVE  c < r
    <3>1. r \in seg[s] \/ r \in P
      BY <1>7 DEF Replayed
    <3> QED BY <1>5, <1>10, <2>1, <3>1 DEF InOrder
  <2>3. ASSUME NEW s \in Replayed(n), NEW t \in Replayed(n), s < t,
               NEW q \in seg'[s], NEW r \in seg'[t]
        PROVE  q < r
    <3>1. s # segment
      BY <1>0, <1>a, <2>3 DEF Replayed, ShapeInv
    <3>2. q \in seg[s]
      BY <1>7, <3>1 DEF Replayed
    <3>3. r \in seg[t] \/ r \in P
      BY <1>7 DEF Replayed
    <3> QED BY <1>5, <1>10, <2>1, <2>3, <3>2, <3>3 DEF InOrder
  <2> QED BY <1>2, <1>8, <2>2, <2>3 DEF InOrder
<1>12. mem = RecoveredFrom(n) \cup batch \cup pending
  BY <1>0, <1>4, <1>5 DEF Owed
<1>13. \A r \in RecoveredFrom(n)', q \in mem : q < r => q \in RecoveredFrom(n)'
  <2> SUFFICES ASSUME NEW r \in RecoveredFrom(n)', NEW q \in mem, q < r
               PROVE  q \in RecoveredFrom(n)'
    OBVIOUS
  <2>1. r \in Int /\ q \in Int
    BY <1>a, <1>7, <1>9, <1>12
  <2>2. CASE r \in RecoveredFrom(n)
    BY <1>4, <1>5, <1>9, <2>2 DEF Owed
  <2>3. CASE r \in P /\ q \in pending
    <3>1. r < q
      BY <1>0, <1>7, <2>3 DEF NumberInv
    <3> QED BY <2>1, <3>1
  <2>4. CASE r \in P /\ q \notin pending
    BY <1>7, <1>9, <1>12, <2>4
  <2> QED BY <1>9, <2>2, <2>3, <2>4
<1>14. acked \subseteq RecoveredFrom(n)
  BY <1>4, <1>5 DEF Owed
<1>15. RecoveredFrom(n)' \subseteq mem
  BY <1>7, <1>9, <1>12
<1> QED BY <1>1, <1>9, <1>11, <1>13, <1>14, <1>15 DEF Owed, Running

\* The new process starts from what recovery finds.
LEMMA RecoverStep ==
  ASSUME IInv, Recover, NEW n \in ckpts', IsBase(n)'
  PROVE  InOrder(n)' /\ Owed(n)'
<1>0. /\ TypeOK /\ ShapeInv /\ ControlInv /\ WriterInv /\ ~Running
  BY DEF IInv, Recover, Running
<1>a. /\ segment \in Int /\ segment >= 1
      /\ ckpts \subseteq Int /\ \A m \in ckpts : m >= 0 /\ m <= segment
  BY <1>0, OpLogAssumption DEF TypeOK, Segment, ShapeInv
<1>1. /\ UNCHANGED <<ckpts, ckpt, seg, acked, batch, pending, writer, flusher>>
      /\ batch = {} /\ pending = {} /\ flusher = "idle" /\ writer.pc = "none"
      /\ status' = "up"
  BY <1>0 DEF Recover, ControlInv
<1>2. IsLatest(n) /\ IsBase(n) /\ n \in ckpts
  BY <1>1 DEF IsBase, Base, IsLatest
<1>3. PICK m \in ckpts, a \in Segment :
        /\ IsLatest(m) /\ IsActive(a, m)
        /\ mem' = RecoveredFrom(m)
        /\ files' = files \cup {a}
  BY DEF Recover
<1>4. m = n
  BY <1>a, <1>2, <1>3, UniqueLatest
<1>5. a = segment
  BY <1>a, <1>0, <1>3 DEF IsActive, FirstSegment, ShapeInv, Segment
<1>6. files' = files
  BY <1>0, <1>3, <1>5 DEF ShapeInv
<1>7. InOrder(n) /\ Owed(n)
  BY <1>2 DEF IInv, DiskInv
<1>8. RecoveredFrom(n)' = RecoveredFrom(n) /\ InOrder(n)'
  BY <1>1, <1>6, <1>7, DiskFrame
<1> QED BY <1>1, <1>3, <1>4, <1>7, <1>8 DEF Owed, Running

\* The base and the segments after it hold what was applied, in order.
LEMMA DiskStep == ~SinkMayFail /\ IInv /\ Next => DiskInv'
<1> SUFFICES ASSUME ~SinkMayFail, IInv, Next, NEW n \in ckpts', IsBase(n)'
             PROVE  InOrder(n)' /\ Owed(n)'
  BY DEF DiskInv
<1>0. /\ TypeOK /\ TypeOK' /\ ShapeInv /\ ControlInv /\ NumberInv /\ WriterInv
      /\ Running => batch \subseteq mem /\ pending \subseteq mem
  BY TypeStep, InFlightApplied DEF IInv
<1>a. /\ segment \in Int /\ segment >= 1 /\ files \subseteq Int
      /\ ckpts \subseteq Int /\ \A m \in ckpts : m >= 0 /\ m <= segment
      /\ mem \subseteq Int /\ batch \subseteq Int /\ pending \subseteq Int
      /\ next \in Int
  BY <1>0, OpLogAssumption DEF TypeOK, Segment, Record, ShapeInv
<1>b. ASSUME NEW m, IsBase(m) PROVE m \in ckpts /\ InOrder(m) /\ Owed(m)
  BY <1>b DEF IInv, DiskInv, IsBase, Base
<1>c. ASSUME UNCHANGED <<ckpts, ckpt, files, seg>>,
             \/ writer' = writer
             \/ writer.pc # "renamed" /\ writer'.pc # "renamed"
      PROVE  /\ RecoveredFrom(n)' = RecoveredFrom(n)
             /\ InOrder(n)' /\ Owed(n)
  BY <1>b, <1>c, DiskFrame, BaseFrame
<1> USE DEF diskVars
<1>1. CASE Append
  <2>1. RecoveredFrom(n)' = RecoveredFrom(n) /\ InOrder(n)' /\ Owed(n)
    BY <1>1, <1>c DEF Append
  <2>2. \A r \in RecoveredFrom(n) : r \in mem /\ r < next
    BY <1>0, <2>1 DEF Owed, NumberInv
  <2>3. /\ UNCHANGED <<status, batch, flusher, acked>> /\ status = "up"
        /\ mem' = mem \cup {next} /\ pending' = pending \cup {next}
    BY <1>1 DEF Append
  <2>4. ASSUME NEW r \in RecoveredFrom(n), NEW q \in mem', q < r
        PROVE  q \in RecoveredFrom(n)
    <3>1. r \in Int /\ r < next
      BY <1>a, <2>2
    <3>2. q # next
      BY <1>a, <2>4, <3>1
    <3> QED BY <2>1, <2>3, <2>4, <3>2 DEF Owed
  <2>5. \A r \in RecoveredFrom(n), q \in pending' : r < q
    BY <2>1, <2>2, <2>3 DEF Owed
  <2>6. mem' = RecoveredFrom(n) \cup batch \cup pending'
    BY <2>1, <2>3 DEF Owed, Running
  <2> QED BY <2>1, <2>3, <2>4, <2>5, <2>6 DEF Owed, Running
<1>2. ASSUME NEW r \in Record, WaitFlushed(r) PROVE InOrder(n)' /\ Owed(n)'
  <2>1. RecoveredFrom(n)' = RecoveredFrom(n) /\ InOrder(n)' /\ Owed(n)
    BY <1>2, <1>c DEF WaitFlushed
  <2>2. r \in mem /\ Running /\ flushed >= r
    BY <1>2, <1>0 DEF WaitFlushed, ControlInv, NumberInv, Running
  <2>3. r \in Int /\ flushed \in Int
    BY <1>0, OpLogAssumption DEF TypeOK, Record
  <2>4. r \notin pending
    BY <1>0, <1>a, <2>2, <2>3 DEF NumberInv
  <2>5. r \in batch => flusher \notin {"write", "rwrite"}
    BY <1>0, <1>a, <2>2, <2>3 DEF NumberInv
  <2>6. r \in batch => flusher \in {"ack", "rack"}
    BY <1>0, <2>5 DEF ControlInv, TypeOK, FlusherPC
  <2>7. r \in RecoveredFrom(n)
    BY <2>1, <2>2, <2>4, <2>6 DEF Owed
  <2> QED BY <1>2, <2>1, <2>7 DEF WaitFlushed, Owed, Running
<1>3. CASE TakeBatch
  <2>1. RecoveredFrom(n)' = RecoveredFrom(n) /\ InOrder(n)' /\ Owed(n)
    BY <1>3, <1>c DEF TakeBatch
  <2>2. batch = {}
    BY <1>3, <1>0 DEF TakeBatch, ControlInv
  <2> QED BY <1>3, <2>1, <2>2 DEF TakeBatch, Owed, Running
<1>4. CASE WriteBatch
  <2>1. /\ UNCHANGED <<status, mem, pending, batch, acked, ckpts, ckpt, files, writer,
                       segment>>
        /\ seg' = [seg EXCEPT ![segment] = seg[segment] \cup batch]
        /\ Running /\ flusher \in {"write", "rwrite"} /\ flusher' \in {"ack", "rack"}
    BY <1>4, <1>0 DEF WriteBatch, Appended, ShapeInv, Running
  <2>2. IsBase(n)
    BY <2>1, BaseFrame
  <2>3. n \in ckpts /\ InOrder(n) /\ Owed(n)
    BY <2>2, <1>b
  <2>4. segment \in files /\ segment >= FirstSegment(n)
    BY <1>0, <1>a, <2>3 DEF ShapeInv, FirstSegment
  <2>5. /\ seg'[segment] = seg[segment] \cup batch
        /\ \A s \in files : s # segment => seg'[s] = seg[s]
    BY <1>0, <2>1 DEF TypeOK
  <2>6. RecoveredFrom(n)' = RecoveredFrom(n) \cup batch
    <3>1. Replayed(n)' = Replayed(n) /\ segment \in Replayed(n)
      BY <2>1, <2>4 DEF Replayed, FirstSegment
    <3>2. ckpt'[n] = ckpt[n]
      BY <2>1
    <3>3. \A s \in Replayed(n) : s # segment => seg'[s] = seg[s]
      BY <2>5 DEF Replayed
    <3>4. ASSUME NEW r PROVE r \in RecoveredFrom(n)' <=> r \in RecoveredFrom(n) \cup batch
      BY <2>5, <3>1, <3>2, <3>3 DEF RecoveredFrom
    <3> QED BY <3>4
  <2>7. \A r \in RecoveredFrom(n), q \in batch : r < q
    BY <2>1, <2>3 DEF Owed
  <2>8. InOrder(n)'
    <3>1. Replayed(n)' = Replayed(n)
      BY <2>1 DEF Replayed, FirstSegment
    <3>2. /\ \A c \in ckpt[n] : c \in RecoveredFrom(n)
          /\ \A s \in Replayed(n) : \A r \in seg[s] : r \in RecoveredFrom(n)
      BY DEF RecoveredFrom
    <3>3. ASSUME NEW s \in Replayed(n), NEW c \in ckpt[n], NEW r \in seg'[s]
          PROVE  c < r
      <4>1. r \in seg[s] \/ r \in batch
        BY <2>5 DEF Replayed
      <4> QED BY <2>3, <2>7, <3>2, <4>1 DEF InOrder
    <3>4. ASSUME NEW s \in Replayed(n), NEW t \in Replayed(n), s < t,
                 NEW q \in seg'[s], NEW r \in seg'[t]
          PROVE  q < r
      <4>1. s # segment
        BY <1>0, <1>a, <3>4 DEF Replayed, ShapeInv
      <4>2. q \in seg[s]
        BY <2>5, <4>1 DEF Replayed
      <4>3. r \in seg[t] \/ r \in batch
        BY <2>5 DEF Replayed
      <4> QED BY <2>3, <2>7, <3>2, <3>4, <4>2, <4>3 DEF InOrder
    <3> QED BY <2>1, <3>1, <3>3, <3>4 DEF InOrder
  <2>9. \A b \in batch, p \in pending : b < p
    BY <1>0 DEF NumberInv
  <2>10. \A r \in RecoveredFrom(n)', q \in mem : q < r => q \in RecoveredFrom(n)'
    <3> SUFFICES ASSUME NEW r \in RecoveredFrom(n) \cup batch, NEW q \in mem, q < r
                 PROVE  q \in RecoveredFrom(n) \cup batch
      BY <2>6
    <3>1. r \in Int /\ q \in Int
      BY <1>a, <2>3 DEF Owed
    <3>2. q \notin pending
      BY <2>3, <2>9, <3>1 DEF Owed
    <3> QED BY <2>1, <2>3, <3>2 DEF Owed
  <2> QED BY <1>0, <2>1, <2>3, <2>6, <2>8, <2>9, <2>10 DEF Owed, Running
<1>6. CASE SetFlushed
  <2>1. RecoveredFrom(n)' = RecoveredFrom(n) /\ InOrder(n)' /\ Owed(n)
    BY <1>6, <1>c DEF SetFlushed
  <2> QED BY <1>6, <2>1 DEF SetFlushed, Owed, Running
<1>7. CASE NoRotation
  <2>1. RecoveredFrom(n)' = RecoveredFrom(n) /\ InOrder(n)' /\ Owed(n)
    BY <1>7, <1>c DEF NoRotation
  <2> QED BY <1>7, <2>1 DEF NoRotation, Owed, Running
<1>8. CASE RotateTakeBatch
  <2>1. RecoveredFrom(n)' = RecoveredFrom(n) /\ InOrder(n)' /\ Owed(n)
    BY <1>8, <1>c DEF RotateTakeBatch
  <2>2. batch = {}
    BY <1>8, <1>0 DEF RotateTakeBatch, ControlInv
  <2> QED BY <1>8, <2>1, <2>2 DEF RotateTakeBatch, Owed, Running
<1>9. CASE RotateSwitch
  <2>1. /\ UNCHANGED <<ckpts, ckpt, seg, writer, status, mem, batch, pending, acked>>
        /\ files' = files \cup {segment + 1} /\ segment + 1 \in Segment
        /\ flusher' = "join"
    BY <1>9, <1>0, OpLogAssumption DEF RotateSwitch, TypeOK, Segment
  <2>2. IsBase(n)
    BY <2>1, BaseFrame
  <2>3. n \in ckpts /\ InOrder(n) /\ Owed(n)
    BY <2>2, <1>b
  <2>4. seg[segment + 1] = {}
    BY <1>0, <1>a, <2>1 DEF ShapeInv
  <2>5. Replayed(n)' \subseteq Replayed(n) \cup {segment + 1} /\ Replayed(n) \subseteq Replayed(n)'
    BY <2>1 DEF Replayed, FirstSegment
  <2>6. RecoveredFrom(n)' = RecoveredFrom(n)
    <3>1. ASSUME NEW r PROVE r \in RecoveredFrom(n)' <=> r \in RecoveredFrom(n)
      BY <2>1, <2>4, <2>5 DEF RecoveredFrom
    <3> QED BY <3>1
  <2>7. InOrder(n)'
    BY <2>1, <2>3, <2>4, <2>5 DEF InOrder
  <2> QED BY <2>1, <2>3, <2>6, <2>7 DEF Owed, Running
<1>10. CASE StartCheckpointWriter
  <2>1. RecoveredFrom(n)' = RecoveredFrom(n) /\ InOrder(n)' /\ Owed(n)
    BY <1>10, <1>c DEF StartCheckpointWriter
  <2> QED BY <1>10, <2>1 DEF StartCheckpointWriter, Owed, Running
<1>11. CASE WriteCheckpoint
  <2>1. /\ UNCHANGED <<flusher, seg, files, status, mem, batch, pending, acked>>
        /\ writer.pc = "write" /\ writer'.pc = "renamed"
        /\ writer'.number = writer.number /\ writer.number \in Segment
        /\ ckpts' = ckpts \cup {writer.number}
        /\ ckpt' = [ckpt EXCEPT ![writer.number] = writer.state]
    BY <1>11, <1>0 DEF WriteCheckpoint, TypeOK
  <2>2. \A m \in ckpts : m < writer.number /\ m # writer.number
    BY <1>0, <1>a, <2>1 DEF WriterInv, Segment
  <2>3. IsBase(n)
    BY <2>1, <2>2 DEF IsBase, Base
  <2>4. n \in ckpts /\ InOrder(n) /\ Owed(n)
    BY <2>3, <1>b
  <2>5. ckpt'[n] = ckpt[n]
    BY <1>0, <2>1, <2>2, <2>4 DEF TypeOK
  <2>6. Replayed(n)' = Replayed(n)
    BY <2>1 DEF Replayed, FirstSegment
  <2>7. RecoveredFrom(n)' = RecoveredFrom(n) /\ InOrder(n)'
    BY <2>1, <2>4, <2>5, <2>6 DEF RecoveredFrom, InOrder
  <2> QED BY <2>1, <2>4, <2>7 DEF Owed, Running
<1>12. CASE WriteCheckpointFails
  <2>1. RecoveredFrom(n)' = RecoveredFrom(n) /\ InOrder(n)' /\ Owed(n)
    BY <1>12, <1>c DEF WriteCheckpointFails, NoWriter
  <2> QED BY <1>12, <2>1 DEF WriteCheckpointFails, Owed, Running
<1>13. CASE SyncDirectory
  <2>1. /\ UNCHANGED <<flusher, seg, files, status, mem, batch, pending, acked, ckpts,
                       ckpt>>
        /\ writer.pc = "renamed" /\ writer'.pc = "segments"
    BY <1>13, <1>0 DEF SyncDirectory, TypeOK
  <2>2. IsLatest(n) /\ n \in ckpts
    BY <2>1 DEF IsBase, Base, IsLatest
  <2>3. PICK o \in ckpts : IsBase(o)
    BY <1>0 DEF WriterInv
  <2>4. InOrder(o) /\ Owed(o)
    BY <2>3, <1>b
  <2>5. RecoveredFrom(n) = RecoveredFrom(o)
    BY <1>0, <2>2, <2>3, LatestRecoversBase
  <2>6. InOrder(n)
    BY <1>0, <2>2, <2>3, <2>4, LatestInOrder
  <2>7. RecoveredFrom(n)' = RecoveredFrom(o) /\ InOrder(n)'
    BY <2>1, <2>5, <2>6, DiskFrame
  <2> QED BY <2>1, <2>4, <2>7 DEF Owed, Running
<1>14. CASE PruneSegment
  <2>1. /\ UNCHANGED <<flusher, status, mem, batch, pending, acked, ckpts, ckpt>>
        /\ writer.pc = "segments" /\ writer'.pc # "renamed"
    BY <1>14, <1>0 DEF PruneSegment, TypeOK
  <2>2. IsBase(n) /\ IsLatest(n) /\ n \in ckpts
    BY <2>1, BaseFrame DEF IsBase, Base, IsLatest
  <2>3. InOrder(n) /\ Owed(n)
    BY <2>2, <1>b
  <2>4. n = writer.number /\ n > 0 /\ n \in Int
    <3>1. IsLatest(writer.number)
      BY <1>0, <2>1 DEF WriterInv
    <3>2. n = writer.number
      BY <1>a, <2>2, <3>1, UniqueLatest
    <3> QED BY <1>0, <3>2, OpLogAssumption DEF TypeOK, Segment
  <2>5. /\ Replayed(n)' = Replayed(n)
        /\ \A s \in Replayed(n) : seg'[s] = seg[s]
    <3>1. CASE UNCHANGED <<files, seg>>
      BY <3>1 DEF Replayed, FirstSegment
    <3>2. ASSUME NEW s \in OldSegments, files' = files \ {s},
                 seg' = [seg EXCEPT ![s] = {}]
          PROVE  /\ Replayed(n)' = Replayed(n)
                 /\ \A t \in Replayed(n) : seg'[t] = seg[t]
      <4>1. s < n /\ s \in Int
        BY <1>a, <2>4 DEF OldSegments
      <4>2. FirstSegment(n) = n
        BY <2>4 DEF FirstSegment
      <4>3. s \notin Replayed(n)
        BY <2>4, <4>1, <4>2 DEF Replayed
      <4>4. Replayed(n)' = Replayed(n)
        BY <3>2, <4>3 DEF Replayed, FirstSegment
      <4>5. \A t \in Replayed(n) : seg'[t] = seg[t]
        BY <1>0, <3>2, <4>3 DEF Replayed, TypeOK
      <4> QED BY <4>4, <4>5
    <3> QED BY <1>14, <3>1, <3>2 DEF PruneSegment
  <2>6. RecoveredFrom(n)' = RecoveredFrom(n) /\ InOrder(n)'
    BY <2>1, <2>3, <2>5 DEF RecoveredFrom, InOrder
  <2> QED BY <2>1, <2>3, <2>6 DEF Owed, Running
<1>15. CASE PruneCheckpoint
  <2>1. /\ UNCHANGED <<flusher, status, mem, batch, pending, acked, files, seg>>
        /\ ckpts' \subseteq ckpts
        /\ writer.pc = "checkpoints" /\ writer'.pc # "renamed"
    BY <1>15, <1>0 DEF PruneCheckpoint, TypeOK, NoWriter
  <2>2. PICK w \in Int : w = writer.number /\ IsLatest(w)
    BY <1>0, <1>a, <2>1 DEF WriterInv, IsLatest
  <2>3. w \in ckpts /\ w \notin OldCheckpoints
    BY <1>a, <2>2 DEF OldCheckpoints, Newer, IsLatest
  <2>4. w \in ckpts' /\ ckpt'[w] = ckpt[w]
    BY <1>15, <1>0, <2>3 DEF PruneCheckpoint, OldCheckpoints, TypeOK
  <2>5. n \in ckpts /\ w <= n /\ n <= w
    BY <2>1, <2>2, <2>4 DEF IsBase, Base, IsLatest
  <2>6. n = w
    BY <1>a, <2>5
  <2>7. IsBase(n)
    BY <2>1, <2>2, <2>6 DEF IsBase, Base, IsLatest
  <2>8. InOrder(n) /\ Owed(n)
    BY <2>7, <1>b
  <2>9. Replayed(n)' = Replayed(n)
    BY <2>1 DEF Replayed, FirstSegment
  <2>10. RecoveredFrom(n)' = RecoveredFrom(n) /\ InOrder(n)'
    BY <2>1, <2>4, <2>6, <2>8, <2>9 DEF RecoveredFrom, InOrder
  <2> QED BY <2>1, <2>8, <2>10 DEF Owed, Running
<1>16. CASE Stop
  <2>1. RecoveredFrom(n)' = RecoveredFrom(n) /\ InOrder(n)' /\ Owed(n)
    BY <1>16, <1>c DEF Stop
  <2> QED BY <1>16, <2>1 DEF Stop, Owed, Running
<1>17. CASE Stopped
  <2>1. RecoveredFrom(n)' = RecoveredFrom(n) /\ InOrder(n)' /\ Owed(n)
    BY <1>17, <1>c DEF Stopped
  <2>2. batch = {}
    BY <1>17, <1>0 DEF Stopped, ControlInv
  <2> QED BY <1>17, <2>1, <2>2 DEF Stopped, Owed, Running
<1>18. CASE Crash
  BY <1>0, <1>18, CrashStep
<1>19. CASE Recover
  BY <1>0, <1>19, RecoverStep
<1> QED
  BY <1>1, <1>2, <1>3, <1>4, <1>6, <1>7, <1>8, <1>9, <1>10, <1>11, <1>12,
     <1>13, <1>14, <1>15, <1>16, <1>17, <1>18, <1>19
     DEF Next, FlusherNext, WriterNext, WriteBatchFails

-----------------------------------------------------------------------------
\* The invariant holds when the first process has opened segment 1.
LEMMA InitInv == Init => IInv
<1> SUFFICES ASSUME Init PROVE IInv
  OBVIOUS
<1> USE OpLogAssumption DEF Init
<1>1. TypeOK
  <2>1. writer \in [pc : WriterPC, number : Segment, state : SUBSET Record]
    BY DEF NoWriter, WriterPC, Segment
  <2> QED BY <2>1 DEF TypeOK, FlusherPC, Segment, Record
<1>2. ShapeInv /\ ControlInv
  BY DEF ShapeInv, ControlInv, Running, StateMutexFree, NoWriter
<1>3. NumberInv
  BY DEF NumberInv
<1>4. WriterInv
  BY DEF WriterInv, IsBase, Base, NoWriter
<1>5. DiskInv
  <2> SUFFICES ASSUME NEW n \in ckpts PROVE InOrder(n) /\ Owed(n)
    BY DEF DiskInv
  <2>1. ckpt[n] = {} /\ \A s \in Replayed(n) : seg[s] = {}
    BY DEF Replayed, Segment
  <2>2. RecoveredFrom(n) = {}
    BY <2>1 DEF RecoveredFrom
  <2> QED BY <2>1, <2>2 DEF InOrder, Owed, Running
<1> QED BY <1>1, <1>2, <1>3, <1>4, <1>5 DEF IInv

\* Stuttering keeps the invariant.
LEMMA StutterInv == IInv /\ UNCHANGED vars => IInv'
<1> SUFFICES ASSUME IInv, UNCHANGED vars PROVE IInv'
  OBVIOUS
<1> USE DEF vars, IInv
<1>1. TypeOK' /\ ShapeInv' /\ ControlInv' /\ NumberInv'
  BY DEF TypeOK, ShapeInv, ControlInv, NumberInv, Running, StateMutexFree
<1>2. WriterInv'
  BY WriterFrame
<1>3. DiskInv'
  BY DiskFrame, BaseFrame DEF DiskInv, Owed, Running
<1> QED BY <1>1, <1>2, <1>3

\* Every variable keeps its type, whether or not the sink fails.
THEOREM TypeCorrect == Spec => []TypeOK
<1>1. Init => TypeOK
  BY InitInv DEF IInv
<1>2. TypeOK /\ [Next]_vars => TypeOK'
  BY TypeStep
<1> QED BY <1>1, <1>2, PTL DEF Spec

\* The invariant of the argument above.
THEOREM Invariant == ASSUME ~SinkMayFail PROVE Spec => []IInv
<1>1. Init => IInv
  BY InitInv
<1>2. IInv /\ [Next]_vars => IInv'
  <2> SUFFICES ASSUME IInv, [Next]_vars PROVE IInv'
    OBVIOUS
  <2>1. CASE Next
    <3>1. TypeOK'
      BY <2>1, TypeStep DEF IInv
    <3> QED BY <2>1, <3>1, ShapeStep, ControlStep, NumberStep, WriterStep, DiskStep
            DEF IInv
  <2>2. CASE UNCHANGED vars
    BY <2>2, StutterInv
  <2> QED BY <2>1, <2>2
<1> QED BY <1>1, <1>2, PTL DEF Spec

\* Whatever the bounds and whenever the crash comes, a record whose
\* WaitFlushed returned is found by Recover, as long as the sink does not fail.
THEOREM Durability == ASSUME ~SinkMayFail PROVE Spec => []AckedDurable
<1>1. IInv => AckedDurable
  <2> SUFFICES ASSUME IInv, NEW m \in ckpts, IsLatest(m)
               PROVE  acked \subseteq RecoveredFrom(m)
    BY DEF AckedDurable
  <2>1. PICK n \in ckpts : IsBase(n)
    BY DEF IInv, WriterInv
  <2>2. RecoveredFrom(m) = RecoveredFrom(n)
    BY <2>1, LatestRecoversBase DEF IInv
  <2> QED BY <2>1, <2>2 DEF IInv, DiskInv, Owed
<1> QED BY <1>1, Invariant, PTL

\* Recover finds a prefix of what was applied, without gaps and without
\* records that an earlier recovery lost.
THEOREM PrefixRecovered == ASSUME ~SinkMayFail PROVE Spec => []RecoveredIsPrefix
<1>1. IInv => RecoveredIsPrefix
  <2> SUFFICES ASSUME IInv, NEW m \in ckpts, IsLatest(m)
               PROVE  /\ RecoveredFrom(m) \subseteq mem
                      /\ \A r \in RecoveredFrom(m), q \in mem :
                           q < r => q \in RecoveredFrom(m)
    BY DEF RecoveredIsPrefix
  <2>1. PICK n \in ckpts : IsBase(n)
    BY DEF IInv, WriterInv
  <2>2. RecoveredFrom(m) = RecoveredFrom(n)
    BY <2>1, LatestRecoversBase DEF IInv
  <2> QED BY <2>1, <2>2 DEF IInv, DiskInv, Owed
<1> QED BY <1>1, Invariant, PTL

\* Replay applies each record once, in the order of Append.
THEOREM OrderedReplay == ASSUME ~SinkMayFail PROVE Spec => []ReplayedInOrder
<1>1. IInv => ReplayedInOrder
  <2> SUFFICES ASSUME IInv, NEW m \in ckpts, IsLatest(m) PROVE InOrder(m)
    BY DEF ReplayedInOrder, InOrder
  <2>1. PICK n \in ckpts : IsBase(n)
    BY DEF IInv, WriterInv
  <2>2. InOrder(n)
    BY <2>1 DEF IInv, DiskInv
  <2> QED BY <2>1, <2>2, LatestInOrder DEF IInv
<1> QED BY <1>1, Invariant, PTL

\* What was applied is on disk or in the flusher's hands, and after a clean
\* Stop it is on disk.
THEOREM InFlight == ASSUME ~SinkMayFail PROVE Spec => []NothingInFlightLost
<1>1. IInv => NothingInFlightLost
  <2> SUFFICES ASSUME IInv, NEW m \in ckpts, IsLatest(m)
               PROVE  /\ Running => mem = RecoveredFrom(m) \cup batch \cup pending
                      /\ status = "stopped" => mem = RecoveredFrom(m)
    BY DEF NothingInFlightLost
  <2>1. PICK n \in ckpts : IsBase(n)
    BY DEF IInv, WriterInv
  <2>2. RecoveredFrom(m) = RecoveredFrom(n)
    BY <2>1, LatestRecoversBase DEF IInv
  <2> QED BY <2>1, <2>2 DEF IInv, DiskInv, Owed
<1> QED BY <1>1, Invariant, PTL

-----------------------------------------------------------------------------
(* What no step takes away. *)

\* The newest checkpoint, whose rename a crash may undo, owes the same.
LatestInv == \A m \in ckpts : IsLatest(m) => Owed(m)

\* What the base owes, the newest checkpoint owes too.
LEMMA LatestOwes == IInv => LatestInv
<1> SUFFICES ASSUME IInv, NEW m \in ckpts, IsLatest(m) PROVE Owed(m)
  BY DEF LatestInv
<1>1. PICK n \in ckpts : IsBase(n)
  BY DEF IInv, WriterInv
<1>2. RecoveredFrom(m) = RecoveredFrom(n) /\ Owed(n)
  BY <1>1, LatestRecoversBase DEF IInv, DiskInv
<1> QED
  BY <1>2 DEF Owed

\* While the process lives, recovery finds all that it found before the step:
\* a record leaves the flusher's hands when it is on disk, not earlier.
LEMMA LiveStepKeeps ==
  ASSUME ~SinkMayFail, IInv, LatestInv, LatestInv', Next, Running, Running',
         NEW n \in ckpts, IsLatest(n), NEW m \in ckpts', IsLatest(m)',
         NEW r \in RecoveredFrom(n)
  PROVE  r \in RecoveredFrom(m)'
<1>1. TypeOK /\ ControlInv /\ NumberInv /\ Owed(n) /\ Owed(m)'
  BY DEF IInv, LatestInv
<1>2. /\ r \in mem /\ r \in Int /\ r < next
      /\ \A q \in pending : r < q
      /\ flusher \in {"write", "rwrite"} => \A q \in batch : r < q
  <2>1. r \in mem /\ \A q \in pending : r < q
    BY <1>1 DEF Owed
  <2>2. flusher \in {"write", "rwrite"} => \A q \in batch : r < q
    BY <1>1 DEF Owed
  <2>3. r \in Int /\ r < next
    BY <1>1, <2>1, OpLogAssumption DEF NumberInv, TypeOK, Record
  <2> QED
    BY <2>1, <2>2, <2>3
<1>3. r \notin pending /\ (flusher \in {"write", "rwrite"} => r \notin batch)
  BY <1>2
<1>4. /\ mem \subseteq mem'
      /\ pending' \subseteq pending \cup {next}
      /\ r \in batch' => r \in pending \/ flusher' \in {"ack", "rack"}
  <2>1. CASE Append
    BY <1>1, <1>3, <2>1 DEF Append, ControlInv, TypeOK, FlusherPC
  <2>2. ASSUME NEW q \in Record, WaitFlushed(q)
        PROVE  /\ mem \subseteq mem' /\ pending' = pending
               /\ r \in batch' => flusher' \in {"ack", "rack"}
    BY <1>1, <1>3, <2>2 DEF WaitFlushed, ControlInv, TypeOK, FlusherPC
  <2>3. CASE FlusherNext
    BY <1>1, <1>3, <2>3
       DEF FlusherNext, TakeBatch, WriteBatch, WriteBatchFails, SetFlushed,
           NoRotation, RotateTakeBatch, RotateSwitch, StartCheckpointWriter,
           ControlInv, TypeOK, FlusherPC
  <2>4. CASE WriterNext \/ Stop
    BY <1>1, <1>3, <2>4
       DEF WriterNext, WriteCheckpoint, WriteCheckpointFails, SyncDirectory,
           PruneSegment, PruneCheckpoint, Stop, ControlInv, TypeOK, FlusherPC
  <2>5. ~(Stopped \/ Crash \/ Recover)
    BY DEF Stopped, Crash, Recover, Running
  <2> QED
    BY <2>1, <2>2, <2>3, <2>4, <2>5 DEF Next
<1>5. r \notin pending'
  BY <1>2, <1>3, <1>4
<1>6. /\ mem' = RecoveredFrom(m)' \cup batch' \cup pending'
      /\ flusher' \in {"ack", "rack"} => batch' \subseteq RecoveredFrom(m)'
  BY <1>1 DEF Owed
<1> QED
  BY <1>2, <1>3, <1>4, <1>5, <1>6

\* A crash adds to the segment; the checkpoint that is left recovers the same.
LEMMA CrashKeeps ==
  ASSUME IInv, Crash, NEW n \in ckpts, IsLatest(n), NEW m \in ckpts', IsLatest(m)'
  PROVE  RecoveredFrom(n) \subseteq RecoveredFrom(m)'
<1>0. /\ TypeOK /\ WriterInv /\ ckpts \subseteq Int
  BY OpLogAssumption DEF IInv, TypeOK, Segment
<1>1. /\ m \in ckpts /\ (IsBase(m) \/ IsLatest(m)) /\ ckpt'[m] = ckpt[m]
  <2>1. CASE UNCHANGED <<ckpts, ckpt>>
    BY <2>1 DEF IsLatest
  <2>2. CASE /\ writer.pc = "renamed"
             /\ ckpts' = ckpts \ {writer.number}
             /\ ckpt' = [ckpt EXCEPT ![writer.number] = {}]
    BY <1>0, <2>2 DEF IsBase, Base, IsLatest, TypeOK
  <2> QED
    BY <2>1, <2>2 DEF Crash, CrashDuringRename
<1>2. RecoveredFrom(m) = RecoveredFrom(n)
  <2>1. CASE IsLatest(m)
    BY <1>0, <1>1, <2>1, UniqueLatest
  <2>2. CASE IsBase(m)
    BY <1>0, <1>1, <2>2, LatestRecoversBase
  <2> QED
    BY <1>1, <2>1, <2>2
<1>3. files' = files /\ \A s \in files : seg[s] \subseteq seg'[s]
  BY <1>0 DEF Crash, CrashDuringWrite, Appended, TypeOK
<1>4. Replayed(m)' = Replayed(m)
  BY <1>3 DEF Replayed, FirstSegment
<1> QED
  BY <1>1, <1>2, <1>3, <1>4 DEF RecoveredFrom, Replayed

\* WriteBatch, Rotate, the checkpoint writer, Prune and a crash in any of them:
\* what a recovery would find before the step, it finds after it.
THEOREM NothingForgotten == ASSUME ~SinkMayFail PROVE Spec => DiskNeverForgets
<1>1. ASSUME IInv, LatestInv, LatestInv', [Next]_vars,
             NEW n \in ckpts, NEW m \in ckpts', IsLatest(n), IsLatest(m)'
      PROVE  RecoveredFrom(n) \subseteq RecoveredFrom(m)'
  <2>0. ckpts \subseteq Int
    BY <1>1, OpLogAssumption DEF IInv, TypeOK, Segment
  <2>1. CASE UNCHANGED <<ckpts, ckpt, files, seg>>
    <3>1. m = n
      BY <1>1, <2>0, <2>1, UniqueLatest DEF IsLatest
    <3>2. RecoveredFrom(n)' = RecoveredFrom(n)
      BY <2>1 DEF RecoveredFrom, Replayed, FirstSegment
    <3> QED
      BY <3>1, <3>2
  <2>2. CASE Crash
    BY <1>1, <2>2, CrashKeeps
  <2>3. CASE Recover
    <3>1. UNCHANGED <<ckpts, ckpt, seg>> /\ files \subseteq files'
      BY <2>3 DEF Recover
    <3>2. m = n
      BY <1>1, <2>0, <3>1, UniqueLatest DEF IsLatest
    <3> QED
      BY <3>1, <3>2 DEF RecoveredFrom, Replayed, FirstSegment
  <2>4. CASE Next /\ Running /\ Running'
    BY <1>1, <2>4, LiveStepKeeps
  <2>5. Stopped \/ UNCHANGED vars => UNCHANGED <<ckpts, ckpt, files, seg>>
    BY DEF Stopped, vars, diskVars
  <2>6. \/ Stopped \/ Crash \/ Recover \/ UNCHANGED vars
        \/ Next /\ Running /\ Running'
    BY <1>1 DEF Next, FlusherNext, WriterNext, Append, WaitFlushed, TakeBatch,
                WriteBatch, WriteBatchFails, SetFlushed, NoRotation, RotateTakeBatch,
                RotateSwitch, StartCheckpointWriter, WriteCheckpoint,
                WriteCheckpointFails, SyncDirectory, PruneSegment, PruneCheckpoint,
                Stop, Running
  <2> QED
    BY <2>1, <2>2, <2>3, <2>4, <2>5, <2>6
<1>2. IInv /\ LatestInv /\ LatestInv' /\ [Next]_vars =>
        \A n \in ckpts, m \in ckpts' :
          IsLatest(n) /\ IsLatest(m)' => RecoveredFrom(n) \subseteq RecoveredFrom(m)'
  BY <1>1
<1> QED
  BY <1>2, LatestOwes, Invariant, PTL DEF DiskNeverForgets, Spec
=============================================================================
