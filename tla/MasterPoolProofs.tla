-------------------------- MODULE MasterPoolProofs --------------------------
(***************************************************************************)
(* Proofs about MasterPool for every number of threads and every set of    *)
(* calls.  Every step of the pool is one of LockTable or leaves the locks  *)
(* alone, by the way it is defined: what is proved of the locks holds here *)
(* too.                                                                    *)
(***************************************************************************)
EXTENDS MasterPool, LockTableProofs

\* Only a call that waits for a thread is in the queue, and only once.
QueueInv ==
  /\ \A i \in DOMAIN tasks : where[tasks[i]] = "queued"
  /\ \A i, j \in DOMAIN tasks : tasks[i] = tasks[j] => i = j

\* How far a call is with its locks, when it has no thread.
StageInv ==
  \A c \in Caller :
    /\ where[c] = "new" => pc[c] = "start"
    /\ where[c] = "queued" => pc[c] \in {"start", "holding"}
    /\ where[c] = "deferred" => pc[c] = "holding"

PoolInv == PoolTypeOK /\ QueueInv /\ StageInv

-----------------------------------------------------------------------------
\* Every step of the pool is a step of the lock table or leaves it alone.
LEMMA PoolStepIsLockStep == [PoolNext]_allVars => [Next]_vars
<1>1. ASSUME NEW c \in Caller, TableStep(c) \/ Spurious(c) PROVE [Next]_vars
  BY <1>1 DEF TableStep, Spurious, Next
<1>2. ASSUME NEW c \in Caller,
             \/ Post(c) \/ GcPass(c) \/ TakeTask(c) \/ Fire(c)
             \/ Defer(c) \/ Return(c) \/ ReturnEarly(c)
      PROVE  vars' = vars
  BY <1>2 DEF Post, GcPass, TakeTask, Fire, Defer, Return, ReturnEarly
<1>3. AllFinished \/ UNCHANGED allVars => vars' = vars
  BY DEF AllFinished, allVars
<1> QED BY <1>1, <1>2, <1>3 DEF PoolNext, ThreadStep

\* Seen through the variables of LockTable, the pool is one of its behaviours.
LEMMA PoolLocks == PoolSpec => Spec
<1>1. PoolInit => Init
  BY DEF PoolInit
<1> QED BY <1>1, PoolStepIsLockStep, PTL DEF PoolSpec, Spec

\* A handler that writes a directory has its subtree to itself until it ends,
\* whether it runs, waits in the timer queue or waits for a thread again.
THEOREM PoolSubtreeIsolation == PoolSpec => []SubtreeExclusion
BY PoolLocks, SubtreeIsolation, PTL

-----------------------------------------------------------------------------
\* A task at the end of the queue.
LEMMA AppendTask ==
  ASSUME NEW c \in Caller, tasks \in Seq(Caller), tasks' = Append(tasks, c)
  PROVE  /\ tasks' \in Seq(Caller)
         /\ Len(tasks) \in Nat /\ DOMAIN tasks = 1..Len(tasks)
         /\ DOMAIN tasks' = 1..(Len(tasks) + 1)
         /\ \A i \in 1..Len(tasks) : tasks'[i] = tasks[i]
         /\ tasks'[Len(tasks) + 1] = c
OBVIOUS

\* Posting a call that is not in the queue keeps the queue exact.
LEMMA PostStep ==
  ASSUME PoolInv, NEW c \in Caller, where[c] # "queued",
         where' = [where EXCEPT ![c] = "queued"], tasks' = Append(tasks, c)
  PROVE  QueueInv' /\ tasks' \in Seq(Caller)
<1>1. /\ tasks \in Seq(Caller) /\ where \in [Caller -> Where]
  BY DEF PoolInv, PoolTypeOK
<1>2. /\ tasks' \in Seq(Caller)
      /\ Len(tasks) \in Nat /\ DOMAIN tasks = 1..Len(tasks)
      /\ DOMAIN tasks' = 1..(Len(tasks) + 1)
      /\ \A i \in 1..Len(tasks) : tasks'[i] = tasks[i]
      /\ tasks'[Len(tasks) + 1] = c
  BY <1>1, AppendTask
<1>3. \A i \in 1..(Len(tasks) + 1) : i \in 1..Len(tasks) \/ i = Len(tasks) + 1
  BY <1>2
<1>4. \A i \in 1..Len(tasks) :
        tasks[i] \in Caller /\ tasks[i] # c /\ where[tasks[i]] = "queued"
  BY <1>1, <1>2 DEF PoolInv, QueueInv
<1>5. \A i \in DOMAIN tasks' : where'[tasks'[i]] = "queued"
  BY <1>1, <1>2, <1>3, <1>4
<1>6. \A i, j \in DOMAIN tasks' : tasks'[i] = tasks'[j] => i = j
  <2> SUFFICES ASSUME NEW i \in DOMAIN tasks', NEW j \in DOMAIN tasks',
                      tasks'[i] = tasks'[j]
               PROVE  i = j
    OBVIOUS
  <2>1. CASE i \in 1..Len(tasks) /\ j \in 1..Len(tasks)
    BY <1>2, <2>1 DEF PoolInv, QueueInv
  <2>2. CASE i = Len(tasks) + 1 /\ j \in 1..Len(tasks)
    BY <1>2, <1>4, <2>2
  <2>3. CASE j = Len(tasks) + 1 /\ i \in 1..Len(tasks)
    BY <1>2, <1>4, <2>3
  <2> QED BY <1>2, <1>3, <2>1, <2>2, <2>3
<1> QED BY <1>2, <1>5, <1>6 DEF QueueInv

\* Taking the first task keeps the queue exact.
LEMMA TakeStep ==
  ASSUME PoolInv, NEW c \in Caller, TakeTask(c)
  PROVE  QueueInv' /\ tasks' \in Seq(Caller) /\ where[c] = "queued"
<1>1. /\ tasks \in Seq(Caller) /\ where \in [Caller -> Where]
      /\ tasks # <<>> /\ c = Head(tasks) /\ tasks' = Tail(tasks)
      /\ \A d \in Caller \ {c} : where'[d] = where[d]
  BY DEF PoolInv, PoolTypeOK, TakeTask
<1>2. /\ Len(tasks) \in Nat /\ DOMAIN tasks = 1..Len(tasks) /\ Len(tasks) > 0
      /\ c = tasks[1] /\ tasks' \in Seq(Caller)
      /\ DOMAIN tasks' = 1..(Len(tasks) - 1)
      /\ \A i \in 1..(Len(tasks) - 1) : tasks'[i] = tasks[i + 1]
  BY <1>1
<1>3. where[c] = "queued"
  BY <1>2 DEF PoolInv, QueueInv
<1>4. \A i \in 1..(Len(tasks) - 1) :
        /\ i \in Int /\ i + 1 \in DOMAIN tasks /\ tasks[i + 1] \in Caller
        /\ tasks[i + 1] # c
  <2> SUFFICES ASSUME NEW i \in 1..(Len(tasks) - 1)
               PROVE  /\ i \in Int /\ i + 1 \in DOMAIN tasks
                      /\ tasks[i + 1] \in Caller /\ tasks[i + 1] # c
    OBVIOUS
  <2>1. i \in Int /\ i + 1 \in DOMAIN tasks /\ 1 \in DOMAIN tasks /\ i + 1 # 1
    BY <1>2
  <2>2. tasks[i + 1] # tasks[1]
    BY <2>1 DEF PoolInv, QueueInv
  <2> QED BY <1>1, <1>2, <2>1, <2>2
<1>5. \A i \in DOMAIN tasks' : where'[tasks'[i]] = "queued"
  BY <1>1, <1>2, <1>4 DEF PoolInv, QueueInv
<1>6. \A i, j \in DOMAIN tasks' : tasks'[i] = tasks'[j] => i = j
  <2> SUFFICES ASSUME NEW i \in DOMAIN tasks', NEW j \in DOMAIN tasks',
                      tasks'[i] = tasks'[j]
               PROVE  i = j
    OBVIOUS
  <2>1. /\ i + 1 \in DOMAIN tasks /\ j + 1 \in DOMAIN tasks
        /\ tasks[i + 1] = tasks[j + 1]
    BY <1>2, <1>4
  <2>2. i + 1 = j + 1
    BY <2>1 DEF PoolInv, QueueInv
  <2>3. i \in Int /\ j \in Int
    BY <1>2
  <2> QED BY <2>2, <2>3
<1> QED BY <1>2, <1>3, <1>5, <1>6 DEF QueueInv

\* Every step of the pool keeps its invariant.
LEMMA PoolStep == PoolInv /\ [PoolNext]_allVars => PoolInv'
<1> SUFFICES ASSUME PoolInv, [PoolNext]_allVars PROVE PoolInv'
  OBVIOUS
<1>0. /\ TypeOK /\ TypeOK'
      /\ where \in [Caller -> Where] /\ tasks \in Seq(Caller)
  BY PoolStepIsLockStep, TypeStep DEF PoolInv, PoolTypeOK
<1>1. ASSUME NEW c \in Caller, NEW w \in Where, vars' = vars, tasks' = tasks,
             where' = [where EXCEPT ![c] = w], where[c] # "queued", w # "queued",
             w = "new" => pc[c] = "start", w = "deferred" => pc[c] = "holding"
      PROVE  PoolInv'
  <2>1. where' \in [Caller -> Where] /\ pc' = pc
    BY <1>0, <1>1 DEF vars
  <2>2. \A i \in DOMAIN tasks : tasks[i] \in Caller /\ tasks[i] # c
    BY <1>0, <1>1 DEF PoolInv, QueueInv
  <2>3. QueueInv'
    BY <1>0, <1>1, <2>2 DEF PoolInv, QueueInv
  <2>4. StageInv'
    BY <1>0, <1>1, <2>1 DEF PoolInv, StageInv
  <2> QED BY <1>0, <1>1, <2>1, <2>3, <2>4 DEF PoolInv, PoolTypeOK
<1>2. ASSUME NEW c \in Caller, Post(c) \/ Fire(c) PROVE PoolInv'
  <2>1. /\ where' = [where EXCEPT ![c] = "queued"] /\ where[c] # "queued"
        /\ tasks' = Append(tasks, c) /\ pc' = pc
        /\ where[c] = "new" \/ where[c] = "deferred"
    BY <1>2 DEF Post, Fire, vars
  <2>2. QueueInv' /\ tasks' \in Seq(Caller)
    BY <2>1, PostStep
  <2>3. where' \in [Caller -> Where]
    BY <1>0, <2>1 DEF Where
  <2>4. StageInv'
    BY <1>0, <2>1 DEF PoolInv, StageInv
  <2> QED BY <1>0, <2>2, <2>3, <2>4 DEF PoolInv, PoolTypeOK
<1>3. ASSUME NEW c \in Caller, TakeTask(c) PROVE PoolInv'
  <2>1. QueueInv' /\ tasks' \in Seq(Caller)
    BY <1>3, TakeStep
  <2>2. /\ where' \in [Caller -> Where] /\ pc' = pc
        /\ where'[c] \in {"running", "resumed"}
        /\ \A d \in Caller \ {c} : where'[d] = where[d]
    BY <1>0, <1>3 DEF TakeTask, Where, vars
  <2>3. StageInv'
    BY <2>2 DEF PoolInv, StageInv
  <2> QED BY <1>0, <2>1, <2>2, <2>3 DEF PoolInv, PoolTypeOK
<1>4. ASSUME NEW c \in Caller,
             GcPass(c) \/ Defer(c) \/ Return(c) \/ ReturnEarly(c)
      PROVE  PoolInv'
  BY <1>1, <1>4 DEF GcPass, Defer, Return, ReturnEarly, OnThread, Where
<1>5. ASSUME where' = where, tasks' = tasks,
             \A d \in Caller : pc'[d] # pc[d] =>
               where[d] \notin {"new", "queued", "deferred"}
      PROVE  PoolInv'
  <2>1. QueueInv'
    BY <1>5 DEF PoolInv, QueueInv
  <2>2. StageInv'
    BY <1>5 DEF PoolInv, StageInv
  <2> QED BY <1>0, <1>5, <2>1, <2>2 DEF PoolInv, PoolTypeOK
<1>6. ASSUME NEW c \in Caller, TableStep(c) PROVE PoolInv'
  <2>1. \A d \in Caller : pc'[d] # pc[d] =>
           d = c \/ (pc[d] = "asleep" /\ pc'[d] = "woken")
    <3>1. CASE Acquire(c) \/ Release(c)
      BY <1>0, <3>1 DEF Acquire, Release, TypeOK
    <3>2. ASSUME NEW p \in Path, LockOne(c, p) \/ Wake(c, p)
          PROVE  \A d \in Caller : pc'[d] # pc[d] => d = c
      BY <1>0, <3>2 DEF LockOne, Wake, TestAndLock, TypeOK
    <3>3. ASSUME NEW p \in Path, UnlockOne(c, p)
          PROVE  \A d \in Caller : pc'[d] # pc[d] =>
                   d = c \/ (pc[d] = "asleep" /\ pc'[d] = "woken")
      BY <1>0, <3>3 DEF UnlockOne, Notified, Sleeps, TypeOK
    <3> QED BY <1>6, <3>1, <3>2, <3>3 DEF TableStep, CallerStep
  <2>2. where[c] \in {"running", "resumed"} /\ where' = where /\ tasks' = tasks
    BY <1>6 DEF TableStep, OnThread, poolVars
  <2>3. \A d \in Caller : pc[d] = "asleep" => where[d] \notin {"new", "queued", "deferred"}
    BY DEF PoolInv, StageInv
  <2> QED BY <1>5, <2>1, <2>2, <2>3
<1>7. ASSUME NEW c \in Caller, Spurious(c) PROVE PoolInv'
  <2>1. /\ where' = where /\ tasks' = tasks /\ pc[c] = "asleep"
        /\ \A d \in Caller : pc'[d] # pc[d] => d = c
    BY <1>0, <1>7 DEF Spurious, SpuriousWake, poolVars, TypeOK
  <2> QED BY <1>5, <2>1 DEF PoolInv, StageInv
<1>8. CASE UNCHANGED allVars
  BY <1>5, <1>8 DEF allVars, vars, poolVars
<1> QED
  BY <1>2, <1>3, <1>4, <1>6, <1>7, <1>8 DEF PoolNext, ThreadStep, AllFinished

\* The types and the queue of the pool.
THEOREM PoolInvariant == PoolSpec => []PoolInv
<1>1. PoolInit => PoolInv
  <2> SUFFICES ASSUME PoolInit PROVE PoolInv
    OBVIOUS
  <2>1. TypeOK
    BY LockInit DEF PoolInit, LockInv
  <2>2. PoolTypeOK
    BY <2>1 DEF PoolInit, PoolTypeOK, Where
  <2>3. QueueInv /\ StageInv
    BY DEF PoolInit, Init, QueueInv, StageInv
  <2> QED BY <2>2, <2>3 DEF PoolInv
<1> QED BY <1>1, PoolStep, PTL DEF PoolSpec

\* A call that gave its thread back keeps every lock it took: no handler can
\* get in between the two halves of a snapshot or of a lease request.
THEOREM DeferredKeepsLocks == PoolSpec => []DeferredHoldsLocks
<1>1. PoolInv /\ LockInv => DeferredHoldsLocks
  BY DEF PoolInv, StageInv, LockInv, HeldInv, DeferredHoldsLocks
<1>2. PoolSpec => []LockInv
  BY PoolLocks, Invariant, PTL
<1> QED BY <1>1, <1>2, PoolInvariant, PTL

-----------------------------------------------------------------------------
\* A call that waits for a thread has its task in the queue.
QueuedInv == \A c \in Caller : where[c] = "queued" => \E i \in DOMAIN tasks : tasks[i] = c

\* Every step of the pool keeps the task of every call that waits for a thread.
LEMMA QueuedStep == PoolInv /\ QueuedInv /\ [PoolNext]_allVars => QueuedInv'
<1> SUFFICES ASSUME PoolInv, QueuedInv, [PoolNext]_allVars,
                    NEW d \in Caller, where'[d] = "queued"
             PROVE  \E i \in DOMAIN tasks' : tasks'[i] = d
  BY DEF QueuedInv
<1>0. tasks \in Seq(Caller) /\ where \in [Caller -> Where]
  BY DEF PoolInv, PoolTypeOK
<1>1. ASSUME tasks' = tasks, where[d] = "queued"
      PROVE  \E i \in DOMAIN tasks' : tasks'[i] = d
  BY <1>1 DEF QueuedInv
<1>2. ASSUME NEW c \in Caller, Post(c) \/ Fire(c)
      PROVE  \E i \in DOMAIN tasks' : tasks'[i] = d
  <2>1. where' = [where EXCEPT ![c] = "queued"] /\ tasks' = Append(tasks, c)
    BY <1>2 DEF Post, Fire
  <2>2. /\ DOMAIN tasks = 1..Len(tasks) /\ DOMAIN tasks' = 1..(Len(tasks) + 1)
        /\ Len(tasks) \in Nat
        /\ \A i \in 1..Len(tasks) : tasks'[i] = tasks[i]
        /\ tasks'[Len(tasks) + 1] = c
    BY <1>0, <2>1, AppendTask
  <2>3. CASE d = c
    BY <2>2, <2>3
  <2>4. CASE d # c
    <3>1. where[d] = "queued"
      BY <1>0, <2>1, <2>4
    <3>2. PICK i \in DOMAIN tasks : tasks[i] = d
      BY <3>1 DEF QueuedInv
    <3> QED
      BY <2>2, <3>2
  <2> QED
    BY <2>3, <2>4
<1>3. ASSUME NEW c \in Caller, TakeTask(c)
      PROVE  \E i \in DOMAIN tasks' : tasks'[i] = d
  <2>1. /\ tasks # <<>> /\ c = Head(tasks) /\ tasks' = Tail(tasks)
        /\ where' = [where EXCEPT ![c] = IF pc[c] = "start" THEN "running" ELSE "resumed"]
    BY <1>3 DEF TakeTask
  <2>2. d # c /\ where[d] = "queued"
    BY <1>0, <2>1
  <2>3. PICK i \in DOMAIN tasks : tasks[i] = d
    BY <2>2 DEF QueuedInv
  <2>4. /\ Len(tasks) \in Nat /\ DOMAIN tasks = 1..Len(tasks) /\ c = tasks[1]
        /\ DOMAIN tasks' = 1..(Len(tasks) - 1)
        /\ \A j \in 1..(Len(tasks) - 1) : tasks'[j] = tasks[j + 1]
    BY <1>0, <2>1
  <2>5. i - 1 \in 1..(Len(tasks) - 1) /\ (i - 1) + 1 = i
    BY <2>2, <2>3, <2>4
  <2> QED
    BY <2>3, <2>4, <2>5
<1>4. ASSUME NEW c \in Caller, \/ GcPass(c) \/ Defer(c) \/ Return(c) \/ ReturnEarly(c)
                               \/ TableStep(c) \/ Spurious(c)
      PROVE  \E i \in DOMAIN tasks' : tasks'[i] = d
  <2>1. tasks' = tasks
    BY <1>4 DEF GcPass, Defer, Return, ReturnEarly, TableStep, Spurious, poolVars
  <2>2. where[d] = "queued"
    BY <1>0, <1>4 DEF GcPass, Defer, Return, ReturnEarly, TableStep, Spurious, poolVars
  <2> QED
    BY <1>1, <2>1, <2>2
<1>5. CASE UNCHANGED allVars
  BY <1>1, <1>5 DEF allVars, poolVars
<1> QED
  BY <1>2, <1>3, <1>4, <1>5 DEF PoolNext, ThreadStep, AllFinished

\* The state of MasterPool has its type: no thread runs a task that is not a call.
THEOREM PoolTypeCorrect == PoolSpec => []PoolTypeOK
<1>1. PoolInv => PoolTypeOK
  BY DEF PoolInv
<1> QED
  BY <1>1, PoolInvariant, PTL

\* WorkerPool::Run takes every task once and TimerQueue::Run loses none: the
\* queue is a list without repetition of the calls that wait for a thread.
THEOREM ExactQueue == PoolSpec => []QueueExact
<1>1. PoolInit => QueuedInv
  BY DEF PoolInit, QueuedInv
<1>2. PoolInv /\ QueuedInv => QueueExact
  <2> SUFFICES ASSUME PoolInv, QueuedInv PROVE QueueExact
    OBVIOUS
  <2> DEFINE Queued == {c \in Caller : where[c] = "queued"}
  <2>1. /\ tasks \in Seq(Caller) /\ Len(tasks) \in Nat
        /\ DOMAIN tasks = 1..Len(tasks)
    BY DEF PoolInv, PoolTypeOK
  <2>2. \A i \in DOMAIN tasks : tasks[i] \in Queued
    BY <2>1 DEF PoolInv, QueueInv
  <2>3. \A c \in Queued : \E i \in DOMAIN tasks : tasks[i] = c
    BY DEF QueuedInv
  <2>4. \A i, j \in DOMAIN tasks : tasks[i] = tasks[j] => i = j
    BY DEF PoolInv, QueueInv
  <2> HIDE DEF Queued
  <2>5. tasks \in Bijection(1..Len(tasks), Queued)
    <3>1. tasks \in [1..Len(tasks) -> Queued]
      BY <2>1, <2>2
    <3> QED
      BY <2>1, <2>3, <2>4, <3>1 DEF Bijection, Injection, Surjection, IsInjective
  <2>6. Cardinality(Queued) = Len(tasks)
    BY <2>1, <2>5, FS_CountingElements DEF ExistsBijection
  <2>7. {tasks[i] : i \in DOMAIN tasks} = Queued
    BY <2>2, <2>3
  <2> QED
    BY <2>6, <2>7 DEF QueueExact, Queued
<1> QED
  BY <1>1, <1>2, QueuedStep, PoolInvariant, PTL DEF PoolSpec
=============================================================================
