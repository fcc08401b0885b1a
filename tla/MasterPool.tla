----------------------------- MODULE MasterPool -----------------------------
(***************************************************************************)
(* How the master runs its handlers: the worker pool, the timer queue and  *)
(* the table of path locks together (src/master/worker_pool.cc,            *)
(* timer_queue.cc, master_service.h, and the parts of master.cc that take  *)
(* locks, give up their thread and come back).                             *)
(*                                                                         *)
(* Every call is posted to a pool of Threads threads.  A thread runs a     *)
(* call to its end, asleep in LockTable while the call waits for a path.   *)
(* Snapshot and FindLeaseHolder may find a lease that has to expire first: *)
(* they put the rest of the call into the timer queue, keep their locks,   *)
(* and return the thread; the timer posts the rest to the same pool, behind *)
(* the calls that came in between.  GcPass runs on a thread of its own.    *)
(***************************************************************************)
EXTENDS LockTable, Sequences

CONSTANTS
  Threads,      \* master_worker_threads, at least 2
  Background,   \* the callers that are passes of the garbage collector
  Deferrable    \* the calls that may have to wait for a lease to expire

ASSUME PoolAssumption ==
  /\ Threads \in Nat \ {0, 1}
  /\ Background \subseteq Caller
  /\ Deferrable \subseteq Caller \ Background

VARIABLES
  where,        \* where each call is
  tasks         \* WorkerPool::tasks_

poolVars == <<where, tasks>>
allVars == <<vars, poolVars>>

\* "resumed" runs what the timer queue posted; a call is deferred once, until
\* the lease it waits for has expired.
Where == {"new", "queued", "running", "deferred", "resumed", "finished"}

\* The calls that have a thread.
OnThread(c) == where[c] \in {"running", "resumed"}
Busy == {c \in Caller \ Background : OnThread(c)}

PoolInit ==
  /\ Init
  /\ where = [c \in Caller |-> "new"]
  /\ tasks = <<>>

-----------------------------------------------------------------------------
(* The pool and the timer queue.                                           *)

\* MasterService::Dispatch posts the call.
Post(c) ==
  /\ c \notin Background
  /\ where[c] = "new"
  /\ where' = [where EXCEPT ![c] = "queued"]
  /\ tasks' = Append(tasks, c)
  /\ UNCHANGED vars

\* The collector's thread starts a pass.
GcPass(c) ==
  /\ c \in Background
  /\ where[c] = "new"
  /\ where' = [where EXCEPT ![c] = "running"]
  /\ UNCHANGED <<vars, tasks>>

\* Mutant of TakeTask: the task is copied and stays in the queue.
TakeTask_NoPop(c) ==
  /\ tasks # <<>>
  /\ c = Head(tasks)
  /\ Cardinality(Busy) < Threads
  /\ where' = [where EXCEPT ![c] = IF pc[c] = "start" THEN "running" ELSE "resumed"]
  /\ UNCHANGED <<vars, tasks>>

\* WorkerPool::Run: a free thread takes the oldest task.
TakeTask(c) ==
  /\ tasks # <<>>
  /\ c = Head(tasks)
  /\ Cardinality(Busy) < Threads
  /\ where' = [where EXCEPT ![c] = IF pc[c] = "start" THEN "running" ELSE "resumed"]
  /\ tasks' = Tail(tasks)
  /\ UNCHANGED vars

\* Mutant of Defer: the deferred call gives up its locks as its LockSet goes
\* out of scope.
Defer_DropsLocks(c) ==
  /\ c \in Deferrable
  /\ where[c] = "running" /\ pc[c] = "holding"
  /\ where' = [where EXCEPT ![c] = "deferred"]
  /\ held' = [held EXCEPT ![c] = {}]
  /\ UNCHANGED <<pc, req, entries, entry, tasks>>

\* TimerQueue::At, from Snapshot and from FindLeaseHolderAttempt: the call
\* keeps its locks and the handler returns.
Defer(c) ==
  /\ c \in Deferrable
  /\ where[c] = "running" /\ pc[c] = "holding"
  /\ where' = [where EXCEPT ![c] = "deferred"]
  /\ UNCHANGED <<vars, tasks>>

\* Mutant of Fire: the timer is erased and its call is not posted.
Fire_Loses(c) ==
  /\ where[c] = "deferred"
  /\ where' = [where EXCEPT ![c] = "queued"]
  /\ UNCHANGED <<vars, tasks>>

\* Mutant of Fire: what is posted is the function that was moved from.
Fire_PostsMovedFrom(c) ==
  /\ where[c] = "deferred"
  /\ where' = [where EXCEPT ![c] = "queued"]
  /\ tasks' = Append(tasks, "empty")
  /\ UNCHANGED vars

\* TimerQueue::Run: the lease is over, and the rest of the call is posted.
Fire(c) ==
  /\ where[c] = "deferred"
  /\ where' = [where EXCEPT ![c] = "queued"]
  /\ tasks' = Append(tasks, c)
  /\ UNCHANGED vars

-----------------------------------------------------------------------------
(* A call on its thread.                                                   *)

\* A handler that refuses its arguments returns before it takes a lock, as
\* those do that never take one (HeartBeat).
ReturnEarly(c) ==
  /\ where[c] = "running" /\ pc[c] = "start"
  /\ where' = [where EXCEPT ![c] = "finished"]
  /\ UNCHANGED <<vars, tasks>>

\* A step of LockTable, on the thread of the call.
TableStep(c) ==
  /\ OnThread(c)
  /\ Acquire(c) \/ CallerStep(c)
  /\ UNCHANGED poolVars

\* done() is called, and the thread goes back to the queue.
Return(c) ==
  /\ OnThread(c) /\ pc[c] = "done"
  /\ where' = [where EXCEPT ![c] = "finished"]
  /\ UNCHANGED <<vars, tasks>>

ThreadStep(c) == TableStep(c) \/ Defer(c) \/ Return(c) \/ ReturnEarly(c)

\* A call that sleeps has a thread; it may be woken for no reason.
Spurious(c) == SpuriousWake(c) /\ UNCHANGED poolVars

AllFinished == (\A c \in Caller : where[c] = "finished") /\ UNCHANGED allVars

PoolNext ==
  \/ \E c \in Caller : \/ Post(c) \/ GcPass(c) \/ TakeTask(c) \/ Fire(c)
                       \/ ThreadStep(c) \/ Spurious(c)
  \/ AllFinished

PoolSpec == PoolInit /\ [][PoolNext]_allVars

\* Threads that can run do run, free threads take tasks, and timers fire.
PoolFairSpec ==
  /\ PoolSpec
  /\ WF_allVars(\E c \in Caller : TakeTask(c))
  /\ \A c \in Caller : WF_allVars(ThreadStep(c)) /\ WF_allVars(Fire(c))

-----------------------------------------------------------------------------
(* Properties.                                                             *)

\* The type invariant.
PoolTypeOK ==
  /\ TypeOK
  /\ where \in [Caller -> Where]
  /\ tasks \in Seq(Caller)

\* A task is never lost and never run twice: the queue holds exactly the calls
\* that wait for a thread, each of them once.
QueueExact ==
  /\ {tasks[i] : i \in DOMAIN tasks} = {c \in Caller : where[c] = "queued"}
  /\ Len(tasks) = Cardinality({c \in Caller : where[c] = "queued"})

\* From its first lock to its last, a deferred call keeps what it locked: in
\* the timer queue, and again in the task queue, it holds all its paths.
DeferredHoldsLocks ==
  \A c \in Caller :
    where[c] = "deferred" \/ (where[c] = "queued" /\ pc[c] # "start") =>
      pc[c] = "holding" /\ held[c] = DOMAIN req[c]

\* Every call that the service has posted is answered.
AllCallsFinish ==
  \A c \in Caller : (where[c] = "queued") ~> (where[c] = "finished")

\* A call that was deferred is finished when the lease has expired.
DeferredCallsFinish ==
  \A c \in Caller : (where[c] = "deferred") ~> (where[c] = "finished")
=============================================================================
