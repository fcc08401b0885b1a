----------------------------- MODULE LockTable -----------------------------
(***************************************************************************)
(* The master's table of path locks: src/master/lock_table.cc.             *)
(*                                                                         *)
(* A caller asks for a set of paths, each to read or to write: every       *)
(* ancestor of the path it works on to read, the path itself in the mode   *)
(* it needs.  The locks are taken one by one in a global order (depth,     *)
(* then name) and given back in the opposite order.  Each LockOne and each *)
(* UnlockOne is one step, since it runs under the table's mutex; a caller  *)
(* that must wait releases the mutex and sleeps on the entry's condition   *)
(* variable.  A caller takes locks once: it stands for one request to the  *)
(* master.                                                                 *)
(***************************************************************************)
EXTENDS Integers, FiniteSets

CONSTANTS
  Caller,     \* requests to the master
  Path,       \* paths of the namespace
  Anc,        \* the proper ancestors of a path (AncestorsOf)
  Rank,       \* position of a path in the order that Before defines
  Request     \* the sets of locks that callers ask for

\* Before is a total order in which a path comes after its ancestors.
ASSUME LockTableAssumption ==
  /\ IsFiniteSet(Caller)
  /\ Anc \in [Path -> SUBSET Path]
  /\ Rank \in [Path -> Nat]
  /\ \A p, q \in Path : Rank[p] = Rank[q] => p = q
  /\ \A p \in Path : \A a \in Anc[p] : Rank[a] < Rank[p] /\ Anc[a] \subseteq Anc[p]

Mode == {"read", "write"}

\* What callers pass to Acquire, after Normalize: a mode for every path.
ASSUME RequestAssumption ==
  \A r \in Request : \E S \in SUBSET Path :
    /\ S # {}
    /\ r \in [S -> Mode]
    /\ \A p \in S : Anc[p] \subseteq S

VARIABLES
  pc,         \* where each caller is
  req,        \* the locks it asked for
  held,       \* the paths it has locked
  entries,    \* the paths that have an Entry
  entry       \* the Entry of each path

vars == <<pc, req, held, entries, entry>>

\* ForPath: the ancestors to read, the path itself in the given mode.
ForPath(p, leaf) ==
  [q \in Anc[p] \cup {p} |-> IF q = p THEN leaf ELSE "read"]

\* Normalize, on the two lists that ForPaths joins: a path that is asked for
\* twice is locked once, to write if either asks so.
Normalize(f, g) ==
  [q \in DOMAIN f \cup DOMAIN g |->
     IF \/ q \in DOMAIN f /\ f[q] = "write"
        \/ q \in DOMAIN g /\ g[q] = "write"
     THEN "write" ELSE "read"]

ForPaths(p, m, q, n) == Normalize(ForPath(p, m), ForPath(q, n))

\* "start": not called yet; "acquire": about to lock the next path; "asleep":
\* waits on the entry of that path; "woken": was notified; "holding": Acquire
\* returned; "release": unlocks one path after the other; "done": released.
PC == {"start", "acquire", "asleep", "woken", "holding", "release", "done"}

Entry == [readers : Int, writer : BOOLEAN, waiting_writers : Int, refs : Int]
NoEntry == [readers |-> 0, writer |-> FALSE, waiting_writers |-> 0, refs |-> 0]

TypeOK ==
  /\ pc \in [Caller -> PC]
  /\ req \in [Caller -> Request]
  /\ held \in [Caller -> SUBSET Path]
  /\ \A c \in Caller : held[c] \subseteq DOMAIN req[c]
  /\ entries \subseteq Path
  /\ entry \in [Path -> Entry]

-----------------------------------------------------------------------------
Before(p, q) == Rank[p] < Rank[q]

\* Mutant of IsNext: the requests are not sorted; the paths to write come first.
IsNext_Unsorted(c, p) ==
  /\ p \in DOMAIN req[c] \ held[c]
  /\ \A q \in DOMAIN req[c] \ held[c] :
       \/ q = p
       \/ req[c][p] = "write" /\ req[c][q] = "read"
       \/ req[c][p] = req[c][q] /\ Before(p, q)

\* The path that Acquire locks next, and the one that Release unlocks next.
IsNext(c, p) ==
  /\ p \in DOMAIN req[c] \ held[c]
  /\ \A q \in DOMAIN req[c] \ held[c] : q = p \/ Before(p, q)

IsLast(c, p) ==
  /\ p \in held[c]
  /\ \A q \in held[c] : q = p \/ Before(q, p)

Sleeps(c, p) == pc[c] = "asleep" /\ IsNext(c, p)
Waits(c, p) == pc[c] \in {"asleep", "woken"} /\ IsNext(c, p)

\* Mutant of Blocked: a writer waits only for another writer.
Blocked_IgnoresReaders(e, mode) ==
  IF mode = "write" THEN e.writer ELSE e.writer \/ e.waiting_writers > 0

\* The condition of LockOne's loops: a writer waits for everyone, a reader
\* for the writer and for the writers that wait.
Blocked(e, mode) ==
  IF mode = "write" THEN e.readers > 0 \/ e.writer
                    ELSE e.writer \/ e.waiting_writers > 0

Granted(e, mode) ==
  IF mode = "write" THEN [e EXCEPT !.writer = TRUE]
                    ELSE [e EXCEPT !.readers = @ + 1]

\* cv.wait counts a waiting writer before it sleeps.
Waiting(e, mode) ==
  IF mode = "write" THEN [e EXCEPT !.waiting_writers = @ + 1] ELSE e

\* The loop of LockOne, from the test of its condition: e is the entry.
TestAndLock(c, p, e) ==
  LET mode == req[c][p] IN
  \/ /\ Blocked(e, mode)
     /\ entry' = [entry EXCEPT ![p] = Waiting(e, mode)]
     /\ pc' = [pc EXCEPT ![c] = "asleep"]
     /\ UNCHANGED held
  \/ /\ ~Blocked(e, mode)
     /\ entry' = [entry EXCEPT ![p] = Granted(e, mode)]
     /\ held' = [held EXCEPT ![c] = @ \cup {p}]
     /\ pc' = [pc EXCEPT ![c] = IF DOMAIN req[c] = held[c] \cup {p}
                                THEN "holding" ELSE "acquire"]

-----------------------------------------------------------------------------
Init ==
  /\ pc = [c \in Caller |-> "start"]
  /\ req \in [Caller -> Request]
  /\ held = [c \in Caller |-> {}]
  /\ entries = {}
  /\ entry = [p \in Path |-> NoEntry]

\* Mutant of Acquire: the path alone is locked, not its ancestors.
Acquire_LeafOnly(c) ==
  /\ pc[c] = "start"
  /\ pc' = [pc EXCEPT ![c] = "acquire"]
  /\ \E p \in DOMAIN req[c] :
       /\ \A q \in DOMAIN req[c] : q = p \/ Before(q, p)
       /\ req' = [req EXCEPT ![c] = [q \in {p} |-> @[q]]]
  /\ UNCHANGED <<held, entries, entry>>

\* A handler calls Acquire.
Acquire(c) ==
  /\ pc[c] = "start"
  /\ pc' = [pc EXCEPT ![c] = "acquire"]
  /\ UNCHANGED <<req, held, entries, entry>>

\* Mutant of LockOne: a caller that has to wait does not count as a reference.
LockOne_NoRefWhileWaiting(c, p) ==
  /\ pc[c] = "acquire"
  /\ IsNext(c, p)
  /\ entries' = entries \cup {p}
  /\ TestAndLock(c, p, IF Blocked(entry[p], req[c][p]) THEN entry[p]
                       ELSE [entry[p] EXCEPT !.refs = @ + 1])
  /\ UNCHANGED req

\* LockOne, up to its return or its first wait; EntryLocked makes the entry.
LockOne(c, p) ==
  /\ pc[c] = "acquire"
  /\ IsNext(c, p)
  /\ entries' = entries \cup {p}
  /\ TestAndLock(c, p, [entry[p] EXCEPT !.refs = @ + 1])
  /\ UNCHANGED req

\* cv.wait returns: a writer no longer counts as waiting, and tests again.
Wake(c, p) ==
  /\ pc[c] = "woken"
  /\ IsNext(c, p)
  /\ TestAndLock(c, p, IF req[c][p] = "write"
                       THEN [entry[p] EXCEPT !.waiting_writers = @ - 1]
                       ELSE entry[p])
  /\ UNCHANGED <<req, entries>>

\* A condition variable may wake a waiter for no reason.
SpuriousWake(c) ==
  /\ pc[c] = "asleep"
  /\ pc' = [pc EXCEPT ![c] = "woken"]
  /\ UNCHANGED <<req, held, entries, entry>>

\* The handler is through and calls Release.
Release(c) ==
  /\ pc[c] = "holding"
  /\ pc' = [pc EXCEPT ![c] = "release"]
  /\ UNCHANGED <<req, held, entries, entry>>

\* Mutant of Notified: only the release of a write lock notifies.
Notified_WriterOnly(c, p) ==
  [d \in Caller |-> IF d = c THEN (IF held[c] = {p} THEN "done" ELSE "release")
                    ELSE IF Sleeps(d, p) /\ req[c][p] = "write" THEN "woken"
                    ELSE pc[d]]

\* Who sleeps on p is notified; c is "done" when it has nothing left.
Notified(c, p) ==
  [d \in Caller |-> IF d = c THEN (IF held[c] = {p} THEN "done" ELSE "release")
                    ELSE IF Sleeps(d, p) /\ p \in entries THEN "woken"
                    ELSE pc[d]]

\* The fields that UnlockOne changes.
Unlocked(e, mode) ==
  LET f == [e EXCEPT !.refs = @ - 1]
  IN  IF mode = "write" THEN [f EXCEPT !.writer = FALSE]
                        ELSE [f EXCEPT !.readers = @ - 1]

\* UnlockOne: notify_all, and the entry goes with its last reference.  A path
\* without an entry would be left alone.
UnlockOne(c, p) ==
  LET e == Unlocked(entry[p], req[c][p]) IN
  /\ pc[c] = "release"
  /\ IsLast(c, p)
  /\ held' = [held EXCEPT ![c] = @ \ {p}]
  /\ entries' = IF e.refs = 0 THEN entries \ {p} ELSE entries
  /\ entry' = IF p \notin entries THEN entry
              ELSE [entry EXCEPT ![p] = IF e.refs = 0 THEN NoEntry ELSE e]
  /\ pc' = Notified(c, p)
  /\ UNCHANGED req

AllDone == (\A c \in Caller : pc[c] = "done") /\ UNCHANGED vars

\* The steps that a caller takes by itself once it has called Acquire.
CallerStep(c) ==
  \/ \E p \in Path : LockOne(c, p) \/ Wake(c, p) \/ UnlockOne(c, p)
  \/ Release(c)

Next ==
  \/ \E c \in Caller : Acquire(c) \/ CallerStep(c) \/ SpuriousWake(c)
  \/ AllDone

Spec == Init /\ [][Next]_vars

\* A thread that can run does run.
FairSpec == Spec /\ \A c \in Caller : WF_vars(CallerStep(c))

-----------------------------------------------------------------------------
(* Properties.                                                             *)

\* Two callers hold the same path only to read it.
MutualExclusion ==
  \A c, d \in Caller : c # d =>
    \A p \in held[c] \cap held[d] : req[c][p] = "read" /\ req[d][p] = "read"

\* What the handlers rely on: while one holds a path to write (Rename and
\* Snapshot lock a whole directory so), no other that has its locks works on
\* that path or anywhere below it.
SubtreeExclusion ==
  \A c, d \in Caller :
    c # d /\ pc[c] = "holding" /\ pc[d] = "holding" =>
      \A p \in DOMAIN req[c], q \in DOMAIN req[d] :
        req[c][p] = "write" => p # q /\ p \notin Anc[q]

\* The table has an entry exactly for the paths that somebody holds or waits
\* for: none is erased under a waiter, and none is left behind.
EntriesExact ==
  \A p \in Path :
    p \in entries <=> \E c \in Caller : p \in held[c] \/ Waits(c, p)

\* Nobody sleeps on a condition that no longer holds: every step that could
\* let a sleeper in notifies it.
NoLostWakeup ==
  \A c \in Caller, p \in Path :
    Sleeps(c, p) => Blocked(entry[p], req[c][p])

\* The callers never all wait for each other, although each keeps the locks
\* it has while it waits, and waiting writers hold readers back.
NoDeadlock ==
  (\E c \in Caller : pc[c] = "asleep") =>
    \E c \in Caller : pc[c] \in {"acquire", "woken", "holding", "release"}

\* Every Acquire returns, provided that those who hold locks release them.
AcquireReturns ==
  \A c \in Caller : (pc[c] = "acquire") ~> (pc[c] = "holding")
=============================================================================
