-------------------------- MODULE LockTableProofs --------------------------
(***************************************************************************)
(* Proofs about LockTable for every set of callers, paths and requests.    *)
(*                                                                         *)
(* The invariant says that an entry's counters are exact: readers is the   *)
(* number of callers that hold the path to read, writer says whether one   *)
(* holds it to write, refs is the number of those that hold it or wait for *)
(* it.  Without the last part the entry could be erased, and its counters  *)
(* forgotten, while somebody still holds the lock.                         *)
(*                                                                         *)
(* Freedom from deadlock needs two more parts: waiting_writers is exact    *)
(* too, so that a reader is not held back by a writer that is gone, and    *)
(* callers lock in the global order, so that whoever holds the path that   *)
(* the last sleeper waits for can go on.                                   *)
(***************************************************************************)
EXTENDS LockTable, FiniteSetTheorems, TLAPS

Readers(p) == {c \in Caller : p \in held[c] /\ req[c][p] = "read"}
Writers(p) == {c \in Caller : p \in held[c] /\ req[c][p] = "write"}
Users(p) == {c \in Caller : p \in held[c] \/ Waits(c, p)}

CountersExact ==
  \A p \in Path :
    /\ entry[p].readers = Cardinality(Readers(p))
    /\ entry[p].writer <=> Writers(p) # {}
    /\ entry[p].refs = Cardinality(Users(p))
    /\ p \in entries <=> Users(p) # {}

Exclusive ==
  \A p \in Path : \A c \in Writers(p) :
    Readers(p) = {} /\ \A d \in Writers(p) : d = c

HeldInv ==
  \A c \in Caller :
    /\ pc[c] = "holding" => held[c] = DOMAIN req[c]
    /\ pc[c] \in {"start", "done"} => held[c] = {}

LockInv == TypeOK /\ CountersExact /\ Exclusive /\ HeldInv

-----------------------------------------------------------------------------
\* A request is a function from some paths to modes.
LEMMA RequestMode ==
  ASSUME NEW r \in Request
  PROVE  /\ DOMAIN r \subseteq Path
         /\ \A p \in DOMAIN r : r[p] \in Mode /\ Anc[p] \subseteq DOMAIN r
BY RequestAssumption

\* What the steps of LockOne and UnlockOne make of an entry is an entry.
LEMMA EntryType ==
  ASSUME NEW e \in Entry, NEW mode
  PROVE  /\ Waiting(e, mode) \in Entry
         /\ Granted(e, mode) \in Entry
         /\ Unlocked(e, mode) \in Entry
         /\ NoEntry \in Entry
         /\ [e EXCEPT !.refs = @ + 1] \in Entry
         /\ [e EXCEPT !.waiting_writers = @ - 1] \in Entry
<1>1. ASSUME NEW f \in Entry
      PROVE  /\ [f EXCEPT !.refs = @ + 1] \in Entry
             /\ [f EXCEPT !.refs = @ - 1] \in Entry
             /\ [f EXCEPT !.waiting_writers = @ - 1] \in Entry
             /\ [f EXCEPT !.waiting_writers = @ + 1] \in Entry
             /\ [f EXCEPT !.readers = @ + 1] \in Entry
             /\ [f EXCEPT !.readers = @ - 1] \in Entry
  BY DEF Entry
<1>2. ASSUME NEW f \in Entry
      PROVE  /\ [f EXCEPT !.writer = TRUE] \in Entry
             /\ [f EXCEPT !.writer = FALSE] \in Entry
  BY DEF Entry
<1>3. NoEntry \in Entry
  BY DEF Entry, NoEntry
<1> QED BY <1>1, <1>2, <1>3 DEF Waiting, Granted, Unlocked

\* There is one path that a caller locks next.
LEMMA UniqueNext ==
  ASSUME TypeOK, NEW c \in Caller, NEW p, NEW q, IsNext(c, p), IsNext(c, q)
  PROVE  p = q
<1>1. p \in Path /\ q \in Path
  BY RequestMode DEF IsNext, TypeOK
<1>2. Rank[p] \in Int /\ Rank[q] \in Int
  BY <1>1, LockTableAssumption
<1>3. q = p \/ (Rank[p] < Rank[q] /\ Rank[q] < Rank[p])
  BY DEF IsNext, Before
<1> QED BY <1>2, <1>3

\* Every step keeps every variable in its type.
LEMMA TypeStep == TypeOK /\ [Next]_vars => TypeOK'
<1> SUFFICES ASSUME TypeOK, [Next]_vars PROVE TypeOK'
  OBVIOUS
<1>0. ASSUME NEW c \in Caller, NEW p \in Path, NEW e, IsNext(c, p),
             e \in Entry,
             TestAndLock(c, p, e), req' = req, entries' \subseteq Path
      PROVE  TypeOK'
  <2>1. CASE /\ entry' = [entry EXCEPT ![p] = Waiting(e, req[c][p])]
             /\ pc' = [pc EXCEPT ![c] = "asleep"] /\ held' = held
    <3>1. Waiting(e, req[c][p]) \in Entry
      BY <1>0, EntryType
    <3> QED BY <1>0, <2>1, <3>1 DEF TypeOK, PC
  <2>2. CASE /\ entry' = [entry EXCEPT ![p] = Granted(e, req[c][p])]
             /\ held' = [held EXCEPT ![c] = @ \cup {p}]
             /\ pc' = [pc EXCEPT ![c] = IF DOMAIN req[c] = held[c] \cup {p}
                                        THEN "holding" ELSE "acquire"]
    <3>1. Granted(e, req[c][p]) \in Entry
      BY <1>0, EntryType
    <3>2. held' \in [Caller -> SUBSET Path]
      BY <2>2 DEF TypeOK
    <3>3. \A d \in Caller : held'[d] \subseteq DOMAIN req'[d]
      BY <1>0, <2>2 DEF TypeOK, IsNext
    <3>4. pc' \in [Caller -> PC]
      BY <2>2 DEF TypeOK, PC
    <3> QED BY <1>0, <2>2, <3>1, <3>2, <3>3, <3>4 DEF TypeOK
  <2> QED BY <1>0, <2>1, <2>2 DEF TestAndLock
<1>1. ASSUME NEW c \in Caller, Acquire(c) PROVE TypeOK'
  BY <1>1 DEF TypeOK, Acquire, PC
<1>2. ASSUME NEW c \in Caller, NEW p \in Path, LockOne(c, p) PROVE TypeOK'
  <2>1. [entry[p] EXCEPT !.refs = @ + 1] \in Entry
    BY EntryType DEF TypeOK
  <2> QED BY <1>0, <1>2, <2>1 DEF LockOne, TypeOK
<1>3. ASSUME NEW c \in Caller, NEW p \in Path, Wake(c, p) PROVE TypeOK'
  <2>1. /\ entry[p] \in Entry
        /\ [entry[p] EXCEPT !.waiting_writers = @ - 1] \in Entry
    BY EntryType DEF TypeOK
  <2> QED BY <1>0, <1>3, <2>1 DEF Wake, TypeOK
<1>4. ASSUME NEW c \in Caller, SpuriousWake(c) PROVE TypeOK'
  BY <1>4 DEF TypeOK, SpuriousWake, PC
<1>5. ASSUME NEW c \in Caller, Release(c) PROVE TypeOK'
  BY <1>5 DEF TypeOK, Release, PC
<1>6. ASSUME NEW c \in Caller, NEW p \in Path, UnlockOne(c, p) PROVE TypeOK'
  <2>1. Unlocked(entry[p], req[c][p]) \in Entry
    BY EntryType DEF TypeOK
  <2>2. entry' \in [Path -> Entry]
    BY <1>6, <2>1, EntryType DEF UnlockOne, TypeOK
  <2>3. pc' \in [Caller -> PC]
    BY <1>6 DEF UnlockOne, Notified, TypeOK, PC
  <2>4. /\ req' = req /\ entries' \subseteq entries
        /\ held' = [held EXCEPT ![c] = @ \ {p}]
    BY <1>6 DEF UnlockOne
  <2> QED BY <2>2, <2>3, <2>4 DEF TypeOK
<1>7. CASE UNCHANGED vars
  BY <1>7 DEF TypeOK, vars
<1> QED
  BY <1>1, <1>2, <1>3, <1>4, <1>5, <1>6, <1>7 DEF Next, CallerStep, AllDone

-----------------------------------------------------------------------------
\* Counting callers: one more, one less, none.
LEMMA Counting ==
  ASSUME NEW S \in SUBSET Caller, NEW c
  PROVE  /\ Cardinality(S) \in Nat
         /\ Cardinality(S) = 0 <=> S = {}
         /\ c \notin S => Cardinality(S \cup {c}) = Cardinality(S) + 1
         /\ c \in S => Cardinality(S \ {c}) = Cardinality(S) - 1
<1>1. IsFiniteSet(S)
  BY LockTableAssumption, FS_Subset
<1> QED BY <1>1, FS_CardinalityType, FS_EmptySet, FS_AddElement, FS_RemoveElement

\* The fields of an entry after each of the changes.
LEMMA EntryFields ==
  ASSUME NEW e \in Entry, NEW mode
  PROVE  /\ Waiting(e, mode).readers = e.readers
         /\ Waiting(e, mode).writer <=> e.writer
         /\ Waiting(e, mode).refs = e.refs
         /\ mode = "write" => /\ Granted(e, mode).readers = e.readers
                              /\ Granted(e, mode).writer
         /\ mode # "write" => /\ Granted(e, mode).readers = e.readers + 1
                              /\ Granted(e, mode).writer <=> e.writer
         /\ Granted(e, mode).refs = e.refs
         /\ mode = "write" => /\ Unlocked(e, mode).readers = e.readers
                              /\ ~Unlocked(e, mode).writer
         /\ mode # "write" => /\ Unlocked(e, mode).readers = e.readers - 1
                              /\ Unlocked(e, mode).writer <=> e.writer
         /\ Unlocked(e, mode).refs = e.refs - 1
<1>1. /\ Waiting(e, mode).readers = e.readers
      /\ Waiting(e, mode).writer <=> e.writer
      /\ Waiting(e, mode).refs = e.refs
  BY DEF Waiting, Entry
<1>2. /\ mode = "write" => /\ Granted(e, mode).readers = e.readers
                           /\ Granted(e, mode).writer
      /\ mode # "write" => /\ Granted(e, mode).readers = e.readers + 1
                           /\ Granted(e, mode).writer <=> e.writer
      /\ Granted(e, mode).refs = e.refs
  BY DEF Granted, Entry
<1>3. /\ mode = "write" => /\ Unlocked(e, mode).readers = e.readers
                           /\ ~Unlocked(e, mode).writer
      /\ mode # "write" => /\ Unlocked(e, mode).readers = e.readers - 1
                           /\ Unlocked(e, mode).writer <=> e.writer
      /\ Unlocked(e, mode).refs = e.refs - 1
  BY DEF Unlocked, Entry
<1> QED BY <1>1, <1>2, <1>3

\* A step of c does not change what another caller waits for.
LEMMA OthersWait ==
  ASSUME NEW c, req' = req,
         \A d \in Caller \ {c} :
           /\ held'[d] = held[d]
           /\ pc'[d] \in {"asleep", "woken"} <=> pc[d] \in {"asleep", "woken"}
  PROVE  \A d \in Caller \ {c} : \A q : Waits(d, q)' <=> Waits(d, q)
BY DEF Waits, IsNext

\* One path's part of CountersExact and Exclusive.
PathInv(q) ==
  /\ entry[q].readers = Cardinality(Readers(q))
  /\ entry[q].writer <=> Writers(q) # {}
  /\ entry[q].refs = Cardinality(Users(q))
  /\ q \in entries <=> Users(q) # {}
  /\ \A c \in Writers(q) : Readers(q) = {} /\ \A d \in Writers(q) : d = c

\* The two parts of the invariant, path by path.
LEMMA PathInvSuffices ==
  (CountersExact /\ Exclusive) <=> \A q \in Path : PathInv(q)
BY DEF CountersExact, Exclusive, PathInv

\* A path whose entry and users stay the same.
LEMMA PathFrame ==
  ASSUME NEW q, PathInv(q), entry'[q] = entry[q], Readers(q)' = Readers(q),
         Writers(q)' = Writers(q), Users(q)' = Users(q), q \in entries' <=> q \in entries
  PROVE  PathInv(q)'
BY DEF PathInv

\* Once c is counted in, LockOne's test and lock keep the counters exact.
LEMMA TestAndLockStep ==
  ASSUME LockInv, TypeOK', NEW c \in Caller, NEW p \in Path, NEW e \in Entry,
         IsNext(c, p), TestAndLock(c, p, e), req' = req,
         pc[c] \in {"acquire", "woken"}, entries' = entries \cup {p},
         e.readers = entry[p].readers, e.writer <=> entry[p].writer,
         e.refs = Cardinality(Users(p) \cup {c})
  PROVE  CountersExact' /\ Exclusive' /\ HeldInv'
<1>1. /\ req[c] \in Request /\ p \in DOMAIN req[c] /\ p \notin held[c]
      /\ req[c][p] \in Mode
  BY RequestMode DEF LockInv, TypeOK, IsNext
<1>2. \A d \in Caller \ {c} : held'[d] = held[d] /\ pc'[d] = pc[d]
  BY DEF TestAndLock, LockInv, TypeOK
<1>3. \A d \in Caller \ {c} : \A q : Waits(d, q)' <=> Waits(d, q)
  BY <1>2, OthersWait
<1>4. \A q \in Path : q # p => entry'[q] = entry[q]
  BY DEF TestAndLock, LockInv, TypeOK
<1>5. \A q : Waits(c, q) => q = p
  BY UniqueNext DEF Waits, LockInv
<1>6. \A q \in Path : PathInv(q)
  BY PathInvSuffices DEF LockInv
<1>7. CASE /\ Blocked(e, req[c][p])
           /\ entry' = [entry EXCEPT ![p] = Waiting(e, req[c][p])]
           /\ pc' = [pc EXCEPT ![c] = "asleep"]
           /\ held' = held
  <2>1. pc'[c] = "asleep" /\ \A q : IsNext(c, q)' <=> IsNext(c, q)
    BY <1>7 DEF IsNext, LockInv, TypeOK
  <2>2. \A q : Waits(c, q)' <=> q = p
    BY <2>1, UniqueNext DEF Waits, LockInv
  <2>3. \A q : Readers(q)' = Readers(q) /\ Writers(q)' = Writers(q)
    BY <1>7 DEF Readers, Writers
  <2>4. Users(p)' = Users(p) \cup {c}
    BY <1>3, <1>7, <2>2 DEF Users
  <2>5. \A q \in Path : q # p => Users(q)' = Users(q)
    BY <1>3, <1>5, <1>7, <2>2 DEF Users
  <2>6. entry'[p] = Waiting(e, req[c][p])
    BY <1>7 DEF LockInv, TypeOK
  <2>7. PathInv(p)'
    BY <1>6, <2>3, <2>4, <2>6, EntryFields DEF PathInv
  <2>8. \A q \in Path : q # p => PathInv(q)'
    BY <1>4, <1>6, <2>3, <2>5, PathFrame
  <2>9. HeldInv'
    BY <1>2, <1>7, <2>1 DEF HeldInv, LockInv
  <2>10. \A q \in Path : PathInv(q)'
    BY <2>7, <2>8
  <2> QED BY <2>9, <2>10 DEF CountersExact, Exclusive, PathInv
<1>8. CASE /\ ~Blocked(e, req[c][p])
           /\ entry' = [entry EXCEPT ![p] = Granted(e, req[c][p])]
           /\ held' = [held EXCEPT ![c] = @ \cup {p}]
           /\ pc' = [pc EXCEPT ![c] = IF DOMAIN req[c] = held[c] \cup {p}
                                      THEN "holding" ELSE "acquire"]
  <2>1. /\ held'[c] = held[c] \cup {p} /\ pc'[c] \in {"holding", "acquire"}
        /\ pc'[c] = "holding" => DOMAIN req[c] = held'[c]
        /\ entry'[p] = Granted(e, req[c][p])
    BY <1>8 DEF LockInv, TypeOK
  <2>2. \A q : ~Waits(c, q)'
    BY <2>1 DEF Waits
  <2>3. Users(p)' = Users(p) \cup {c}
    BY <1>2, <1>3, <2>1, <2>2 DEF Users
  <2>4. \A q \in Path : q # p => Users(q)' = Users(q)
    BY <1>2, <1>3, <1>5, <2>1, <2>2 DEF Users
  <2>5. \A q \in Path : q # p => Readers(q)' = Readers(q) /\ Writers(q)' = Writers(q)
    BY <1>2, <2>1 DEF Readers, Writers
  <2>6. \A q \in Path : q # p => PathInv(q)'
    BY <1>4, <1>6, <2>4, <2>5, PathFrame
  <2>7. HeldInv'
    BY <1>2, <2>1 DEF HeldInv, LockInv
  <2>8. CASE req[c][p] = "write"
    <3>1. /\ Writers(p)' = Writers(p) \cup {c} /\ Readers(p)' = Readers(p)
      BY <1>1, <1>2, <2>1, <2>8 DEF Readers, Writers
    <3>2. ~(e.readers > 0) /\ ~e.writer
      BY <1>8, <2>8 DEF Blocked
    <3>3. Writers(p) = {}
      BY <1>6, <3>2 DEF PathInv
    <3>4. Readers(p) = {}
      <4>1. entry[p].readers = Cardinality(Readers(p)) /\ Readers(p) \in SUBSET Caller
        BY <1>6 DEF PathInv, Readers
      <4>2. Cardinality(Readers(p)) \in Nat
        BY <4>1, Counting
      <4>3. Cardinality(Readers(p)) = 0
        BY <3>2, <4>1, <4>2
      <4> QED BY <4>1, <4>3, Counting
    <3>5. /\ entry'[p].readers = entry[p].readers /\ entry'[p].writer
          /\ entry'[p].refs = e.refs
      BY <2>1, <2>8, EntryFields
    <3>6. PathInv(p)'
      BY <1>6, <2>3, <3>1, <3>3, <3>4, <3>5 DEF PathInv
    <3>7. \A q \in Path : PathInv(q)'
      BY <2>6, <3>6
    <3> QED BY <2>7, <3>7 DEF CountersExact, Exclusive, PathInv
  <2>9. CASE req[c][p] = "read"
    <3>1. /\ Readers(p)' = Readers(p) \cup {c} /\ Writers(p)' = Writers(p)
          /\ c \notin Readers(p) /\ Readers(p) \in SUBSET Caller
      BY <1>1, <1>2, <2>1, <2>9 DEF Readers, Writers
    <3>2. ~e.writer
      BY <1>8, <2>9 DEF Blocked
    <3>3. Writers(p) = {}
      BY <1>6, <3>2 DEF PathInv
    <3>4. /\ entry'[p].readers = entry[p].readers + 1 /\ ~entry'[p].writer
          /\ entry'[p].refs = e.refs
      BY <2>1, <2>9, <3>2, EntryFields
    <3>5. Cardinality(Readers(p)') = Cardinality(Readers(p)) + 1
      BY <3>1, Counting
    <3>6. PathInv(p)'
      BY <1>6, <2>3, <3>1, <3>3, <3>4, <3>5 DEF PathInv
    <3>7. \A q \in Path : PathInv(q)'
      BY <2>6, <3>6
    <3> QED BY <2>7, <3>7 DEF CountersExact, Exclusive, PathInv
  <2> QED BY <1>1, <2>8, <2>9 DEF Mode
<1> QED BY <1>7, <1>8 DEF TestAndLock

\* A step that only moves c, and not into or out of waiting, keeps the counters.
LEMMA MoveStep ==
  ASSUME LockInv, NEW c \in Caller, NEW to, pc' = [pc EXCEPT ![c] = to],
         to \in {"asleep", "woken"} <=> pc[c] \in {"asleep", "woken"},
         UNCHANGED <<req, held, entries, entry>>
  PROVE  CountersExact' /\ Exclusive'
<1>1. \A d \in Caller : pc'[d] \in {"asleep", "woken"} <=> pc[d] \in {"asleep", "woken"}
  BY DEF LockInv, TypeOK
<1>2. \A d \in Caller : \A q : Waits(d, q)' <=> Waits(d, q)
  BY <1>1 DEF Waits, IsNext
<1>3. \A q : /\ Users(q)' = Users(q) /\ Readers(q)' = Readers(q)
             /\ Writers(q)' = Writers(q)
  BY <1>2 DEF Users, Readers, Writers
<1>4. \A q \in Path : PathInv(q)
  BY PathInvSuffices DEF LockInv
<1>5. \A q \in Path : PathInv(q)'
  BY <1>3, <1>4, PathFrame
<1> QED BY <1>5 DEF CountersExact, Exclusive, PathInv

\* UnlockOne takes the caller out of the counters, and erases the entry of a
\* path only when nobody uses the path any more.
LEMMA UnlockStep ==
  ASSUME LockInv, TypeOK', NEW c \in Caller, NEW p \in Path, UnlockOne(c, p)
  PROVE  CountersExact' /\ Exclusive' /\ HeldInv'
<1> DEFINE e == Unlocked(entry[p], req[c][p])
<1>1. /\ pc[c] = "release" /\ p \in held[c] /\ req' = req
      /\ req[c] \in Request /\ p \in DOMAIN req[c] /\ req[c][p] \in Mode
      /\ entry[p] \in Entry
  BY RequestMode DEF LockInv, TypeOK, UnlockOne, IsLast
<1>2. /\ held'[c] = held[c] \ {p} /\ pc'[c] = IF held[c] = {p} THEN "done" ELSE "release"
      /\ \A d \in Caller \ {c} :
           /\ held'[d] = held[d]
           /\ pc'[d] = pc[d] \/ (pc[d] = "asleep" /\ pc'[d] = "woken")
  BY DEF UnlockOne, Notified, Sleeps, LockInv, TypeOK
<1>3. \A d \in Caller \ {c} : \A q : Waits(d, q)' <=> Waits(d, q)
  BY <1>1, <1>2, OthersWait
<1>4. \A q : ~Waits(c, q) /\ ~Waits(c, q)'
  BY <1>1, <1>2 DEF Waits
<1>5. \A q \in Path : PathInv(q)
  BY PathInvSuffices DEF LockInv
<1>6. c \in Users(p) /\ p \in entries
  BY <1>1, <1>5 DEF Users, PathInv
<1>7. /\ Users(p)' = Users(p) \ {c}
      /\ \A q \in Path : q # p => Users(q)' = Users(q)
  BY <1>2, <1>3, <1>4 DEF Users
<1>8. \A q \in Path : q # p => Readers(q)' = Readers(q) /\ Writers(q)' = Writers(q)
  BY <1>1, <1>2 DEF Readers, Writers
<1>9. \A q \in Path : q # p =>
        entry'[q] = entry[q] /\ (q \in entries' <=> q \in entries)
  BY DEF UnlockOne, LockInv, TypeOK
<1>10. \A q \in Path : q # p => PathInv(q)'
  BY <1>5, <1>7, <1>8, <1>9, PathFrame
<1>11. /\ e.refs = entry[p].refs - 1
       /\ req[c][p] = "write" => e.readers = entry[p].readers /\ ~e.writer
       /\ req[c][p] # "write" => /\ e.readers = entry[p].readers - 1
                                 /\ e.writer <=> entry[p].writer
  BY <1>1, EntryFields
<1>12. Cardinality(Users(p)') = e.refs
  <2>1. Users(p) \in SUBSET Caller /\ entry[p].refs = Cardinality(Users(p))
    BY <1>5 DEF Users, PathInv
  <2> QED BY <1>6, <1>7, <1>11, <2>1, Counting
<1>13. Users(p)' = {} <=> e.refs = 0
  <2>1. Users(p)' \in SUBSET Caller
    BY <1>7 DEF Users
  <2> QED BY <1>12, <2>1, Counting
<1>14. /\ entry'[p] = IF e.refs = 0 THEN NoEntry ELSE e
       /\ p \in entries' <=> e.refs # 0
  BY <1>6 DEF UnlockOne, LockInv, TypeOK
<1>15. /\ e.readers = Cardinality(Readers(p)')
       /\ e.writer <=> Writers(p)' # {}
       /\ \A d \in Writers(p)' : Readers(p)' = {} /\ \A f \in Writers(p)' : f = d
  <2>1. /\ Readers(p) \in SUBSET Caller
        /\ entry[p].readers = Cardinality(Readers(p))
        /\ entry[p].writer <=> Writers(p) # {}
        /\ \A d \in Writers(p) : Readers(p) = {} /\ \A f \in Writers(p) : f = d
    BY <1>5 DEF PathInv, Readers
  <2>2. CASE req[c][p] = "write"
    <3>1. /\ Writers(p)' = Writers(p) \ {c} /\ Readers(p)' = Readers(p)
          /\ c \in Writers(p)
      BY <1>1, <1>2, <2>2 DEF Readers, Writers
    <3>2. Writers(p)' = {}
      BY <2>1, <3>1
    <3> QED BY <1>11, <2>1, <2>2, <3>1, <3>2
  <2>3. CASE req[c][p] = "read"
    <3>1. /\ Readers(p)' = Readers(p) \ {c} /\ Writers(p)' = Writers(p)
          /\ c \in Readers(p)
      BY <1>1, <1>2, <2>3 DEF Readers, Writers
    <3>2. Writers(p) = {}
      BY <2>1, <3>1
    <3>3. Cardinality(Readers(p)') = entry[p].readers - 1
      BY <2>1, <3>1, Counting
    <3> QED BY <1>11, <2>1, <2>3, <3>1, <3>2, <3>3
  <2> QED BY <1>1, <2>2, <2>3 DEF Mode
<1>16. PathInv(p)'
  <2>1. CASE e.refs # 0
    <3>1. entry'[p] = e
      BY <1>14, <2>1
    <3> QED BY <1>12, <1>13, <1>14, <1>15, <2>1, <3>1 DEF PathInv
  <2>2. CASE e.refs = 0
    <3>1. entry'[p] = NoEntry /\ Users(p)' = {}
      BY <1>13, <1>14, <2>2
    <3>2. Readers(p)' = {} /\ Writers(p)' = {}
      BY <3>1 DEF Users, Readers, Writers
    <3>3. Cardinality({}) = 0
      BY FS_EmptySet
    <3> QED BY <1>14, <2>2, <3>1, <3>2, <3>3 DEF PathInv, NoEntry
  <2> QED BY <2>1, <2>2
<1>17. \A q \in Path : PathInv(q)'
  BY <1>10, <1>16
<1>18. HeldInv'
  <2>1. \A d \in Caller \ {c} :
           /\ pc'[d] = "holding" => held'[d] = DOMAIN req'[d]
           /\ pc'[d] \in {"start", "done"} => held'[d] = {}
    BY <1>1, <1>2 DEF HeldInv, LockInv
  <2>2. /\ pc'[c] # "holding" /\ pc'[c] # "start"
        /\ pc'[c] = "done" => held'[c] = {}
    BY <1>2
  <2> QED BY <2>1, <2>2 DEF HeldInv
<1> QED BY <1>17, <1>18 DEF CountersExact, Exclusive, PathInv

-----------------------------------------------------------------------------
\* Every step of every caller keeps the invariant.
LEMMA LockStep == LockInv /\ [Next]_vars => LockInv'
<1> SUFFICES ASSUME LockInv, [Next]_vars PROVE LockInv'
  OBVIOUS
<1>0. TypeOK /\ TypeOK'
  BY TypeStep DEF LockInv
<1>1. ASSUME NEW c \in Caller, Acquire(c) PROVE LockInv'
  <2>1. CountersExact' /\ Exclusive'
    BY <1>1, MoveStep DEF Acquire
  <2>2. HeldInv'
    BY <1>0, <1>1 DEF Acquire, HeldInv, LockInv, TypeOK
  <2> QED BY <1>0, <2>1, <2>2 DEF LockInv
<1>2. ASSUME NEW c \in Caller, NEW p \in Path, LockOne(c, p) PROVE LockInv'
  <2>1. /\ pc[c] = "acquire" /\ IsNext(c, p) /\ req' = req
        /\ entries' = entries \cup {p}
        /\ TestAndLock(c, p, [entry[p] EXCEPT !.refs = @ + 1])
    BY <1>2 DEF LockOne
  <2>2. c \notin Users(p) /\ Users(p) \in SUBSET Caller
    BY <2>1 DEF Users, Waits, IsNext
  <2>3. Cardinality(Users(p) \cup {c}) = entry[p].refs + 1
    BY <2>2, Counting DEF LockInv, CountersExact
  <2>4. entry[p] \in Entry /\ [entry[p] EXCEPT !.refs = @ + 1] \in Entry
    BY <1>0, EntryType DEF TypeOK
  <2>5. /\ [entry[p] EXCEPT !.refs = @ + 1].refs = entry[p].refs + 1
        /\ [entry[p] EXCEPT !.refs = @ + 1].readers = entry[p].readers
        /\ [entry[p] EXCEPT !.refs = @ + 1].writer <=> entry[p].writer
    BY <2>4 DEF Entry
  <2>6. CountersExact' /\ Exclusive' /\ HeldInv'
    BY <1>0, <2>1, <2>3, <2>4, <2>5, TestAndLockStep
  <2> QED BY <1>0, <2>6 DEF LockInv
<1>3. ASSUME NEW c \in Caller, NEW p \in Path, Wake(c, p) PROVE LockInv'
  <2> DEFINE e == IF req[c][p] = "write"
                  THEN [entry[p] EXCEPT !.waiting_writers = @ - 1]
                  ELSE entry[p]
  <2>1. /\ pc[c] = "woken" /\ IsNext(c, p) /\ req' = req
        /\ entries' = entries /\ TestAndLock(c, p, e)
    BY <1>3 DEF Wake
  <2>2. c \in Users(p) /\ Users(p) \cup {c} = Users(p)
    BY <2>1 DEF Users, Waits
  <2>3. /\ entry[p].refs = Cardinality(Users(p) \cup {c})
        /\ entries' = entries \cup {p}
    BY <2>1, <2>2 DEF LockInv, CountersExact
  <2>4. entry[p] \in Entry /\ e \in Entry
    BY <1>0, EntryType DEF TypeOK
  <2>5. /\ e.refs = entry[p].refs /\ e.readers = entry[p].readers
        /\ e.writer <=> entry[p].writer
    BY <2>4 DEF Entry
  <2> HIDE DEF e
  <2>6. CountersExact' /\ Exclusive' /\ HeldInv'
    BY <1>0, <2>1, <2>3, <2>4, <2>5, TestAndLockStep
  <2> QED BY <1>0, <2>6 DEF LockInv
<1>4. ASSUME NEW c \in Caller, SpuriousWake(c) PROVE LockInv'
  <2>1. CountersExact' /\ Exclusive'
    BY <1>4, MoveStep DEF SpuriousWake
  <2>2. HeldInv'
    BY <1>0, <1>4 DEF SpuriousWake, HeldInv, LockInv, TypeOK
  <2> QED BY <1>0, <2>1, <2>2 DEF LockInv
<1>5. ASSUME NEW c \in Caller, Release(c) PROVE LockInv'
  <2>1. CountersExact' /\ Exclusive'
    BY <1>5, MoveStep DEF Release
  <2>2. HeldInv'
    BY <1>0, <1>5 DEF Release, HeldInv, LockInv, TypeOK
  <2> QED BY <1>0, <2>1, <2>2 DEF LockInv
<1>6. ASSUME NEW c \in Caller, NEW p \in Path, UnlockOne(c, p) PROVE LockInv'
  BY <1>0, <1>6, UnlockStep DEF LockInv
<1>7. CASE UNCHANGED vars
  <2>1. CountersExact'
    BY <1>7 DEF LockInv, CountersExact, Readers, Writers, Users, Waits, IsNext, vars
  <2>2. Exclusive' /\ HeldInv'
    BY <1>7 DEF LockInv, Exclusive, HeldInv, Readers, Writers, vars
  <2> QED BY <1>0, <2>1, <2>2 DEF LockInv
<1> QED
  BY <1>1, <1>2, <1>3, <1>4, <1>5, <1>6, <1>7 DEF Next, CallerStep, AllDone

\* Before the first request every counter is zero and nobody uses a path.
LEMMA LockInit == Init => LockInv
<1> SUFFICES ASSUME Init PROVE LockInv
  OBVIOUS
<1>1. TypeOK
  BY DEF Init, TypeOK, PC, Entry, NoEntry
<1>2. \A q : Readers(q) = {} /\ Writers(q) = {} /\ Users(q) = {}
  BY DEF Init, Readers, Writers, Users, Waits
<1>3. CountersExact
  BY <1>2, FS_EmptySet DEF Init, CountersExact, NoEntry
<1>4. Exclusive /\ HeldInv
  BY <1>2 DEF Init, Exclusive, HeldInv
<1> QED BY <1>1, <1>3, <1>4 DEF LockInv

-----------------------------------------------------------------------------
\* Every reachable state is well typed.
THEOREM TypeCorrect == Spec => []TypeOK
<1>1. Init => TypeOK
  BY LockInit DEF LockInv
<1> QED BY <1>1, TypeStep, PTL DEF Spec

\* The counters of the entries are exact in every reachable state.
THEOREM Invariant == Spec => []LockInv
BY LockInit, LockStep, PTL DEF Spec

\* No path is ever held by a writer and anybody else at the same time.
THEOREM Exclusion == Spec => []MutualExclusion
<1>1. LockInv => MutualExclusion
  <2> SUFFICES ASSUME LockInv, NEW c \in Caller, NEW d \in Caller, c # d,
                      NEW p \in held[c] \cap held[d]
               PROVE  req[c][p] = "read" /\ req[d][p] = "read"
    BY DEF MutualExclusion
  <2>1. p \in Path /\ req[c][p] \in Mode /\ req[d][p] \in Mode
    <3>1. req[c] \in Request /\ req[d] \in Request
          /\ p \in DOMAIN req[c] /\ p \in DOMAIN req[d]
      BY DEF LockInv, TypeOK
    <3> QED BY <3>1, RequestMode
  <2>2. \/ c \in Readers(p) \/ c \in Writers(p)
    BY <2>1 DEF Mode, Readers, Writers
  <2>3. \/ d \in Readers(p) \/ d \in Writers(p)
    BY <2>1 DEF Mode, Readers, Writers
  <2>4. c \notin Writers(p) /\ d \notin Writers(p)
    BY <2>1, <2>2, <2>3 DEF LockInv, Exclusive
  <2> QED BY <2>2, <2>3, <2>4 DEF Readers
<1> QED BY <1>1, Invariant, PTL

\* A handler that writes a path has the subtree below it to itself: every other
\* one that works below holds the path too, to read it.
THEOREM SubtreeIsolation == Spec => []SubtreeExclusion
<1>1. LockInv => SubtreeExclusion
  <2> SUFFICES ASSUME LockInv, NEW c \in Caller, NEW d \in Caller, c # d,
                      pc[c] = "holding", pc[d] = "holding",
                      NEW p \in DOMAIN req[c], NEW q \in DOMAIN req[d],
                      req[c][p] = "write", p = q \/ p \in Anc[q]
               PROVE  FALSE
    BY DEF SubtreeExclusion
  <2>1. req[c] \in Request /\ req[d] \in Request
    BY DEF LockInv, TypeOK
  <2>2. p \in Path /\ p \in DOMAIN req[d] /\ req[d][p] \in Mode
    BY <2>1, RequestMode
  <2>3. p \in held[c] /\ p \in held[d]
    BY <2>2 DEF LockInv, HeldInv
  <2>4. c \in Writers(p) /\ (d \in Readers(p) \/ d \in Writers(p))
    BY <2>2, <2>3 DEF Writers, Readers, Mode
  <2> QED BY <2>2, <2>4 DEF LockInv, Exclusive
<1> QED BY <1>1, Invariant, PTL

\* An entry lives exactly as long as somebody holds its path or waits for it.
THEOREM EntryLifetime == Spec => []EntriesExact
<1>1. LockInv => EntriesExact
  BY DEF LockInv, CountersExact, EntriesExact, Users
<1> QED BY <1>1, Invariant, PTL

-----------------------------------------------------------------------------
\* What the changes of an entry do to the condition that a sleeper tests: all
\* but the return of cv.wait in a waiting writer and UnlockOne keep it true.
LEMMA BlockedStays ==
  ASSUME NEW e \in Entry, NEW m
  PROVE  /\ Blocked(e, m) => Blocked(Waiting(e, m), m)
         /\ \A n : Blocked(e, n) => Blocked(Waiting(e, m), n)
         /\ \A n : Blocked(e, n) => Blocked(Granted(e, m), n)
         /\ \A n : Blocked([e EXCEPT !.refs = @ + 1], n) <=> Blocked(e, n)
         /\ m = "write" => \A n :
              LET f == [e EXCEPT !.waiting_writers = @ - 1] IN
              Blocked(e, n) => Blocked(Waiting(f, m), n) /\ Blocked(Granted(f, m), n)
<1>1. /\ \A n : Blocked(e, n) => Blocked(Waiting(e, m), n)
      /\ \A n : Blocked(e, n) => Blocked(Granted(e, m), n)
  BY DEF Blocked, Waiting, Granted, Entry
<1>2. \A n : Blocked([e EXCEPT !.refs = @ + 1], n) <=> Blocked(e, n)
  BY DEF Blocked, Entry
<1>3. ASSUME m = "write", NEW n, Blocked(e, n),
             NEW f, f = [e EXCEPT !.waiting_writers = @ - 1]
      PROVE  Blocked(Waiting(f, m), n) /\ Blocked(Granted(f, m), n)
  <2>1. /\ f \in Entry /\ f.readers = e.readers /\ f.writer = e.writer
        /\ f.waiting_writers = e.waiting_writers - 1
    BY <1>3 DEF Entry
  <2>2. /\ Waiting(f, m).readers = e.readers /\ Waiting(f, m).writer = e.writer
        /\ Waiting(f, m).waiting_writers = e.waiting_writers
    BY <1>3, <2>1 DEF Waiting, Entry
  <2>3. Granted(f, m).writer
    BY <1>3, <2>1 DEF Granted, Entry
  <2> QED BY <1>3, <2>2, <2>3 DEF Blocked
<1> QED BY <1>1, <1>2, <1>3

\* A step keeps every sleeper's condition true or notifies the sleeper.
LEMMA WakeupStep == LockInv /\ NoLostWakeup /\ [Next]_vars => NoLostWakeup'
<1> SUFFICES ASSUME LockInv, NoLostWakeup, [Next]_vars,
                    NEW d \in Caller, NEW q \in Path, Sleeps(d, q)'
             PROVE  Blocked(entry[q], req[d][q])'
  BY DEF NoLostWakeup
<1>0. TypeOK /\ entry[q] \in Entry
  BY DEF LockInv, TypeOK
<1>1. ASSUME Sleeps(d, q), entry'[q] = entry[q], req' = req
      PROVE  Blocked(entry[q], req[d][q])'
  BY <1>1 DEF NoLostWakeup
<1>2. ASSUME NEW c \in Caller, NEW p \in Path, NEW e \in Entry,
             IsNext(c, p), TestAndLock(c, p, e), req' = req,
             \A n : Blocked(entry[p], n) => /\ Blocked(Waiting(e, req[c][p]), n)
                                            /\ Blocked(Granted(e, req[c][p]), n)
      PROVE  Blocked(entry[q], req[d][q])'
  <2>1. CASE d # c
    <3>1. Sleeps(d, q)
      BY <1>0, <1>2, <2>1 DEF Sleeps, IsNext, TestAndLock, TypeOK
    <3>2. Blocked(entry[q], req[d][q])
      BY <3>1 DEF NoLostWakeup
    <3>3. CASE q # p
      BY <1>0, <1>1, <1>2, <3>1, <3>3 DEF TestAndLock, TypeOK
    <3>4. CASE q = p
      <4>1. \/ entry'[q] = Waiting(e, req[c][p]) \/ entry'[q] = Granted(e, req[c][p])
        BY <1>0, <1>2, <3>4 DEF TestAndLock, TypeOK
      <4> QED BY <1>2, <3>2, <3>4, <4>1
    <3> QED BY <3>3, <3>4
  <2>2. CASE d = c
    <3>1. /\ Blocked(e, req[c][p]) /\ held' = held
          /\ entry'[p] = Waiting(e, req[c][p])
      BY <1>0, <1>2, <2>2 DEF Sleeps, TestAndLock, TypeOK
    <3>2. IsNext(c, q)
      BY <1>2, <2>2, <3>1 DEF Sleeps, IsNext
    <3>3. q = p
      BY <1>0, <1>2, <3>2, UniqueNext
    <3>4. Blocked(Waiting(e, req[c][p]), req[c][p])
      BY <1>2, <3>1, BlockedStays
    <3> QED BY <1>2, <2>2, <3>1, <3>3, <3>4
  <2> QED BY <2>1, <2>2
<1>3. ASSUME NEW c \in Caller, NEW p \in Path, LockOne(c, p)
      PROVE  Blocked(entry[q], req[d][q])'
  <2> DEFINE e == [entry[p] EXCEPT !.refs = @ + 1]
  <2>1. entry[p] \in Entry /\ e \in Entry
    BY <1>0, EntryType DEF TypeOK
  <2>2. \A n : Blocked(entry[p], n) <=> Blocked(e, n)
    BY <2>1, BlockedStays
  <2>3. IsNext(c, p) /\ TestAndLock(c, p, e) /\ req' = req
    BY <1>3 DEF LockOne
  <2> HIDE DEF e
  <2> QED BY <1>2, <2>1, <2>2, <2>3, BlockedStays
<1>4. ASSUME NEW c \in Caller, NEW p \in Path, Wake(c, p)
      PROVE  Blocked(entry[q], req[d][q])'
  <2> DEFINE f == [entry[p] EXCEPT !.waiting_writers = @ - 1]
  <2>1. entry[p] \in Entry /\ f \in Entry
    BY <1>0, EntryType DEF TypeOK
  <2>2. /\ IsNext(c, p) /\ req' = req
        /\ TestAndLock(c, p, IF req[c][p] = "write" THEN f ELSE entry[p])
    BY <1>4 DEF Wake
  <2>3. CASE req[c][p] = "write"
    <3>1. \A n : Blocked(entry[p], n) => /\ Blocked(Waiting(f, req[c][p]), n)
                                         /\ Blocked(Granted(f, req[c][p]), n)
      BY <2>1, <2>3, BlockedStays
    <3>2. TestAndLock(c, p, f)
      BY <2>2, <2>3
    <3> HIDE DEF f
    <3> QED BY <1>2, <2>1, <2>2, <3>1, <3>2
  <2>4. CASE req[c][p] # "write"
    BY <1>2, <2>1, <2>2, <2>4, BlockedStays
  <2> QED BY <2>3, <2>4
<1>5. ASSUME NEW c \in Caller, NEW p \in Path, UnlockOne(c, p)
      PROVE  Blocked(entry[q], req[d][q])'
  <2>1. d # c /\ p \in entries
    BY <1>0, <1>5 DEF UnlockOne, IsLast, Notified, Sleeps, LockInv, CountersExact, Users
  <2>2. Sleeps(d, q)
    BY <1>0, <1>5, <2>1 DEF UnlockOne, Notified, Sleeps, IsNext, TypeOK
  <2>3. q # p
    BY <1>0, <1>5, <2>1, <2>2 DEF UnlockOne, Notified, Sleeps
  <2> QED BY <1>0, <1>1, <1>5, <2>2, <2>3 DEF UnlockOne, TypeOK
<1>6. ASSUME NEW c \in Caller, Acquire(c) \/ SpuriousWake(c) \/ Release(c)
      PROVE  Blocked(entry[q], req[d][q])'
  BY <1>0, <1>1, <1>6 DEF Acquire, SpuriousWake, Release, Sleeps, IsNext, TypeOK
<1>7. CASE UNCHANGED vars
  BY <1>1, <1>7 DEF Sleeps, IsNext, vars
<1> QED
  BY <1>3, <1>4, <1>5, <1>6, <1>7 DEF Next, CallerStep, AllDone

\* A caller sleeps only on a condition that still holds: UnlockOne notifies
\* everybody on the path, and no other step makes the condition false.
THEOREM NoWakeupIsLost == Spec => []NoLostWakeup
<1>1. Init => NoLostWakeup
  BY DEF Init, NoLostWakeup, Sleeps
<1> QED BY <1>1, Invariant, WakeupStep, PTL DEF Spec

-----------------------------------------------------------------------------
(* Freedom from deadlock. *)

\* The writers that wait for p, which LockOne counts and Wake uncounts.
WaitingWriters(p) == {c \in Caller : Waits(c, p) /\ req[c][p] = "write"}

WaitersExact ==
  \A p \in Path : entry[p].waiting_writers = Cardinality(WaitingWriters(p))

\* Callers lock in the global order, and who waits, waits for its next path.
OrderInv ==
  \A c \in Caller :
    /\ \A p \in held[c], q \in DOMAIN req[c] \ held[c] : Before(p, q)
    /\ pc[c] = "asleep" => \E p \in Path : IsNext(c, p)
    /\ pc[c] = "woken" => \E p \in Path : IsNext(c, p)

\* The invariant that excludes a deadlock.
WaitInv == LockInv /\ WaitersExact /\ OrderInv

\* The count of waiting writers is changed by waiting and by its end, by nothing else.
LEMMA WaitingFields ==
  ASSUME NEW e \in Entry, NEW mode
  PROVE  /\ mode = "write" => Waiting(e, mode).waiting_writers = e.waiting_writers + 1
         /\ mode # "write" => Waiting(e, mode).waiting_writers = e.waiting_writers
         /\ Granted(e, mode).waiting_writers = e.waiting_writers
         /\ Unlocked(e, mode).waiting_writers = e.waiting_writers
         /\ [e EXCEPT !.refs = @ + 1].waiting_writers = e.waiting_writers
         /\ [e EXCEPT !.waiting_writers = @ - 1].waiting_writers = e.waiting_writers - 1
<1>1. /\ mode = "write" => Waiting(e, mode).waiting_writers = e.waiting_writers + 1
      /\ mode # "write" => Waiting(e, mode).waiting_writers = e.waiting_writers
  BY DEF Waiting, Entry
<1>2. Granted(e, mode).waiting_writers = e.waiting_writers
  BY DEF Granted, Entry
<1>3. Unlocked(e, mode).waiting_writers = e.waiting_writers
  BY DEF Unlocked, Entry
<1>4. /\ [e EXCEPT !.refs = @ + 1].waiting_writers = e.waiting_writers
      /\ [e EXCEPT !.waiting_writers = @ - 1].waiting_writers = e.waiting_writers - 1
  BY DEF Entry
<1> QED
  BY <1>1, <1>2, <1>3, <1>4

\* LockOne and Wake, once c is out of the count.
LEMMA CountWaiters ==
  ASSUME TypeOK, NEW c \in Caller, NEW p \in Path, NEW e \in Entry,
         IsNext(c, p), TestAndLock(c, p, e), req' = req,
         pc[c] \in {"acquire", "woken"}, WaitersExact,
         e.waiting_writers = Cardinality(WaitingWriters(p) \ {c})
  PROVE  WaitersExact'
<1>1. \A d \in Caller \ {c} : held'[d] = held[d] /\ pc'[d] = pc[d]
  BY DEF TestAndLock, TypeOK
<1>2. \A d \in Caller \ {c} : \A q : Waits(d, q)' <=> Waits(d, q)
  BY <1>1, OthersWait
<1>3. \A q : Waits(c, q) => q = p
  BY UniqueNext DEF Waits
<1>4. \A q \in Path : q # p => entry'[q] = entry[q]
  BY DEF TestAndLock, TypeOK
<1>5. CASE /\ entry' = [entry EXCEPT ![p] = Waiting(e, req[c][p])]
           /\ pc' = [pc EXCEPT ![c] = "asleep"]
           /\ held' = held
  <2>1. pc'[c] = "asleep" /\ \A q : IsNext(c, q)' <=> IsNext(c, q)
    BY <1>5 DEF IsNext, TypeOK
  <2>2. \A q : Waits(c, q)' <=> q = p
    BY <2>1, UniqueNext DEF Waits
  <2>3. \A q \in Path : q # p => WaitingWriters(q)' = WaitingWriters(q)
    BY <1>2, <1>3, <2>2 DEF WaitingWriters
  <2>4. entry'[p] = Waiting(e, req[c][p])
    BY <1>5 DEF TypeOK
  <2>5. WaitingWriters(p)' = IF req[c][p] = "write"
                             THEN (WaitingWriters(p) \ {c}) \cup {c}
                             ELSE WaitingWriters(p) \ {c}
    BY <1>2, <2>2 DEF WaitingWriters
  <2>6. WaitingWriters(p) \ {c} \in SUBSET Caller
    BY DEF WaitingWriters
  <2>7. c \notin WaitingWriters(p) \ {c}
    OBVIOUS
  <2>8. Cardinality((WaitingWriters(p) \ {c}) \cup {c}) =
          Cardinality(WaitingWriters(p) \ {c}) + 1
    BY <2>6, <2>7, Counting
  <2>9. entry'[p].waiting_writers = Cardinality(WaitingWriters(p)')
    BY <2>4, <2>5, <2>8, WaitingFields
  <2> QED
    BY <1>4, <2>3, <2>9 DEF WaitersExact
<1>6. CASE /\ entry' = [entry EXCEPT ![p] = Granted(e, req[c][p])]
           /\ pc' = [pc EXCEPT ![c] = IF DOMAIN req[c] = held[c] \cup {p}
                                      THEN "holding" ELSE "acquire"]
  <2>1. pc'[c] \in {"holding", "acquire"} /\ entry'[p] = Granted(e, req[c][p])
    BY <1>6 DEF TypeOK
  <2>2. \A q : ~Waits(c, q)'
    BY <2>1 DEF Waits
  <2>3. \A q \in Path : q # p => WaitingWriters(q)' = WaitingWriters(q)
    BY <1>2, <1>3, <2>2 DEF WaitingWriters
  <2>4. WaitingWriters(p)' = WaitingWriters(p) \ {c}
    BY <1>2, <2>2 DEF WaitingWriters
  <2>5. entry'[p].waiting_writers = Cardinality(WaitingWriters(p)')
    BY <2>1, <2>4, WaitingFields
  <2> QED
    BY <1>4, <2>3, <2>5 DEF WaitersExact
<1> QED
  BY <1>5, <1>6 DEF TestAndLock

\* A step that leaves everybody's waiting as it is.
LEMMA SameWaiters ==
  ASSUME WaitersExact, req' = req,
         \A d \in Caller : \A q : Waits(d, q)' <=> Waits(d, q),
         \A q \in Path : entry'[q].waiting_writers = entry[q].waiting_writers
  PROVE  WaitersExact'
BY DEF WaitersExact, WaitingWriters

\* Every step keeps the count of waiting writers exact: an entry that is erased
\* with its last reference has none.
LEMMA WaitersStep == WaitInv /\ [Next]_vars => WaitersExact'
<1> SUFFICES ASSUME WaitInv, [Next]_vars PROVE WaitersExact'
  OBVIOUS
<1>0. TypeOK /\ WaitersExact
  BY DEF WaitInv, LockInv
<1>1. ASSUME NEW c \in Caller, Acquire(c) \/ SpuriousWake(c) \/ Release(c)
      PROVE  WaitersExact'
  BY <1>0, <1>1, SameWaiters DEF Acquire, SpuriousWake, Release, Waits, IsNext, TypeOK
<1>2. ASSUME NEW c \in Caller, NEW p \in Path, LockOne(c, p) PROVE WaitersExact'
  <2> DEFINE e == [entry[p] EXCEPT !.refs = @ + 1]
  <2>1. /\ pc[c] = "acquire" /\ IsNext(c, p) /\ req' = req
        /\ TestAndLock(c, p, e)
    BY <1>2 DEF LockOne
  <2>2. entry[p] \in Entry /\ e \in Entry
    BY <1>0, EntryType DEF TypeOK
  <2>3. e.waiting_writers = entry[p].waiting_writers
    BY <2>2, WaitingFields
  <2>4. WaitingWriters(p) \ {c} = WaitingWriters(p)
    BY <2>1 DEF WaitingWriters, Waits
  <2> HIDE DEF e
  <2> QED
    BY <1>0, <2>1, <2>2, <2>3, <2>4, CountWaiters DEF WaitersExact
<1>3. ASSUME NEW c \in Caller, NEW p \in Path, Wake(c, p) PROVE WaitersExact'
  <2> DEFINE f == [entry[p] EXCEPT !.waiting_writers = @ - 1]
             e == IF req[c][p] = "write" THEN f ELSE entry[p]
  <2>1. /\ pc[c] = "woken" /\ IsNext(c, p) /\ req' = req /\ TestAndLock(c, p, e)
    BY <1>3 DEF Wake
  <2>2. entry[p] \in Entry /\ f \in Entry
    BY <1>0, EntryType DEF TypeOK
  <2>3. e \in Entry
    BY <2>2
  <2>4. WaitingWriters(p) \in SUBSET Caller
    BY DEF WaitingWriters
  <2>5. CASE req[c][p] = "write"
    <3>1. c \in WaitingWriters(p)
      BY <2>1, <2>5 DEF WaitingWriters, Waits
    <3>2. Cardinality(WaitingWriters(p) \ {c}) = Cardinality(WaitingWriters(p)) - 1
      BY <2>4, <3>1, Counting
    <3>3. f.waiting_writers = entry[p].waiting_writers - 1 /\ e = f
      BY <2>2, <2>5, WaitingFields
    <3> HIDE DEF e, f
    <3> QED
      BY <1>0, <2>1, <2>3, <3>2, <3>3, CountWaiters DEF WaitersExact
  <2>6. CASE req[c][p] # "write"
    <3>1. WaitingWriters(p) \ {c} = WaitingWriters(p) /\ e = entry[p]
      BY <2>6 DEF WaitingWriters
    <3> HIDE DEF e
    <3> QED
      BY <1>0, <2>1, <2>3, <3>1, CountWaiters DEF WaitersExact
  <2> QED
    BY <2>5, <2>6
<1>4. ASSUME NEW c \in Caller, NEW p \in Path, UnlockOne(c, p) PROVE WaitersExact'
  <2> DEFINE e == Unlocked(entry[p], req[c][p])
  <2>1. /\ pc[c] = "release" /\ p \in held[c] /\ req' = req /\ entry[p] \in Entry
    BY <1>0, <1>4 DEF UnlockOne, IsLast, TypeOK
  <2>2. /\ pc'[c] \in {"done", "release"}
        /\ \A d \in Caller \ {c} :
             /\ held'[d] = held[d]
             /\ pc'[d] = pc[d] \/ (pc[d] = "asleep" /\ pc'[d] = "woken")
    BY <1>0, <1>4 DEF UnlockOne, Notified, Sleeps, TypeOK
  <2>3. \A d \in Caller \ {c} : \A q : Waits(d, q)' <=> Waits(d, q)
    BY <2>1, <2>2, OthersWait
  <2>4. \A d \in Caller : \A q : Waits(d, q)' <=> Waits(d, q)
    BY <2>1, <2>2, <2>3 DEF Waits
  <2>5. \A q \in Path : q # p => entry'[q] = entry[q]
    BY <1>0, <1>4 DEF UnlockOne, TypeOK
  <2>6. PathInv(p) /\ PathInv(p)'
    <3>1. LockInv /\ LockInv'
      BY LockStep DEF WaitInv
    <3> QED
      BY <3>1 DEF LockInv, CountersExact, Exclusive, PathInv
  <2>7. e.waiting_writers = entry[p].waiting_writers /\ e.refs = entry[p].refs - 1
    BY <2>1, WaitingFields, EntryFields
  <2>8. p \in entries
    BY <2>1, <2>6 DEF PathInv, Users
  <2>9. entry'[p] = IF e.refs = 0 THEN NoEntry ELSE e
    BY <1>0, <1>4, <2>8 DEF UnlockOne, TypeOK
  <2>10. entry'[p].waiting_writers = entry[p].waiting_writers
    <3>1. CASE e.refs # 0
      BY <2>7, <2>9, <3>1
    <3>2. CASE e.refs = 0
      <4>1. Cardinality(Users(p)') = 0 /\ Users(p)' \in SUBSET Caller
        BY <2>6, <2>9, <3>2 DEF PathInv, NoEntry, Users
      <4>2. Users(p)' = {}
        BY <4>1, Counting
      <4>3. WaitingWriters(p) = {}
        BY <2>4, <4>2 DEF Users, WaitingWriters
      <4>4. entry[p].waiting_writers = 0
        BY <1>0, <4>3, FS_EmptySet DEF WaitersExact
      <4> QED
        BY <2>9, <3>2, <4>4 DEF NoEntry
    <3> QED
      BY <3>1, <3>2
  <2> QED
    BY <1>0, <2>1, <2>4, <2>5, <2>10, SameWaiters
<1>5. CASE UNCHANGED vars
  BY <1>0, <1>5 DEF WaitersExact, WaitingWriters, Waits, IsNext, vars
<1> QED
  BY <1>1, <1>2, <1>3, <1>4, <1>5 DEF Next, CallerStep, AllDone

\* Every step keeps the order in which callers take their locks.
LEMMA OrderStep == WaitInv /\ [Next]_vars => OrderInv'
<1> SUFFICES ASSUME WaitInv, [Next]_vars PROVE OrderInv'
  OBVIOUS
<1>0. TypeOK /\ OrderInv /\ HeldInv
  BY DEF WaitInv, LockInv
<1>1. ASSUME NEW c \in Caller, Acquire(c) \/ SpuriousWake(c) \/ Release(c)
      PROVE  OrderInv'
  <2>1. /\ UNCHANGED <<req, held>>
        /\ \A d \in Caller : \/ pc'[d] = pc[d]
                             \/ pc[d] = "asleep" /\ pc'[d] = "woken"
                             \/ pc'[d] \notin {"asleep", "woken"}
    BY <1>0, <1>1 DEF Acquire, SpuriousWake, Release, TypeOK
  <2> QED
    BY <1>0, <2>1 DEF OrderInv, IsNext
<1>2. ASSUME NEW c \in Caller, NEW p \in Path, NEW e, IsNext(c, p), TestAndLock(c, p, e),
             req' = req
      PROVE  OrderInv'
  <2>1. \A d \in Caller \ {c} : held'[d] = held[d] /\ pc'[d] = pc[d]
    BY <1>0, <1>2 DEF TestAndLock, TypeOK
  <2>2. \A d \in Caller \ {c} : \A q : IsNext(d, q)' <=> IsNext(d, q)
    BY <1>2, <2>1 DEF IsNext
  <2>3. CASE held' = held /\ pc'[c] = "asleep"
    <3>1. IsNext(c, p)'
      BY <1>2, <2>3 DEF IsNext
    <3> QED
      BY <1>0, <1>2, <2>1, <2>2, <2>3, <3>1 DEF OrderInv
  <2>4. CASE held'[c] = held[c] \cup {p} /\ pc'[c] \in {"holding", "acquire"}
    <3>1. \A q \in held'[c], r \in DOMAIN req[c] \ held'[c] : Before(q, r)
      BY <1>0, <1>2, <2>4 DEF OrderInv, IsNext
    <3> QED
      BY <1>0, <1>2, <2>1, <2>2, <2>4, <3>1 DEF OrderInv
  <2> QED
    BY <1>0, <1>2, <2>3, <2>4 DEF TestAndLock, TypeOK
<1>3. ASSUME NEW c \in Caller, NEW p \in Path, LockOne(c, p) PROVE OrderInv'
  BY <1>2, <1>3 DEF LockOne
<1>4. ASSUME NEW c \in Caller, NEW p \in Path, Wake(c, p) PROVE OrderInv'
  BY <1>2, <1>4 DEF Wake
<1>5. ASSUME NEW c \in Caller, NEW p \in Path, UnlockOne(c, p) PROVE OrderInv'
  <2>1. /\ IsLast(c, p) /\ req' = req /\ held'[c] = held[c] \ {p}
        /\ pc'[c] \in {"done", "release"}
        /\ \A d \in Caller \ {c} :
             /\ held'[d] = held[d]
             /\ pc'[d] = pc[d] \/ (pc[d] = "asleep" /\ pc'[d] = "woken")
    BY <1>0, <1>5 DEF UnlockOne, Notified, Sleeps, TypeOK
  <2>2. \A d \in Caller \ {c} : \A q : IsNext(d, q)' <=> IsNext(d, q)
    BY <2>1 DEF IsNext
  <2>3. \A q \in held'[c], r \in DOMAIN req[c] \ held'[c] : Before(q, r)
    BY <1>0, <2>1 DEF OrderInv, IsLast
  <2> QED
    BY <1>0, <2>1, <2>2, <2>3 DEF OrderInv
<1>6. CASE UNCHANGED vars
  BY <1>0, <1>6 DEF OrderInv, IsNext, vars
<1> QED
  BY <1>1, <1>3, <1>4, <1>5, <1>6 DEF Next, CallerStep, AllDone

\* At the start nobody waits and nothing is locked.
LEMMA WaitInit == Init => WaitInv
<1> SUFFICES ASSUME Init PROVE WaitInv
  OBVIOUS
<1>1. \A p : WaitingWriters(p) = {}
  BY DEF Init, WaitingWriters, Waits
<1>2. WaitersExact
  BY <1>1, FS_EmptySet DEF Init, WaitersExact, NoEntry
<1>3. OrderInv
  BY DEF Init, OrderInv
<1> QED
  BY <1>2, <1>3, LockInit DEF WaitInv

\* LockTable::Acquire locks in the order of Before, and an entry counts exactly
\* the writers that wait for its path.
THEOREM WaitInvariant == Spec => []WaitInv
<1>1. WaitInv /\ [Next]_vars => WaitInv'
  BY LockStep, WaitersStep, OrderStep DEF WaitInv
<1> QED
  BY <1>1, WaitInit, PTL DEF Spec

\* The sleepers that wait for a later path than c.
Above(c) ==
  {d \in Caller : /\ pc[d] = "asleep"
                  /\ \E p, q \in Path : IsNext(c, p) /\ IsNext(d, q) /\ Before(p, q)}

\* Of the callers that sleep, one waits for the last path.
LEMMA LastSleeper ==
  ASSUME TypeOK, OrderInv, NEW c \in Caller, pc[c] = "asleep"
  PROVE  \E d \in Caller : pc[d] = "asleep" /\ Above(d) = {}
<1> DEFINE T == {Above(d) : d \in {e \in Caller : pc[e] = "asleep"}}
<1>1. T \subseteq FiniteSubsetsOf(Caller) /\ T # {}
  <2>1. \A d \in Caller : Above(d) \in SUBSET Caller
    BY DEF Above
  <2> QED
    BY <2>1, LockTableAssumption, FS_FiniteSubsetsOfFinite
<1>2. PICK x \in T : \A y \in T : ~(<<y, x>> \in StrictSubsetOrdering(Caller))
  <2> HIDE DEF T
  <2> QED
    BY <1>1, FS_StrictSubsetOrderingWellFounded, WFMin
<1>3. PICK d \in Caller : pc[d] = "asleep" /\ x = Above(d)
  BY <1>2
<1>4. ASSUME NEW e \in Above(d) PROVE FALSE
  <2>1. PICK p \in Path, q \in Path : IsNext(d, p) /\ IsNext(e, q) /\ Before(p, q)
    BY <1>4 DEF Above
  <2>2. e \in Caller /\ pc[e] = "asleep"
    BY <1>4 DEF Above
  <2>3. \A r \in Path : Rank[r] \in Nat
    BY LockTableAssumption
  <2>4. e \notin Above(e)
    BY <2>2, <2>3, UniqueNext DEF Above, Before
  <2>5. Above(e) \subseteq Above(d)
    <3> SUFFICES ASSUME NEW f \in Above(e) PROVE f \in Above(d)
      OBVIOUS
    <3>1. PICK r \in Path, s \in Path : IsNext(e, r) /\ IsNext(f, s) /\ Before(r, s)
      BY DEF Above
    <3>2. r = q
      BY <2>1, <2>2, <3>1, UniqueNext
    <3>3. Before(p, s)
      BY <2>1, <2>3, <3>1, <3>2 DEF Before
    <3> QED
      BY <2>1, <3>1, <3>3 DEF Above
  <2>6. <<Above(e), Above(d)>> \in StrictSubsetOrdering(Caller)
    <3>1. Above(e) \in SUBSET Caller /\ Above(d) \in SUBSET Caller
      BY DEF Above
    <3> QED
      BY <1>4, <2>4, <2>5, <3>1 DEF StrictSubsetOrdering
  <2>7. Above(e) \in T
    BY <2>2
  <2> QED
    BY <1>2, <1>3, <2>6, <2>7
<1> QED
  BY <1>3, <1>4

\* The waiting caller with the last path waits for one that goes on: whoever
\* holds that path waits, if at all, for a later one.  (LockTable::Acquire locks
\* in the order of Before.)
THEOREM DeadlockFreedom == Spec => []NoDeadlock
<1>1. ASSUME WaitInv, NoLostWakeup PROVE NoDeadlock
  <2> SUFFICES ASSUME NEW b \in Caller, pc[b] = "asleep",
                      \A d \in Caller : pc[d] \in {"start", "asleep", "done"}
               PROVE  FALSE
    BY <1>1 DEF NoDeadlock, WaitInv, LockInv, TypeOK, PC
  <2>1. TypeOK /\ OrderInv /\ HeldInv /\ WaitersExact /\ \A q \in Path : PathInv(q)
    BY <1>1, PathInvSuffices DEF WaitInv, LockInv
  <2>2. PICK c \in Caller : pc[c] = "asleep" /\ Above(c) = {}
    BY <2>1, LastSleeper
  <2>3. PICK p \in Path : IsNext(c, p)
    BY <2>1, <2>2 DEF OrderInv
  <2>4. ASSUME NEW d \in Caller, p \in held[d] PROVE FALSE
    <3>1. pc[d] = "asleep"
      BY <2>1, <2>4 DEF HeldInv
    <3>2. PICK q \in Path : IsNext(d, q)
      BY <2>1, <3>1 DEF OrderInv
    <3>3. Before(p, q)
      BY <2>1, <2>4, <3>2 DEF OrderInv, IsNext
    <3> QED
      BY <2>2, <2>3, <3>1, <3>2, <3>3 DEF Above
  <2>5. Readers(p) = {} /\ Writers(p) = {}
    BY <2>4 DEF Readers, Writers
  <2>6. ~(entry[p].readers > 0) /\ ~entry[p].writer
    <3>1. PathInv(p) /\ Cardinality({}) = 0
      BY <2>1, FS_EmptySet
    <3>2. entry[p].readers = 0 /\ ~entry[p].writer
      BY <2>5, <3>1 DEF PathInv
    <3> QED
      BY <3>2
  <2>7. ASSUME NEW d \in Caller, Sleeps(d, p), req[d][p] = "write" PROVE FALSE
    BY <1>1, <2>6, <2>7 DEF NoLostWakeup, Blocked
  <2>8. WaitingWriters(p) = {}
    BY <2>7 DEF WaitingWriters, Waits, Sleeps
  <2>9. ~(entry[p].waiting_writers > 0)
    <3>1. Cardinality({}) = 0
      BY FS_EmptySet
    <3>2. entry[p].waiting_writers = Cardinality(WaitingWriters(p))
      BY <2>1 DEF WaitersExact
    <3> QED
      BY <2>8, <3>1, <3>2
  <2>10. Blocked(entry[p], req[c][p])
    BY <1>1, <2>2, <2>3 DEF NoLostWakeup, Sleeps
  <2> QED
    BY <2>6, <2>9, <2>10 DEF Blocked
<1> QED
  BY <1>1, WaitInvariant, NoWakeupIsLost, PTL
=============================================================================
