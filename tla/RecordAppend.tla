---------------------------- MODULE RecordAppend ----------------------------
(***************************************************************************)
(* Record append, from the client to the last replica: the calls of the    *)
(* threads of one Client, which share its cache of leases                  *)
(* (src/src/client/gfs_client.cc, location_cache.h), the buffers of pushed *)
(* data (src/src/chunkserver/data_buffer.cc), the primary that orders      *)
(* mutations and forwards them, and the secondaries that apply them        *)
(* (src/src/chunkserver/chunkserver.cc).                                   *)
(*                                                                         *)
(* The master is only what its answers are here: the rounds of a grant,    *)
(* which ChunkLease takes apart, are one step, and so is AddChunk.  A      *)
(* server that restarts has the chunks that it had (ChunkStore is about    *)
(* what a crash leaves of them), and an empty buffer and no leases.        *)
(*                                                                         *)
(* A cell of a chunk holds the attempt, <<caller, number>>, that wrote it, *)
(* and is blank before that and after a pad.                               *)
(***************************************************************************)
EXTENDS Integers, FiniteSets, SequencesExt

CONSTANTS
  Server, Caller,
  None,        \* no server
  ChunkSize,
  Size,        \* Size[c]: the size of the record of caller c
  Capacity,    \* data_buffer_capacity
  Inner,       \* mutation_retry_inner
  Outer,       \* mutation_retry_outer
  MaxChunks,   \* bound: chunks of the file
  MaxAttempts, \* bound: attempts of a call, which is stuck when it needs more
  Scenario     \* bounds: see Left

FaultKind == {"add", "find", "push", "store", "forward", "deadline",
              "restart"}

\* What may fail, how many failures there may be, and how many ends of leases,
\* grants without a replica and regrants.
Left == [may : SUBSET FaultKind, faults : Nat, losses : Nat]

ASSUME RecordAppendAssumption ==
  /\ ChunkSize \in Nat \ {0} /\ Size \in [Caller -> 1..ChunkSize]
  /\ Capacity \in Nat /\ Server # {} /\ None \notin Server
  /\ {Inner, MaxChunks} \subseteq Nat \ {0}
  /\ {Outer, MaxAttempts} \subseteq Nat /\ Scenario \subseteq Left

VARIABLES
  chunks,     \* the number of chunks of the file
  meta,       \* the master: version, replicas and primary of each chunk
  steady,     \* history: the replicas of each chunk that never left, see Stays
  cache,      \* the leases that the client knows
  call,       \* the calls of RecordAppend
  result,     \* what they returned
  buffer,     \* pushed data, the oldest first
  store,      \* version, length and cells of each chunk at each server
  lease,      \* the leases that the servers hold
  handler,    \* the mutation of each chunk that a server is the primary of
  requests,   \* RecordAppend messages not handled yet
  applies,    \* ApplyMutation messages not handled yet
  left        \* what is left of the scenario

servers == <<buffer, store, lease, handler>>
messages == <<requests, applies>>
master == <<chunks, meta, steady>>
client == <<cache, call, result>>
vars == <<master, client, servers, messages, left>>

Chunk == 0..(MaxChunks - 1)
Cell == 0..(ChunkSize - 1)
Blank == <<>>
Nothing == [kind |-> "none"]
Failed == [kind |-> "failed"]

NoLease == [there |-> FALSE, version |-> 0, primary |-> None, others |-> {}]
NotHeld == [held |-> FALSE, others |-> {}]
NoHandler == [there |-> FALSE]
SizeOf(id) == Size[id[1]]

Fails(kind) ==
  kind \in left.may /\ left.faults > 0 /\ left' = [left EXCEPT !.faults = @ - 1]

\* A lease ends, or the master grants one without a replica or before it ends.
Loses == left.losses > 0 /\ left' = [left EXCEPT !.losses = @ - 1]

-----------------------------------------------------------------------------
(* The data buffer of a server.                                            *)

\* used_, after n entries of the buffer and after all.
Used(b) ==
  LET used[n \in 0..Len(b)] == IF n = 0 THEN 0 ELSE used[n - 1] + SizeOf(b[n])
  IN  used[Len(b)]

\* Mutant of Evicted: at most one entry makes room.
Evicted_One(b, size) ==
  IF b # <<>> /\ Used(b) + size > Capacity THEN Tail(b) ELSE b

\* The oldest entries are dropped until the new one fits, or none is left.
Evicted(b, size) ==
  LET Rest(i) == SubSeq(b, i, Len(b))
      Enough(i) == Rest(i) = <<>> \/ Used(Rest(i)) + size <= Capacity
  IN  Rest(CHOOSE i \in 1..(Len(b) + 1) : Enough(i) /\ \A j \in 1..(i - 1) : ~Enough(j))

Put(b, id) == Append(Evicted(b, SizeOf(id)), id)
Has(s, id) == \E i \in DOMAIN buffer[s] : buffer[s][i] = id
Take(s, id) ==
  \E i \in DOMAIN buffer[s] :
    buffer[s][i] = id /\ buffer' = [buffer EXCEPT ![s] = RemoveAt(@, i)]

-----------------------------------------------------------------------------
(* The calls.                                                              *)

NewCall == [pc |-> "open", index |-> 0, inner |-> 0, outer |-> 0, number |-> 0,
            lease |-> NoLease, cached |-> FALSE]

Id(c) == <<c, call[c].number>>
At(c, pc) == call[c].pc = pc

\* The call starts a round of attempts, or ends.
Goes(c, pc, index, outer) ==
  /\ call' = [call EXCEPT ![c] = [NewCall EXCEPT !.pc = pc, !.index = index, !.outer = outer,
                                                 !.number = call[c].number]]
  /\ UNCHANGED result

Return(c, value) ==
  /\ result' = [result EXCEPT ![c] = value]
  /\ call' = [call EXCEPT ![c] = [NewCall EXCEPT !.pc = "done", !.number = call[c].number]]

\* An attempt failed: the lease is forgotten; when it was found in the cache
\* the next attempt, with another, is not counted.
Again(c) ==
  LET outer == call[c].outer + (IF call[c].cached THEN 0 ELSE 1) IN
  IF outer > Outer THEN Return(c, Failed)
  ELSE Goes(c, "find", call[c].index, outer)

AttemptFails(c) == cache' = [cache EXCEPT ![call[c].index] = NoLease] /\ Again(c)

\* The master adds the chunks up to index, with all servers as replicas.
Ensured(index) ==
  LET new == chunks..index IN
  /\ chunks' = IF index < chunks THEN chunks ELSE index + 1
  /\ meta' = [k \in Chunk |-> IF k \in new THEN [meta[k] EXCEPT !.version = 1] ELSE meta[k]]
  /\ store' = [s \in Server |-> [k \in Chunk |->
                 IF k \in new THEN [store[s][k] EXCEPT !.version = 1] ELSE store[s][k]]]
  /\ UNCHANGED steady

\* The file is opened, and gets its first chunk.
Open(c) ==
  /\ At(c, "open")
  /\ Goes(c, "find", IF chunks = 0 THEN 0 ELSE chunks - 1, 0)
  /\ Ensured(0)
  /\ UNCHANGED <<cache, buffer, lease, handler, messages, left>>

\* AddChunk may have been done, and its answer lost.
OpenFails(c) ==
  /\ At(c, "open") /\ Fails("add")
  /\ Return(c, Failed)
  /\ Ensured(0) \/ UNCHANGED <<master, store>>
  /\ UNCHANGED <<cache, buffer, lease, handler, messages>>

\* The chunk is full: EnsureChunk for the next one, which may fail for good (no
\* more than MaxChunks), or for now: then the full chunk is tried once more.
NextChunk(c) ==
  /\ At(c, "next")
  /\ LET index == call[c].index + 1 IN
     IF index \in Chunk
     THEN Ensured(index) /\ Goes(c, "find", index, 0)
     ELSE Return(c, Failed) /\ UNCHANGED <<master, store>>
  /\ UNCHANGED <<cache, buffer, lease, handler, messages, left>>

NextChunkFails(c) ==
  /\ At(c, "next") /\ Fails("add")
  /\ Goes(c, "find", call[c].index, call[c].outer)
  /\ \/ call[c].index + 1 \in Chunk /\ Ensured(call[c].index + 1)
     \/ UNCHANGED <<master, store>>
  /\ UNCHANGED <<cache, buffer, lease, handler, messages>>

\* The next attempt is with this lease.
Found(c, l, cached) ==
  /\ call' = [call EXCEPT ![c] = [call[c] EXCEPT !.pc = "push", !.inner = 0, !.lease = l,
                                     !.number = call[c].number + 1, !.cached = cached]]
  /\ UNCHANGED result

\* ExpiringCache::Get; or the entry is too old, and the master is asked.
FindCached(c) ==
  /\ At(c, "find") /\ cache[call[c].index].there
  /\ Found(c, cache[call[c].index], TRUE)
  /\ UNCHANGED <<master, cache, servers, messages, left>>

LeaseOf(m) == [there |-> TRUE, version |-> m.version, primary |-> m.primary,
               others |-> m.replicas \ {m.primary}]

\* The answer of the master is on its way to the client.
Tells(c, l) ==
  /\ call' = [call EXCEPT ![c] = [call[c] EXCEPT !.pc = "learn", !.lease = l]]
  /\ UNCHANGED <<cache, result>>

\* The master has a lease that is valid, though the primary may have lost it.
FindLease(c) ==
  LET k == call[c].index IN
  /\ At(c, "find") /\ meta[k].primary # None
  /\ Tells(c, LeaseOf(meta[k]))
  /\ UNCHANGED <<master, servers, messages, left>>

\* ExpiringCache::Put, maybe over what another thread has found since.
Learn(c) ==
  /\ At(c, "learn")
  /\ Found(c, call[c].lease, FALSE)
  /\ cache' = [cache EXCEPT ![call[c].index] = call[c].lease]
  /\ UNCHANGED <<master, servers, messages, left>>

\* PrepareLocked: the primary stays if it can.
Primary(m, up) == IF m.primary \in up THEN m.primary ELSE CHOOSE s \in up : TRUE

\* History: the replicas that never left; there are none any more when one that
\* was away becomes primary.
Stays(k, p, up) ==
  steady' = [steady EXCEPT ![k] = IF p \in @ THEN @ \cap up ELSE {}]

\* The servers whose heartbeat, if it comes during a grant, makes them replicas.
MayReport(k) == {s \in Server : store[s][k].version + 1 >= meta[k].version}

\* The rounds of a grant.  All replicas in up answer the last one.  Those in lost
\* executed UpdateVersion in an earlier one and were not heard: they are dropped,
\* with the same version.  (Such a server may also have a lease, of a version
\* that nobody is told it is the primary of: no request finds that lease.)  Those
\* in back are replicas again by a heartbeat that came after the last round began.
GrantSerialized(k, up, lost, back) ==
  LET p == Primary(meta[k], up)
      v == meta[k].version + 1
  IN
  /\ meta' = [meta EXCEPT ![k] =
                [version |-> v, replicas |-> up \cup back, primary |-> p]]
  /\ Stays(k, p, up)
  /\ store' = [s \in Server |-> IF s \in up \cup lost THEN [store[s] EXCEPT ![k].version = v]
                                ELSE store[s]]
  /\ lease' = [s \in Server |->
       IF s \notin up \cup lost THEN lease[s]
       ELSE [lease[s] EXCEPT ![k] =
               IF s = p THEN [held |-> TRUE, others |-> up \ {p}] ELSE NotHeld]]
  /\ UNCHANGED <<chunks, buffer, handler, messages>>

Rounds(k) ==
  {g \in [up : (SUBSET meta[k].replicas) \ {{}}, lost : SUBSET meta[k].replicas,
          back : SUBSET MayReport(k)] : g.up \cap (g.lost \cup g.back) = {}}

\* The lease is over, and the master grants another for a call.
Grant(c) ==
  LET k == call[c].index IN
  /\ At(c, "find")
  /\ meta[k].primary # None => ~lease[meta[k].primary][k].held
  /\ \E g \in Rounds(k) :
       /\ GrantSerialized(k, g.up, g.lost, g.back)
       /\ Tells(c, LeaseOf([version |-> meta[k].version + 1, replicas |-> g.up,
                            primary |-> Primary(meta[k], g.up)]))
       /\ IF g.up = meta[k].replicas THEN UNCHANGED left ELSE Loses

\* The replicas have changed: the master grants another lease while the last one
\* is valid, and tells no client.
Regrant(k) ==
  /\ meta[k].primary # None /\ Loses
  /\ \E g \in Rounds(k) : GrantSerialized(k, g.up, g.lost, g.back)
  /\ UNCHANGED client

\* HeartBeat: a server with the version of the master is a replica (again).  That
\* one stops to be a replica is left to the grant that leaves it out.
HeartBeat(s, k) ==
  /\ k < chunks /\ s \notin meta[k].replicas
  /\ store[s][k].version = meta[k].version
  /\ meta' = [meta EXCEPT ![k].replicas = @ \cup {s}]
  /\ UNCHANGED <<chunks, steady, client, servers, messages, left>>

\* FindLease fails, or its answer is lost, and the attempt is counted; a lease
\* that was in the cache, too old, is not any more.
FindLeaseFails(c) ==
  /\ At(c, "find") \/ At(c, "learn")
  /\ Fails("find")
  /\ IF call[c].outer = Outer THEN Return(c, Failed)
     ELSE Goes(c, "find", call[c].index, call[c].outer + 1)
  /\ cache' = [cache EXCEPT ![call[c].index] = NoLease]
  /\ UNCHANGED <<master, servers, messages>>

\* PushData, and the call of the primary.  Each server puts the data into its
\* buffer when those behind it in the chain have it.
Push(c) ==
  LET l == call[c].lease IN
  /\ At(c, "push") /\ call[c].number <= MaxAttempts
  /\ buffer' = [s \in Server |-> IF s \in l.others \cup {l.primary}
                                 THEN Put(buffer[s], Id(c)) ELSE buffer[s]]
  /\ call' = [call EXCEPT ![c].pc = "sent"]
  /\ requests' = requests \cup
       {[id |-> Id(c), chunk |-> call[c].index, version |-> l.version, to |-> l.primary]}
  /\ UNCHANGED <<master, cache, result, store, lease, handler, applies, left>>

\* The chain breaks, or its answer does not come: the data is where it is.
PushFails(c) ==
  LET l == call[c].lease IN
  /\ At(c, "push") /\ Fails("push")
  /\ \E got \in SUBSET (l.others \cup {l.primary}) :
       buffer' = [s \in Server |-> IF s \in got THEN Put(buffer[s], Id(c)) ELSE buffer[s]]
  /\ AttemptFails(c)
  /\ UNCHANGED <<master, store, lease, handler, messages>>

\* The answer of the primary to an attempt, if its caller still waits for it.
\* DATA_MISSING and FAILED are tried again with the same lease, and what the
\* primary refuses with another.
Answered(id, kind, offset) ==
  LET c == id[1]
      retry == kind = "failed" /\ call[c].inner + 1 < Inner
  IN
  IF ~At(c, "sent") \/ id # Id(c) THEN UNCHANGED client
  ELSE \/ /\ kind = "ok"
          /\ Return(c, [kind |-> "ok", at |-> [caller |-> c, chunk |-> call[c].index,
                                               offset |-> offset]])
          /\ UNCHANGED cache
       \/ /\ kind = "next"
          /\ Goes(c, "next", call[c].index, call[c].outer)
          /\ UNCHANGED cache
       \/ /\ retry
          /\ call' = [call EXCEPT ![c] = [call[c] EXCEPT !.pc = "push",
                         !.inner = call[c].inner + 1, !.number = call[c].number + 1]]
          /\ UNCHANGED <<cache, result>>
       \/ /\ kind \in {"failed", "refused"} /\ ~retry
          /\ AttemptFails(c)

\* The deadline of the call passes; the primary may still handle it.
DeadlinePasses(c) ==
  /\ At(c, "sent") /\ Fails("deadline")
  /\ AttemptFails(c)
  /\ UNCHANGED <<master, servers, messages>>

\* The primary was restarted before it answered.
ConnectionBreaks(c) ==
  /\ At(c, "sent")
  /\ \A r \in requests : r.id # Id(c)
  /\ \A s \in Server, k \in Chunk : handler[s][k].there => handler[s][k].id # Id(c)
  /\ AttemptFails(c)
  /\ UNCHANGED <<master, servers, messages, left>>

-----------------------------------------------------------------------------
(* The servers.                                                            *)

Idle(s, k) == ~handler[s][k].there

\* Chunk f when the attempt is written at the offset; a pad puts zeros from
\* there to the end.
Written(f, m) ==
  LET after == IF m.kind = "pad" THEN ChunkSize ELSE m.offset + SizeOf(m.id) IN
  [f EXCEPT !.length = IF @ > after THEN @ ELSE after,
            !.cell = [i \in Cell |-> IF i \notin m.offset..(after - 1) THEN @[i]
                                     ELSE IF m.kind = "pad" THEN Blank ELSE m.id]]

\* The store does what m says, or fails, before or after it is done.
Stored(s, k, m, ok) ==
  \/ /\ ok /\ UNCHANGED left
     /\ store' = [store EXCEPT ![s][k] = Written(@, m)]
  \/ /\ ~ok /\ Fails("store")
     /\ store' \in {store, [store EXCEPT ![s][k] = Written(@, m)]}

\* PrepareMutation refuses: the version is another, or there is no lease.  (With a
\* grant between its two looks it would let a mutation of the version before
\* through, to be refused by all secondaries of the lease.)
Refuse(r) ==
  /\ r \in requests /\ Idle(r.to, r.chunk)
  /\ \/ store[r.to][r.chunk].version # r.version
     \/ lease[r.to][r.chunk].held = FALSE
  /\ requests' = requests \ {r}
  /\ Answered(r.id, "refused", 0)
  /\ UNCHANGED <<master, servers, applies, left>>

Prepared(r) ==
  /\ r \in requests /\ Idle(r.to, r.chunk)
  /\ store[r.to][r.chunk].version = r.version
  /\ lease[r.to][r.chunk].held
  /\ requests' = requests \ {r}

DataMissing(r) ==
  /\ Prepared(r) /\ ~Has(r.to, r.id)
  /\ Answered(r.id, "failed", 0)
  /\ UNCHANGED <<master, servers, applies, left>>

\* Mutant of Fits: the size of the record is left out.
Fits_NoSize(s, k, id) == store[s][k].length < ChunkSize

Fits(s, k, id) == store[s][k].length + SizeOf(id) <= ChunkSize

\* The record goes to the end of the chunk, if it fits, or the chunk is padded;
\* the mutation is forwarded to the secondaries of the lease.
HandleAppend(r) ==
  LET s == r.to
      k == r.chunk
      m == [id |-> r.id, chunk |-> k, version |-> r.version, from |-> s, to |-> s,
            kind |-> IF Fits(s, k, r.id) THEN "write" ELSE "pad",
            offset |-> store[s][k].length]
      others == lease[s][k].others
  IN  /\ Prepared(r) /\ Has(s, r.id)
      /\ Take(s, r.id)
      /\ \E ok \in BOOLEAN :
           /\ Stored(s, k, m, ok)
           /\ IF ok
              THEN /\ handler' = [handler EXCEPT ![s][k] =
                        [there |-> TRUE, id |-> r.id, kind |-> m.kind,
                         offset |-> m.offset, todo |-> others, ok |-> TRUE]]
                   /\ applies' = applies \cup {[m EXCEPT !.to = t] : t \in others}
                   /\ UNCHANGED client
              ELSE /\ Answered(r.id, "failed", 0)
                   /\ UNCHANGED <<handler, applies>>
      /\ UNCHANGED <<master, lease>>

\* The primary hears from secondary t, if it still waits for it.
Told(m, ok) ==
  LET h == handler[m.from][m.chunk] IN
  handler' = IF h.there /\ h.id = m.id /\ m.to \in h.todo
             THEN [handler EXCEPT ![m.from][m.chunk] =
                     [h EXCEPT !.todo = h.todo \ {m.to}, !.ok = h.ok /\ ok]]
             ELSE handler

\* Mutant of Accepted: a mutation of any version is applied.
Accepted_AnyVersion(m) == TRUE

Accepted(m) == store[m.to][m.chunk].version = m.version

\* ApplyMutation: of a message that the primary may have given up on.  What can
\* come between its look at the version and its write does not have the lock of
\* the chunk, and changes only the version: as if it came after.  It always fits
\* (OUT_OF_RANGE is never answered): the primary has it at the same place.
Apply(m) ==
  LET s == m.to
      k == m.chunk
  IN  /\ m \in applies /\ Idle(s, k)
      /\ applies' = applies \ {m}
      /\ IF Accepted(m) /\ (m.kind = "pad" \/ Has(s, m.id))
         THEN /\ \E ok \in BOOLEAN : Stored(s, k, m, ok) /\ Told(m, ok)
              /\ IF m.kind = "pad" THEN UNCHANGED buffer ELSE Take(s, m.id)
         ELSE Told(m, FALSE) /\ UNCHANGED <<store, buffer, left>>
  /\ UNCHANGED <<master, client, lease, requests>>

\* rpc_deadline passes; when the secondary is itself busy with a mutation of
\* the chunk, as a primary, the two may wait for each other until then.
ForwardFails(m) ==
  /\ m \in applies
  /\ Told(m, FALSE) /\ handler' # handler
  /\ IF Idle(m.to, m.chunk) THEN Fails("forward") ELSE UNCHANGED left
  /\ UNCHANGED <<master, client, buffer, store, lease, messages>>

\* Mutant of Released: the lock is kept when a secondary refused.
Released_IfOk(s, k) ==
  IF handler[s][k].ok THEN [handler EXCEPT ![s][k] = NoHandler]
  ELSE [handler EXCEPT ![s][k].todo = {s}]

\* The lock of the chunk is released.
Released(s, k) == [handler EXCEPT ![s][k] = NoHandler]

\* All secondaries have answered.
FinishAppend(s, k) ==
  LET h == handler[s][k] IN
  /\ h.there /\ h.todo = {}
  /\ handler' = Released(s, k)
  /\ Answered(h.id, IF ~h.ok THEN "failed" ELSE IF h.kind = "pad" THEN "next" ELSE "ok",
              h.offset)
  /\ UNCHANGED <<master, buffer, store, lease, messages, left>>

\* The lease ends at the primary; for a call the master grants another only after
\* that.
LeaseExpires(s, k) ==
  /\ lease[s][k].held /\ Loses
  /\ lease' = [lease EXCEPT ![s][k] = NotHeld]
  /\ UNCHANGED <<master, client, buffer, store, handler, messages>>

\* Handlers, leases and the buffer are gone, and so are the connections.
Restart(s) ==
  /\ Fails("restart")
  /\ buffer' = [buffer EXCEPT ![s] = <<>>]
  /\ lease' = [lease EXCEPT ![s] = [k \in Chunk |-> NotHeld]]
  /\ handler' = [q \in Server |-> [k \in Chunk |->
       IF q = s THEN NoHandler
       ELSE IF handler[q][k].there /\ s \in handler[q][k].todo
       THEN [handler[q][k] EXCEPT !.todo = @ \ {s}, !.ok = FALSE]
       ELSE handler[q][k]]]
  /\ requests' = {r \in requests : r.to # s}
  /\ applies' = {m \in applies : m.to # s}
  /\ UNCHANGED <<master, client, store>>

-----------------------------------------------------------------------------
Init ==
  /\ chunks = 0
  /\ meta = [k \in Chunk |-> [version |-> 0, replicas |-> Server, primary |-> None]]
  /\ steady = [k \in Chunk |-> Server]
  /\ cache = [k \in Chunk |-> NoLease]
  /\ call = [c \in Caller |-> NewCall]
  /\ result = [c \in Caller |-> Nothing]
  /\ buffer = [s \in Server |-> <<>>]
  /\ store = [s \in Server |-> [k \in Chunk |->
       [version |-> 0, length |-> 0, cell |-> [i \in Cell |-> Blank]]]]
  /\ lease = [s \in Server |-> [k \in Chunk |-> NotHeld]]
  /\ handler = [s \in Server |-> [k \in Chunk |-> NoHandler]]
  /\ requests = {} /\ applies = {}
  /\ left \in Scenario

CallStep(c) ==
  Open(c) \/ NextChunk(c) \/ FindCached(c) \/ FindLease(c) \/ Grant(c) \/ Learn(c)
  \/ Push(c) \/ ConnectionBreaks(c)

CallFails(c) ==
  \/ OpenFails(c) \/ NextChunkFails(c) \/ FindLeaseFails(c) \/ PushFails(c)
  \/ DeadlinePasses(c)

HandleRequest(r) == Refuse(r) \/ DataMissing(r) \/ HandleAppend(r)

Next ==
  \/ \E c \in Caller : CallStep(c) \/ CallFails(c)
  \/ \E r \in requests : HandleRequest(r)
  \/ \E m \in applies : Apply(m) \/ ForwardFails(m)
  \/ \E s \in Server, k \in Chunk :
       FinishAppend(s, k) \/ LeaseExpires(s, k) \/ HeartBeat(s, k)
  \/ \E k \in Chunk : Regrant(k)
  \/ \E s \in Server : Restart(s)

\* A thread of the client goes on, and so does a handler; a message is handled,
\* or waits for a handler that ends (or for rpc_deadline).
Fairness ==
  /\ \A c \in Caller : WF_vars(CallStep(c))
  /\ WF_vars(\E r \in requests : HandleRequest(r))
  /\ WF_vars(\E m \in applies : Apply(m) \/ ForwardFails(m))
  /\ WF_vars(\E s \in Server, k \in Chunk : FinishAppend(s, k))

Spec == Init /\ [][Next]_vars /\ Fairness

-----------------------------------------------------------------------------
(* Properties.                                                             *)

\* Attempt n of the caller is in these cells.
Holds(f, r, n) ==
  \A i \in r.offset..(r.offset + Size[r.caller] - 1) : f.cell[i] = <<r.caller, n>>

Place == {r \in [caller : Caller, chunk : Chunk, offset : Cell] :
            r.offset + Size[r.caller] <= ChunkSize}

\* The records that are in the same place at all replicas that never left.
Records ==
  {r \in Place : \E n \in 1..call[r.caller].number :
     \A s \in steady[r.chunk] : Holds(store[s][r.chunk], r, n)}

Abstract == INSTANCE AtLeastOnce WITH records <- Records

\* Each chunk has a replica that never left, and was given no primary that did.
Survives == \A k \in Chunk : steady[k] # {}

\* The type invariant: a call works on a chunk of the file, or on the one that it
\* is about to add; the master knows of every version; no chunk is longer than
\* it may be, whatever is appended to it and forwarded late.
TypeOK ==
  /\ chunks \in 0..MaxChunks /\ left \in Left
  /\ \A k \in Chunk : /\ meta[k].replicas \in (SUBSET Server) \ {{}}
                      /\ meta[k].primary \in meta[k].replicas \cup {None}
                      /\ steady[k] \subseteq meta[k].replicas
  /\ \A c \in Caller : call[c].index <= chunks /\ call[c].inner < Inner
  /\ \A s \in Server, k \in Chunk : /\ store[s][k].version <= meta[k].version
                                    /\ store[s][k].length \in 0..ChunkSize

\* As long as no replica that was away is made primary, and one that never left
\* stays: a call that returns OK names a place where all replicas that never left
\* have its record, and nothing that comes later (an attempt that was given up and
\* is handled after all, a mutation of an earlier primary, a pad) overwrites a
\* record that they all have: the steps are those of AtLeastOnce.
AppendSpec == Abstract!Init /\ [][Survives' => Abstract!Next]_(Abstract!vars)

\* The pushed data of a server takes no more than data_buffer_capacity, however
\* much of it is left by attempts that failed, unless it is one record alone that
\* is larger.
BufferBounded == \A s \in Server : Used(buffer[s]) <= Capacity \/ Len(buffer[s]) = 1

\* Every call returns, after no more than MaxAttempts attempts, whatever
\* primaries wait for each other's locks, restart or do not answer: failures
\* are bounded, and those rounds of RecordAppend that count no attempt end.
CallsEnd == \A c \in Caller : <>(result[c] # Nothing)
=============================================================================
