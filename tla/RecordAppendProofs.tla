------------------------- MODULE RecordAppendProofs -------------------------
(***************************************************************************)
(* Record append is correct: it implements AtLeastOnce as long as a        *)
(* replica that never left is there to be primary (AppendImplements), its  *)
(* types hold (TypeCorrect) and the buffers of pushed data stay within     *)
(* their capacity, but for a record that alone is larger (BufferWithin),   *)
(* for any servers, callers, sizes and bounds.                             *)
(*                                                                         *)
(* The argument of AppendImplements: a mutation under way whose version is *)
(* that of the master lies, at the primary, where it says and as it says   *)
(* (Ordered), because the primary writes before it forwards and always at  *)
(* the end of its chunk; so a secondary that never left (a member of       *)
(* steady) writes only what the primary has in the same cells, and two     *)
(* mutations that it applies never fight for a cell.  One that a grant has *)
(* left behind, or that came back, may write what it likes: it is not      *)
(* steady; and a steady secondary refuses what a primary that was left     *)
(* behind sends to it, which fails the attempt (Doomed).                   *)
(***************************************************************************)
EXTENDS RecordAppend, WellFoundedInduction, SequenceTheorems, TLAPS

Attempt == Caller \X Nat
Lease == [there : BOOLEAN, version : Nat, primary : Server \cup {None},
          others : SUBSET Server]
Calls == [pc : {"open", "find", "learn", "push", "sent", "next", "done"}, index : Nat,
          inner : Nat, outer : Nat, number : Nat, lease : Lease, cached : BOOLEAN]
Meta == [version : Nat, replicas : (SUBSET Server) \ {{}},
         primary : Server \cup {None}]
File == [version : Nat, length : 0..ChunkSize, cell : [Cell -> Attempt \cup {Blank}]]
Kind == {"write", "pad"}
Request == [id : Attempt, chunk : Chunk, version : Nat, to : Server]
Mutation == [id : Attempt, chunk : Chunk, version : Nat, from : Server, to : Server,
             kind : Kind, offset : Nat]
Handler == [there : {TRUE}, id : Attempt, kind : Kind, offset : Nat,
            todo : SUBSET Server, ok : BOOLEAN]
Results == {Nothing, Failed} \cup
  [kind : {"ok"}, at : [caller : Caller, chunk : Nat, offset : Nat]]

\* The types of what the client, and what servers and messages hold.
ClientTypes ==
  /\ cache \in [Chunk -> Lease]
  /\ call \in [Caller -> Calls]
  /\ result \in [Caller -> Results]

ServerTypes ==
  /\ store \in [Server -> [Chunk -> File]]
  /\ lease \in [Server -> [Chunk -> [held : BOOLEAN, others : SUBSET Server]]]
  /\ handler \in [Server -> [Chunk -> Handler \cup {NoHandler}]]
  /\ requests \subseteq Request /\ applies \subseteq Mutation

Types ==
  /\ chunks \in 0..MaxChunks /\ meta \in [Chunk -> Meta] /\ steady \in [Chunk -> SUBSET Server]
  /\ ClientTypes /\ ServerTypes
  /\ left \in Left

\* A lease is at the primary, or of an earlier version, and the replicas that never
\* left are its secondaries.
LeaseInv(s, k) ==
  /\ 0 < store[s][k].version
  /\ s = meta[k].primary \/ store[s][k].version < meta[k].version
  /\ s \notin lease[s][k].others /\ steady[k] \ {s} \subseteq lease[s][k].others

\* A chunk of the file has a version, which its primary and the replicas that never
\* left have.
MetaAt(k) ==
  /\ k >= chunks => meta[k].version = 0 /\ meta[k].primary = None
  /\ k < chunks => meta[k].version > 0
  /\ steady[k] \subseteq meta[k].replicas
  /\ meta[k].primary # None =>
       /\ meta[k].primary \in meta[k].replicas
       /\ store[meta[k].primary][k].version = meta[k].version
       /\ steady[k] = {} \/ meta[k].primary \in steady[k]
  /\ \A s \in Server :
       /\ store[s][k].version <= meta[k].version
       /\ s \in steady[k] => store[s][k].version = meta[k].version
       /\ lease[s][k].held => LeaseInv(s, k)

MetaInv == \A k \in Chunk : MetaAt(k)

\* Calls that are under way work on a chunk of the file and have not returned.
CallInv ==
  /\ \A k \in Chunk : cache[k].there => cache[k].primary \in Server
  /\ \A c \in Caller :
       /\ call[c].inner < Inner
       /\ call[c].pc # "done" => result[c] = Nothing
       /\ IF call[c].pc \in {"open", "done"} THEN call[c].index = 0
          ELSE call[c].index < chunks
       /\ call[c].pc \in {"learn", "push", "sent"} => call[c].lease.primary \in Server
       /\ call[c].pc \in {"push", "sent"} => call[c].number > 0

\* The attempt was made, and its data was pushed.
Begun(id) ==
  /\ id[2] \in 1..call[id[1]].number
  /\ At(id[1], "push") => id[2] < call[id[1]].number

\* What a caller waits for is about the chunk that it works on.
InFlight ==
  \A c \in Caller : At(c, "sent") =>
    /\ \A r \in requests : r.id = Id(c) => r.chunk = call[c].index
    /\ \A s \in Server, k \in Chunk :
         handler[s][k].there /\ handler[s][k].id = Id(c) => k = call[c].index

\* No chunk has anything of the attempt.
Unwritten(id) ==
  \A s \in Server, k \in Chunk, i \in Cell : store[s][k].cell[i] # id

\* A request is of an attempt that nobody but its caller knows of yet.
RequestInv ==
  \A r \in requests :
    /\ Begun(r.id) /\ Unwritten(r.id)
    /\ \A q \in requests : q.id = r.id => q = r
    /\ \A m \in applies : m.id # r.id
    /\ \A s \in Server, k \in Chunk : handler[s][k].there => handler[s][k].id # r.id

\* Where a mutation ends, and what it leaves in its cells.
End(m) == IF m.kind = "pad" THEN ChunkSize ELSE m.offset + SizeOf(m.id)
Mark(m) == IF m.kind = "pad" THEN Blank ELSE m.id

\* The primary has what the message asks a secondary to write.
Ordered(m) ==
  LET p == meta[m.chunk].primary IN
  /\ p # None /\ m.to # p
  /\ End(m) <= store[p][m.chunk].length
  /\ \A i \in Cell : m.offset <= i /\ i < End(m) => store[p][m.chunk].cell[i] = Mark(m)

\* A mutation under way is one of its kind, its replica has nothing of it, and it
\* is ordered unless a grant has made it too old for the replicas.
MutationInv ==
  \A m \in applies :
    /\ Begun(m.id)
    /\ m.offset <= ChunkSize /\ End(m) <= ChunkSize
    /\ m.version \in 1..meta[m.chunk].version
    /\ \A n \in applies : n.id = m.id /\ n.to = m.to => n = m
    /\ \A k \in Chunk, i \in Cell : store[m.to][k].cell[i] # m.id
    /\ m.version = meta[m.chunk].version => Ordered(m)

\* A cell that is not blank lies below the length of the chunk, and the cells of
\* an attempt are no further apart than its record is long.
CellInv ==
  \A s \in Server, k \in Chunk, i \in Cell :
    LET f == store[s][k] IN
    f.cell[i] # Blank =>
      /\ i < f.length /\ Begun(f.cell[i])
      /\ \A j \in Cell : f.cell[j] = f.cell[i] => j - i < SizeOf(f.cell[i])

\* Replica t has the record of handler h in its place.
HasRecord(t, k, h) ==
  \A i \in Cell : h.offset <= i /\ i < h.offset + SizeOf(h.id) => store[t][k].cell[i] = h.id

\* A secondary that the handler waits for has no message, or one that it refuses.
Doomed(k, h) ==
  \E t \in h.todo : \A m \in applies :
    m.id = h.id /\ m.to = t => m.version < store[t][k].version

\* A handler whose secondaries all said yes so far: those that have answered, and
\* the primary, have the record, or the attempt fails for another reason.
HandlerInv ==
  \A s \in Server, k \in Chunk : handler[s][k].there =>
    LET h == handler[s][k] IN
    /\ Begun(h.id)
    /\ \A m \in applies : m.id = h.id =>
         m.from = s /\ m.chunk = k /\ m.kind = h.kind /\ m.offset = h.offset
    /\ h.kind = "write" => h.offset + SizeOf(h.id) <= ChunkSize
    /\ h.kind = "write" /\ h.ok =>
         Doomed(k, h) \/ \A t \in steady[k] : t \in h.todo \/ HasRecord(t, k, h)

\* The inductive invariant.
AppendInv ==
  /\ Types /\ MetaInv /\ CallInv /\ InFlight /\ RequestInv /\ MutationInv
  /\ CellInv /\ HandlerInv
-----------------------------------------------------------------------------
(* The calls.                                                              *)

\* Attempts that were made stay made.
Grows == \A x \in Attempt : Begun(x) => Begun(x)'

\* A step of the client keeps its types and its invariant, and no call is sent.
ClientMoves ==
  /\ ClientTypes' /\ CallInv' /\ Grows
  /\ \A c \in Caller : At(c, "sent")' => call'[c] = call[c]

CacheOK(f) == f \in [Chunk -> Lease] /\ \A k \in Chunk : f[k].there => f[k].primary \in Server

\* One call gets another state, and may return: the others are as they were.
LEMMA CallChange ==
  ASSUME Types, CallInv, NEW c \in Caller, NEW r \in Calls, call' = [call EXCEPT ![c] = r],
         result' = result \/ (r.pc = "done" /\ \E v \in Results : result' = [result EXCEPT ![c] = v]),
         CacheOK(cache'), chunks' \in Int, chunks <= chunks', call[c].pc # "done",
         r.inner < Inner, r.pc # "sent",
         IF r.pc \in {"open", "done"} THEN r.index = 0 ELSE r.index < chunks',
         r.pc \in {"learn", "push"} => r.lease.primary \in Server,
         r.pc = "push" => r.number = call[c].number + 1,
         r.number >= call[c].number
  PROVE  ClientMoves
<1>1. /\ call'[c] = r /\ \A d \in Caller \ {c} : call'[d] = call[d]
      /\ call' \in [Caller -> Calls] /\ call \in [Caller -> Calls]
  BY DEF Types, ClientTypes
<1>2. /\ result' \in [Caller -> Results]
      /\ \A d \in Caller \ {c} : result'[d] = result[d]
      /\ r.pc # "done" => result'[c] = result[c]
  BY DEF Types, ClientTypes
<1>3. chunks \in Int /\ \A d \in Caller : call[d] \in Calls
  BY <1>1, RecordAppendAssumption DEF Types
<1>4. ASSUME NEW d \in Caller
      PROVE  /\ call'[d].inner < Inner
             /\ call'[d].pc # "done" => result'[d] = Nothing
             /\ IF call'[d].pc \in {"open", "done"} THEN call'[d].index = 0
                ELSE call'[d].index < chunks'
             /\ call'[d].pc \in {"learn", "push", "sent"} => call'[d].lease.primary \in Server
             /\ call'[d].pc \in {"push", "sent"} => call'[d].number > 0
  <2>1. CASE d = c
    <3>1. /\ r.number \in Nat /\ call[c].number \in Nat
      BY <1>3 DEF Calls
    <3>2. r.pc # "done" => result'[c] = Nothing
      BY <1>2 DEF CallInv
    <3>3. /\ r.pc \in {"learn", "push", "sent"} => r.lease.primary \in Server
          /\ r.pc \in {"push", "sent"} => r.number > 0
      BY <3>1
    <3> QED
      BY <1>1, <2>1, <3>2, <3>3
  <2>2. CASE d # c
    <3>1. call'[d] = call[d] /\ result'[d] = result[d] /\ call[d].index \in Nat
      BY <1>1, <1>2, <1>3, <2>2 DEF Calls
    <3> QED
      BY <1>3, <3>1 DEF CallInv
  <2> QED
    BY <2>1, <2>2
<1>5. ASSUME NEW x \in Attempt, Begun(x) PROVE Begun(x)'
  <2>1. CASE x[1] = c
    <3>1. x[2] \in Nat /\ r.number \in Nat /\ call[c].number \in Nat
      BY <1>3 DEF Calls, Attempt
    <3>2. x[2] \in 1..call[c].number
      BY <1>5, <2>1 DEF Begun
    <3> QED
      BY <1>1, <2>1, <3>1, <3>2 DEF Begun, At
  <2>2. CASE x[1] # c
    <3>1. call'[x[1]] = call[x[1]]
      BY <1>1, <2>2 DEF Attempt
    <3> QED
      BY <1>5, <3>1 DEF Begun, At
  <2> QED
    BY <2>1, <2>2
<1>6. ASSUME NEW d \in Caller, At(d, "sent")' PROVE call'[d] = call[d]
  BY <1>1, <1>6 DEF At
<1>7. ClientTypes'
  BY <1>1, <1>2 DEF ClientTypes, CacheOK
<1>8. CallInv'
  BY <1>4 DEF CallInv, CacheOK
<1> QED
  BY <1>5, <1>6, <1>7, <1>8 DEF ClientMoves, Grows

\* What the client has in its cache names primaries.
LEMMA CacheIsOK == Types /\ CallInv => CacheOK(cache)
  BY DEF Types, ClientTypes, CallInv, CacheOK

\* The client does not move.
LEMMA NoChange ==
  ASSUME Types, CallInv, UNCHANGED client, chunks' \in Int, chunks <= chunks' PROVE ClientMoves
<1>1. ASSUME NEW d \in Caller
      PROVE  IF call[d].pc \in {"open", "done"} THEN call[d].index = 0
             ELSE call[d].index < chunks'
  <2>1. call[d].index \in Nat /\ chunks \in Int
    BY RecordAppendAssumption DEF Types, ClientTypes, Calls
  <2> QED
    BY <2>1 DEF CallInv
<1> QED
  BY <1>1 DEF client, Types, ClientTypes, CallInv, ClientMoves, Grows, Begun, At

LEMMA NewCallType == NewCall \in Calls /\ NoLease \in Lease
  BY DEF NewCall, Calls, NoLease, Lease

\* A call starts a round of attempts.
LEMMA GoesMoves ==
  ASSUME Types, CallInv, NEW c \in Caller, NEW pc \in {"find", "next"}, NEW index \in Nat,
         NEW outer \in Nat, Goes(c, pc, index, outer), index < chunks',
         call[c].pc # "done", CacheOK(cache'), chunks' \in Int, chunks <= chunks'
  PROVE  ClientMoves
<1>1. PICK r : r = [NewCall EXCEPT !.pc = pc, !.index = index, !.outer = outer,
                                  !.number = call[c].number]
  OBVIOUS
<1>2. call[c] \in Calls /\ call[c].number \in Nat
  BY DEF Types, ClientTypes, Calls
<1>3. /\ r \in Calls /\ r.pc = pc /\ r.index = index /\ r.number = call[c].number
      /\ r.inner = 0
  BY <1>1, <1>2, NewCallType DEF NewCall, Calls
<1>4. call' = [call EXCEPT ![c] = r] /\ result' = result
  BY <1>1 DEF Goes
<1>5. 0 < Inner /\ r.number >= call[c].number
  BY <1>2, <1>3, RecordAppendAssumption
<1> QED
  BY <1>2, <1>3, <1>4, <1>5, CallChange

\* A call returns.
LEMMA ReturnMoves ==
  ASSUME Types, CallInv, NEW c \in Caller, NEW value \in Results, Return(c, value),
         call[c].pc # "done", CacheOK(cache'), chunks' \in Int, chunks <= chunks'
  PROVE  ClientMoves
<1>1. PICK r : r = [NewCall EXCEPT !.pc = "done", !.number = call[c].number]
  OBVIOUS
<1>2. call[c] \in Calls /\ call[c].number \in Nat
  BY DEF Types, ClientTypes, Calls
<1>3. /\ r \in Calls /\ r.pc = "done" /\ r.index = 0 /\ r.number = call[c].number
      /\ r.inner = 0
  BY <1>1, <1>2, NewCallType DEF NewCall, Calls
<1>4. call' = [call EXCEPT ![c] = r] /\ result' = [result EXCEPT ![c] = value]
  BY <1>1 DEF Return
<1>5. 0 < Inner /\ r.number >= call[c].number
  BY <1>2, <1>3, RecordAppendAssumption
<1> QED
  BY <1>2, <1>3, <1>4, <1>5, CallChange

\* A call tries again, or gives up.
LEMMA AgainMoves ==
  ASSUME Types, CallInv, NEW c \in Caller, Again(c), call[c].index < chunks,
         call[c].pc # "done", CacheOK(cache'), chunks' \in Int, chunks <= chunks'
  PROVE  ClientMoves
<1>1. PICK outer : outer = call[c].outer + (IF call[c].cached THEN 0 ELSE 1)
  OBVIOUS
<1>2. call[c].index \in Nat /\ outer \in Nat /\ chunks \in Int
  BY <1>1, RecordAppendAssumption DEF Types, ClientTypes, Calls
<1>3. CASE Return(c, Failed)
  BY <1>3, ReturnMoves DEF Results
<1>4. CASE Goes(c, "find", call[c].index, outer)
  BY <1>2, <1>4, GoesMoves
<1> QED
  BY <1>1, <1>3, <1>4 DEF Again

\* An attempt fails, and its lease is forgotten.
LEMMA AttemptFailsMoves ==
  ASSUME Types, CallInv, NEW c \in Caller, AttemptFails(c),
         call[c].pc \in {"push", "sent"}, chunks' = chunks
  PROVE  ClientMoves
<1>1. call[c].index < chunks /\ chunks \in Int
  BY RecordAppendAssumption DEF CallInv, Types
<1>2. CacheOK(cache')
  BY CacheIsOK, NewCallType DEF AttemptFails, CacheOK, NoLease
<1>3. Again(c)
  BY DEF AttemptFails
<1> QED
  BY <1>1, <1>2, <1>3, AgainMoves

\* A call has a lease for its next attempt.
LEMMA FoundMoves ==
  ASSUME Types, CallInv, NEW c \in Caller, NEW l \in Lease, NEW cached \in BOOLEAN,
         l.primary \in Server, At(c, "find") \/ At(c, "learn"), Found(c, l, cached),
         CacheOK(cache'), chunks' = chunks
  PROVE  ClientMoves
<1> DEFINE n == call[c].number + 1
<1>1. PICK r : r = [call[c] EXCEPT !.pc = "push", !.inner = 0, !.lease = l,
                                  !.number = n, !.cached = cached]
  OBVIOUS
<1>2. /\ call[c] \in Calls /\ call[c].number \in Nat /\ call[c].index < chunks
      /\ chunks \in Int /\ chunks <= chunks' /\ call[c].pc # "done" /\ c \in DOMAIN call
      /\ call[c].index \in Nat /\ call[c].outer \in Nat
  BY RecordAppendAssumption DEF Types, ClientTypes, Calls, CallInv, At
<1>3. /\ r \in Calls /\ r.pc = "push" /\ r.index = call[c].index /\ r.lease = l
      /\ r.number = n /\ r.inner = 0
  <2>1. n \in Nat
    BY <1>2
  <2> HIDE DEF n
  <2> QED
    BY <1>1, <1>2, <2>1 DEF Calls
<1>4. call' = [call EXCEPT ![c] = r] /\ result' = result
  BY <1>1 DEF Found
<1>5. 0 < Inner /\ r.number >= call[c].number
  BY <1>2, <1>3, RecordAppendAssumption
<1> QED
  BY <1>2, <1>3, <1>4, <1>5, CallChange

\* A call is told of a lease.
LEMMA TellsMoves ==
  ASSUME Types, CallInv, NEW c \in Caller, NEW l \in Lease, l.primary \in Server,
         At(c, "find"), Tells(c, l), chunks' = chunks
  PROVE  ClientMoves
<1>1. PICK r : r = [call[c] EXCEPT !.pc = "learn", !.lease = l]
  OBVIOUS
<1>2. /\ call[c] \in Calls /\ call[c].number \in Nat /\ call[c].index < chunks
      /\ chunks \in Int /\ chunks <= chunks' /\ call[c].pc # "done"
      /\ call[c].inner < Inner
  BY RecordAppendAssumption DEF Types, ClientTypes, Calls, CallInv, At
<1>3. /\ r \in Calls /\ r.pc = "learn" /\ r.index = call[c].index /\ r.lease = l
      /\ r.number = call[c].number /\ r.inner = call[c].inner
  BY <1>1, <1>2 DEF Calls
<1>4. call' = [call EXCEPT ![c] = r] /\ result' = result /\ CacheOK(cache')
  BY <1>1, CacheIsOK DEF Tells
<1>5. r.number >= call[c].number
  BY <1>2, <1>3
<1> QED
  BY <1>2, <1>3, <1>4, <1>5, CallChange

\* Whatever the answer of a primary, and whether its caller still waits for it.
LEMMA AnsweredMoves ==
  ASSUME Types, CallInv, NEW id \in Attempt, NEW kind, NEW offset \in Nat,
         Answered(id, kind, offset), chunks' = chunks
  PROVE  ClientMoves
<1>1. PICK c \in Caller : c = id[1]
  BY DEF Attempt
<1>2. chunks \in Int /\ chunks <= chunks' /\ chunks' \in Int
  BY RecordAppendAssumption DEF Types
<1>3. CASE ~At(c, "sent") \/ id # Id(c)
  BY <1>1, <1>2, <1>3, NoChange DEF Answered
<1>4. CASE At(c, "sent") /\ id = Id(c)
  <2>0. /\ call[c].pc = "sent" /\ call[c] \in Calls /\ call[c].index < chunks
        /\ call[c].index \in Nat /\ call[c].outer \in Nat /\ call[c].number \in Nat
        /\ call[c].inner \in Nat
    BY <1>4 DEF At, CallInv, Types, ClientTypes, Calls
  <2>1. CASE /\ Return(c, [kind |-> "ok", at |-> [caller |-> c, chunk |-> call[c].index,
                                                   offset |-> offset]])
             /\ UNCHANGED cache
    <3>1. [kind |-> "ok", at |-> [caller |-> c, chunk |-> call[c].index, offset |-> offset]]
            \in Results
      BY <2>0 DEF Results
    <3> QED
      BY <1>2, <2>0, <2>1, <3>1, ReturnMoves, CacheIsOK
  <2>2. CASE Goes(c, "next", call[c].index, call[c].outer) /\ UNCHANGED cache
    BY <1>2, <2>0, <2>2, GoesMoves, CacheIsOK
  <2>3. CASE /\ call[c].inner + 1 < Inner
             /\ call' = [call EXCEPT ![c] = [call[c] EXCEPT !.pc = "push",
                           !.inner = call[c].inner + 1, !.number = call[c].number + 1]]
             /\ UNCHANGED <<cache, result>>
    <3> DEFINE i == call[c].inner + 1
               n == call[c].number + 1
    <3>1. PICK r : r = [call[c] EXCEPT !.pc = "push", !.inner = i, !.number = n]
      OBVIOUS
    <3>2. /\ r \in Calls /\ r.pc = "push" /\ r.index = call[c].index
          /\ r.lease = call[c].lease /\ r.number = n /\ r.inner = i
      <4>1. i \in Nat /\ n \in Nat
        BY <2>0
      <4> HIDE DEF i, n
      <4> QED
        BY <2>0, <3>1, <4>1 DEF Calls
    <3>3. call' = [call EXCEPT ![c] = r] /\ result' = result /\ CacheOK(cache')
      BY <2>3, <3>1, CacheIsOK
    <3>4. r.lease.primary \in Server /\ r.number >= call[c].number
      BY <2>0, <3>2 DEF CallInv
    <3> QED
      BY <1>2, <2>0, <2>3, <3>2, <3>3, <3>4, CallChange
  <2>4. CASE AttemptFails(c)
    BY <2>0, <2>4, AttemptFailsMoves
  <2> QED
    BY <1>1, <1>4, <2>1, <2>2, <2>3, <2>4 DEF Answered
<1> QED
  BY <1>3, <1>4

\* No record, message or handler is new.
SameFile(f, g) == g.length = f.length /\ g.cell = f.cell /\ f.version <= g.version
SameMeta(m, n) == m.version < n.version \/ (n.version = m.version /\ n.primary = m.primary)
SameHandler(h, g) ==
  g.there => /\ h.there /\ g.id = h.id /\ g.kind = h.kind /\ g.offset = h.offset
             /\ g.ok => h.ok /\ g.todo = h.todo

NothingNew ==
  /\ applies' \subseteq applies
  /\ \A k \in Chunk : SameMeta(meta[k], meta'[k]) /\ steady'[k] \subseteq steady[k]
  /\ \A s \in Server, k \in Chunk : /\ SameFile(store[s][k], store'[s][k])
                                     /\ SameHandler(handler[s][k], handler'[s][k])

Keeps == requests' \subseteq requests /\ NothingNew

\* What did not change is the same.
LEMMA SameRefl ==
  /\ \A m : SameMeta(m, m)
  /\ \A h : SameHandler(h, h)
  /\ Types => \A s \in Server, k \in Chunk : SameFile(store[s][k], store[s][k])
<1>1. ASSUME Types, NEW s \in Server, NEW k \in Chunk PROVE SameFile(store[s][k], store[s][k])
  <2>1. store[s][k].version \in Nat
    BY <1>1 DEF Types, ServerTypes, File
  <2>2. store[s][k].version <= store[s][k].version
    BY <2>1
  <2> QED
    BY <2>2 DEF SameFile
<1> QED
  BY <1>1 DEF SameMeta, SameHandler

\* Bounds only go down.
LEMMA LeftType ==
  ASSUME Types, UNCHANGED left \/ Loses \/ \E kind : Fails(kind)
  PROVE  left' \in Left
<1>1. left \in Left /\ left.faults \in Nat /\ left.losses \in Nat
  BY DEF Types, Left
<1>2. ASSUME NEW n \in Nat, n > 0 PROVE n - 1 \in Nat
  BY <1>2
<1>3. ASSUME Loses PROVE left' \in Left
  BY <1>1, <1>2, <1>3 DEF Loses, Left
<1>4. ASSUME NEW kind, Fails(kind) PROVE left' \in Left
  BY <1>1, <1>2, <1>4 DEF Fails, Left
<1> QED
  BY <1>1, <1>3, <1>4

\* What the types say of the master.
LEMMA MetaType ==
  Types => /\ \A k \in Chunk : /\ k \in Nat /\ meta[k] \in Meta /\ meta[k].version \in Nat
                                /\ steady[k] \subseteq Server
                                /\ meta[k].replicas \subseteq Server /\ meta[k].replicas # {}
                                /\ meta[k].primary \in Server \cup {None}
           /\ chunks \in Nat /\ chunks <= MaxChunks /\ MaxChunks \in Nat
  BY RecordAppendAssumption DEF Chunk, Types, Meta

\* What the types say of a chunk at a server.
LEMMA FileType ==
  Types => \A s \in Server, k \in Chunk :
    /\ store[s][k] \in File /\ store[s][k].version \in Nat
    /\ store[s][k].length \in 0..ChunkSize
    /\ store[s][k].cell \in [Cell -> Attempt \cup {Blank}]
  BY DEF Types, ServerTypes, File

\* EnsureChunk: a new chunk has version 1 everywhere, and no lease.
LEMMA EnsuredKeeps ==
  ASSUME Types, MetaInv, NEW index \in Chunk, Ensured(index), UNCHANGED <<lease, handler, messages>>
  PROVE  /\ Keeps /\ MetaInv' /\ meta' \in [Chunk -> Meta] /\ ServerTypes'
         /\ steady' \in [Chunk -> SUBSET Server]
         /\ chunks' \in 0..MaxChunks /\ chunks <= chunks' /\ index < chunks'
<1> DEFINE new == chunks..index
<1>0. /\ index \in Nat /\ index < MaxChunks /\ chunks \in Nat /\ chunks <= MaxChunks
      /\ MaxChunks \in Nat /\ None \notin Server
  BY RecordAppendAssumption, MetaType DEF Chunk
<1>1. chunks' \in 0..MaxChunks /\ chunks <= chunks' /\ index < chunks' /\ chunks' \in Nat
  BY <1>0 DEF Ensured
<1>2. ASSUME NEW k \in Chunk
      PROVE  /\ k \in new => meta'[k] = [meta[k] EXCEPT !.version = 1]
             /\ k \notin new => meta'[k] = meta[k]
             /\ \A s \in Server :
                  /\ k \in new => store'[s][k] = [store[s][k] EXCEPT !.version = 1]
                  /\ k \notin new => store'[s][k] = store[s][k]
  BY DEF Ensured
<1>3. ASSUME NEW k \in Chunk
      PROVE  /\ k \in new => k >= chunks /\ k < chunks'
             /\ k \notin new => (k >= chunks' => k >= chunks) /\ (k < chunks' => k < chunks)
  BY <1>0, MetaType DEF Ensured
<1>4. ASSUME NEW k \in Chunk
      PROVE  /\ meta'[k] \in Meta /\ meta'[k].replicas = meta[k].replicas
             /\ meta'[k].primary = meta[k].primary
             /\ k \in new => meta[k].version = 0 /\ meta'[k].version = 1
  <2>1. meta[k] \in Meta
    BY MetaType
  <2>2. CASE k \notin new
    BY <1>2, <2>1, <2>2
  <2>3. CASE k \in new
    <3>1. meta[k].version = 0 /\ meta'[k] = [meta[k] EXCEPT !.version = 1]
      BY <1>2, <1>3, <2>3 DEF MetaInv, MetaAt
    <3> QED
      BY <2>1, <3>1 DEF Meta
  <2> QED
    BY <2>2, <2>3
<1>5. ASSUME NEW k \in Chunk, NEW s \in Server
      PROVE  /\ store'[s][k] \in File /\ store'[s][k].length = store[s][k].length
             /\ store'[s][k].cell = store[s][k].cell
             /\ k \in new => store'[s][k].version = 1 /\ store[s][k].version = 0
  <2>1. store[s][k] \in File /\ store[s][k].version \in Nat
    BY FileType
  <2>2. CASE k \notin new
    BY <1>2, <2>1, <2>2
  <2>3. CASE k \in new
    <3>1. store[s][k].version <= 0
      BY <1>3, <2>3 DEF MetaInv, MetaAt
    <3>2. store[s][k].version = 0
      BY <2>1, <3>1
    <3>3. store'[s][k] = [store[s][k] EXCEPT !.version = 1]
      BY <1>2, <2>3
    <3> HIDE DEF new
    <3> QED
      BY <2>1, <2>3, <3>2, <3>3 DEF File
  <2> QED
    BY <2>2, <2>3
<1> HIDE DEF new
<1>6. meta' \in [Chunk -> Meta] /\ store' \in [Server -> [Chunk -> File]]
  BY <1>4, <1>5 DEF Ensured
<1>7. Keeps
  <2>1. ASSUME NEW k \in Chunk PROVE SameMeta(meta[k], meta'[k]) /\ steady'[k] \subseteq steady[k]
    <3>0. steady'[k] = steady[k]
      BY DEF Ensured
    <3>1. CASE k \in new
      BY <1>4, <3>0, <3>1 DEF SameMeta
    <3> QED
      BY <1>2, <3>0, <3>1 DEF SameMeta
  <2>2. ASSUME NEW k \in Chunk, NEW s \in Server PROVE SameFile(store[s][k], store'[s][k])
    <3>1. CASE k \in new
      BY <1>5, <3>1 DEF SameFile
    <3>2. CASE k \notin new
      BY <1>2, <3>2, SameRefl
    <3> QED
      BY <3>1, <3>2
  <2> QED
    BY <2>1, <2>2, SameRefl DEF Keeps, NothingNew, messages
<1>8. MetaInv'
  <2> SUFFICES ASSUME NEW k \in Chunk PROVE MetaAt(k)'
    BY DEF MetaInv
  <2>0. MetaAt(k) /\ steady'[k] = steady[k] /\ lease' = lease
    BY DEF MetaInv, Ensured
  <2>a. meta[k].primary \in Server \cup {None}
    BY MetaType
  <2>1. CASE k \in new
    <3>1. ~(k >= chunks') /\ k >= chunks
      BY <1>0, <1>1, <1>3, <2>1, MetaType
    <3>2. meta'[k].primary = None
      BY <1>4, <2>0, <3>1 DEF MetaAt
    <3>3. ASSUME NEW s \in Server
          PROVE  ~lease'[s][k].held /\ store'[s][k].version = 1
      BY <1>5, <2>0, <2>1 DEF MetaAt, LeaseInv
    <3> QED
      BY <1>4, <2>0, <2>1, <3>1, <3>2, <3>3 DEF MetaAt
  <2>2. CASE k \notin new
    <3>1. /\ meta'[k] = meta[k]
          /\ \A s \in Server : store'[s][k] = store[s][k]
      BY <1>2, <2>2
    <3>2. (k >= chunks' => k >= chunks) /\ (k < chunks' => k < chunks)
      BY <1>3, <2>2
    <3> QED
      BY <2>0, <2>a, <3>1, <3>2 DEF MetaAt, LeaseInv
  <2> QED
    BY <2>1, <2>2
<1>9. steady' = steady
  BY DEF Ensured
<1> QED
  BY <1>1, <1>6, <1>7, <1>8, <1>9 DEF ServerTypes, Types, messages

\* Rounds of a grant are of replicas and servers.
LEMMA RoundsType ==
  ASSUME Types, NEW k \in Chunk, NEW g \in Rounds(k)
  PROVE  /\ g.up \subseteq Server /\ g.up # {} /\ g.lost \subseteq Server
         /\ g.back \subseteq Server /\ g.up \cap g.lost = {}
         /\ Primary(meta[k], g.up) \in g.up
<1>1. meta[k].replicas \subseteq Server
  BY MetaType
<1>2. /\ g.up \in (SUBSET meta[k].replicas) \ {{}} /\ g.lost \in SUBSET meta[k].replicas
      /\ g.back \in SUBSET MayReport(k) /\ g.up \cap (g.lost \cup g.back) = {}
  BY DEF Rounds
<1>3. MayReport(k) \subseteq Server
  BY DEF MayReport
<1>4. g.up # {}
  BY <1>2
<1> QED
  BY <1>1, <1>2, <1>3, <1>4 DEF Primary

\* A grant: a higher version for those that answer and those that were not heard;
\* nobody else gets a lease.
LEMMA GrantSerializedKeeps ==
  ASSUME Types, MetaInv, NEW k \in Chunk, k < chunks, NEW g \in Rounds(k),
         GrantSerialized(k, g.up, g.lost, g.back)
  PROVE  /\ Keeps /\ MetaInv' /\ meta' \in [Chunk -> Meta] /\ ServerTypes'
         /\ steady' \in [Chunk -> SUBSET Server] /\ chunks' = chunks
<1>0. /\ None \notin Server /\ meta[k] \in Meta /\ meta[k].version \in Nat
      /\ steady[k] \subseteq Server /\ steady \in [Chunk -> SUBSET Server]
  BY MetaType, RecordAppendAssumption DEF Types
<1>1. PICK p, v, up, out, all :
        /\ p = Primary(meta[k], g.up) /\ v = meta[k].version + 1 /\ up = g.up
        /\ out = g.up \cup g.lost /\ all = g.up \cup g.back
  OBVIOUS
<1>2. /\ up \subseteq Server /\ p \in up /\ p \in Server /\ v \in Nat /\ meta[k].version < v
      /\ up \subseteq out /\ out \subseteq Server /\ up \subseteq all /\ all \subseteq Server
      /\ 0 < v
  BY <1>0, <1>1, RoundsType
<1>3. /\ meta' = [meta EXCEPT ![k] = [version |-> v, replicas |-> all, primary |-> p]]
      /\ steady' = [steady EXCEPT ![k] = IF p \in @ THEN @ \cap up ELSE {}]
      /\ store' = [s \in Server |-> IF s \in out THEN [store[s] EXCEPT ![k].version = v]
                                    ELSE store[s]]
      /\ lease' = [s \in Server |->
           IF s \notin out THEN lease[s]
           ELSE [lease[s] EXCEPT ![k] =
                   IF s = p THEN [held |-> TRUE, others |-> up \ {p}] ELSE NotHeld]]
      /\ UNCHANGED <<chunks, buffer, handler, messages>>
  BY <1>1 DEF GrantSerialized, Stays
<1>4. meta'[k] = [version |-> v, replicas |-> all, primary |-> p]
  BY <1>3 DEF Types
<1>5. /\ \A l \in Chunk \ {k} : meta'[l] = meta[l] /\ steady'[l] = steady[l]
      /\ \A l \in Chunk \ {k}, s \in Server : store'[s][l] = store[s][l] /\ lease'[s][l] = lease[s][l]
  BY <1>3 DEF Types, ServerTypes
<1>6. steady'[k] = (IF p \in steady[k] THEN steady[k] \cap up ELSE {})
  BY <1>0, <1>3
<1>7. ASSUME NEW s \in Server
      PROVE  /\ s \in out => store'[s][k] = [store[s][k] EXCEPT !.version = v]
             /\ s \notin out => store'[s][k] = store[s][k] /\ lease'[s][k] = lease[s][k]
             /\ s \in out /\ s # p => lease'[s][k] = NotHeld
             /\ s = p => lease'[s][k] = [held |-> TRUE, others |-> up \ {p}]
  BY <1>2, <1>3 DEF Types, ServerTypes
<1>8. ASSUME NEW s \in Server
      PROVE  /\ store'[s][k] \in File /\ store'[s][k].length = store[s][k].length
             /\ store'[s][k].cell = store[s][k].cell
             /\ store[s][k].version <= store'[s][k].version
             /\ s \in out => store'[s][k].version = v
             /\ s \notin out => store'[s][k].version < v
  <2>1. /\ store[s][k] \in File /\ store[s][k].version \in Nat
        /\ store[s][k].version <= meta[k].version
    BY <1>0, FileType DEF MetaInv, MetaAt
  <2>2. CASE s \in out
    <3>1. store'[s][k] = [store[s][k] EXCEPT !.version = v]
      BY <1>7, <2>2
    <3>2. store[s][k].version <= v
      BY <1>0, <1>2, <2>1
    <3> QED
      BY <1>2, <2>1, <2>2, <3>1, <3>2 DEF File
  <2>3. CASE s \notin out
    <3>1. store'[s][k] = store[s][k]
      BY <1>7, <2>3
    <3>2. store[s][k].version < v /\ store[s][k].version <= store[s][k].version
      BY <1>0, <1>2, <2>1
    <3> QED
      BY <2>1, <2>3, <3>1, <3>2
  <2> QED
    BY <2>2, <2>3
<1>9. meta' \in [Chunk -> Meta]
  <2>1. [version |-> v, replicas |-> all, primary |-> p] \in Meta
    BY <1>2 DEF Meta
  <2> QED
    BY <1>3, <2>1 DEF Types
<1>10. steady' \in [Chunk -> SUBSET Server] /\ \A l \in Chunk : steady'[l] \subseteq steady[l]
  <2>1. steady'[k] \subseteq steady[k]
    BY <1>6
  <2>2. \A l \in Chunk : steady'[l] \subseteq steady[l]
    BY <1>5, <2>1
  <2>3. \E x \in SUBSET Server : steady' = [steady EXCEPT ![k] = x]
    BY <1>0, <1>3
  <2> QED
    BY <1>0, <2>2, <2>3
<1>11. /\ store' \in [Server -> [Chunk -> File]]
       /\ lease' \in [Server -> [Chunk -> [held : BOOLEAN, others : SUBSET Server]]]
  <2>1. ASSUME NEW s \in Server
        PROVE  IF s \in out THEN [store[s] EXCEPT ![k].version = v] \in [Chunk -> File]
               ELSE store[s] \in [Chunk -> File]
    <3>1. store[s] \in [Chunk -> File] /\ store[s][k] \in File
      BY FileType DEF Types, ServerTypes
    <3>2. [store[s][k] EXCEPT !.version = v] \in File
      BY <1>2, <3>1 DEF File
    <3> HIDE DEF File
    <3>3. [store[s] EXCEPT ![k].version = v] = [store[s] EXCEPT ![k] = [store[s][k] EXCEPT !.version = v]]
      OBVIOUS
    <3> QED
      BY <3>1, <3>2, <3>3
  <2>2. store' \in [Server -> [Chunk -> File]]
    BY <1>3, <2>1
  <2>3. /\ [held |-> TRUE, others |-> up \ {p}] \in [held : BOOLEAN, others : SUBSET Server]
        /\ NotHeld \in [held : BOOLEAN, others : SUBSET Server]
    BY <1>2 DEF NotHeld
  <2>4. ASSUME NEW s \in Server
        PROVE  lease[s] \in [Chunk -> [held : BOOLEAN, others : SUBSET Server]]
    BY DEF Types, ServerTypes
  <2> DEFINE new(s) == IF s \notin out THEN lease[s]
             ELSE [lease[s] EXCEPT ![k] =
                     IF s = p THEN [held |-> TRUE, others |-> up \ {p}] ELSE NotHeld]
  <2>5. ASSUME NEW s \in Server
        PROVE  new(s) \in [Chunk -> [held : BOOLEAN, others : SUBSET Server]]
    <3> PICK x \in [held : BOOLEAN, others : SUBSET Server] :
          x = IF s = p THEN [held |-> TRUE, others |-> up \ {p}] ELSE NotHeld
      BY <2>3
    <3> QED
      BY <2>4
  <2>6. lease' = [s \in Server |-> new(s)]
    BY <1>3
  <2> QED
    BY <2>2, <2>5, <2>6
<1>12. chunks' = chunks /\ handler' = handler /\ requests' = requests /\ applies' = applies
  BY <1>3 DEF messages
<1>13. Keeps
  <2>1. ASSUME NEW l \in Chunk PROVE SameMeta(meta[l], meta'[l])
    <3>1. CASE l = k
      BY <1>2, <1>4, <3>1 DEF SameMeta
    <3> QED
      BY <1>5, <3>1 DEF SameMeta
  <2>2. ASSUME NEW l \in Chunk, NEW s \in Server PROVE SameFile(store[s][l], store'[s][l])
    <3>1. CASE l = k
      BY <1>8, <3>1 DEF SameFile
    <3>2. CASE l # k
      BY <1>5, <3>2, SameRefl
    <3> QED
      BY <3>1, <3>2
  <2> QED
    BY <1>10, <1>12, <2>1, <2>2, SameRefl DEF Keeps, NothingNew
<1>14. ASSUME NEW s \in Server, lease'[s][k].held PROVE LeaseInv(s, k)'
  <2>1. CASE s \notin out
    <3>1. LeaseInv(s, k) /\ store[s][k].version \in Nat
      BY <1>7, <1>14, <2>1, FileType DEF MetaInv, MetaAt
    <3>2. store'[s][k].version = store[s][k].version /\ lease'[s][k] = lease[s][k]
      BY <1>7, <2>1
    <3>3. store'[s][k].version < meta'[k].version
      BY <1>4, <1>8, <2>1
    <3> QED
      BY <1>10, <3>1, <3>2, <3>3 DEF LeaseInv
  <2>2. CASE s \in out
    <3>1. s = p
      <4> SUFFICES ASSUME s # p PROVE FALSE
        OBVIOUS
      <4>1. lease'[s][k] = NotHeld /\ ~NotHeld.held
        BY <1>7, <2>2 DEF NotHeld
      <4> QED
        BY <1>14, <4>1
    <3>2. lease'[s][k].others = up \ {s}
      <4>1. PICK r : r = [held |-> TRUE, others |-> up \ {p}]
        OBVIOUS
      <4>2. r.others = up \ {p}
        BY <4>1
      <4> QED
        BY <1>7, <3>1, <4>1, <4>2
    <3>3. store'[s][k].version = v /\ meta'[k].primary = s
      BY <1>4, <1>8, <2>2, <3>1
    <3> QED
      BY <1>2, <1>6, <3>2, <3>3 DEF LeaseInv
  <2> QED
    BY <2>1, <2>2
<1>15. MetaInv'
  <2> SUFFICES ASSUME NEW l \in Chunk PROVE MetaAt(l)'
    BY DEF MetaInv
  <2>1. CASE l = k
    <3>1. ~(k >= chunks)
      BY MetaType
    <3>2. meta'[k].version = v /\ meta'[k].replicas = all /\ meta'[k].primary = p
      BY <1>4
    <3>3. ASSUME NEW s \in Server PROVE store'[s][k].version <= v
      <4>1. v <= v /\ store'[s][k].version \in Int
        BY <1>2, <1>8 DEF File
      <4> QED
        BY <1>2, <1>8, <4>1
    <3>4. steady'[k] \subseteq up /\ (steady'[k] = {} \/ p \in steady'[k])
      BY <1>2, <1>6
    <3>5. \A s \in steady'[k] : s \in Server /\ store'[s][k].version = v
      BY <1>2, <1>8, <3>4
    <3> QED
      BY <1>2, <1>8, <1>12, <1>14, <2>1, <3>1, <3>2, <3>3, <3>4, <3>5 DEF MetaAt
  <2>2. CASE l # k
    <3>1. /\ meta'[l] = meta[l] /\ steady'[l] = steady[l]
          /\ \A s \in Server : store'[s][l] = store[s][l] /\ lease'[s][l] = lease[s][l]
      BY <1>5, <2>2
    <3>2. MetaAt(l) /\ meta[l].primary \in Server \cup {None}
      BY MetaType DEF MetaInv
    <3> QED
      BY <1>12, <3>1, <3>2 DEF MetaAt, LeaseInv
  <2> QED
    BY <2>1, <2>2
<1> QED
  BY <1>9, <1>10, <1>11, <1>12, <1>13, <1>15 DEF Types, ServerTypes

\* A call that is under way works on a chunk of the file.
LEMMA CallIndex ==
  ASSUME Types, CallInv, NEW c \in Caller, call[c].pc \notin {"open", "done"}
  PROVE  call[c].index \in Chunk /\ call[c].index < chunks /\ call[c].outer \in Nat
<1>1. call[c].index < chunks /\ call[c].index \in Nat
  BY DEF CallInv, Types, ClientTypes, Calls
<1>2. call[c].index \in Chunk /\ call[c].outer \in Nat
  BY <1>1, MetaType DEF Chunk, Types, ClientTypes, Calls
<1> QED
  BY <1>1, <1>2

\* The lease that the master answers with is one.
LEMMA LeaseOfType ==
  ASSUME NEW m, m.version \in Nat, m.replicas \subseteq Server, m.primary \in Server
  PROVE  LeaseOf(m) \in Lease /\ LeaseOf(m).primary \in Server
  BY DEF LeaseOf, Lease

\* The master grants a lease for a call.
LEMMA GrantKeeps ==
  ASSUME Types, MetaInv, CallInv, NEW c \in Caller, Grant(c)
  PROVE  Keeps /\ MetaInv' /\ Types' /\ ClientMoves
<1>1. PICK k : k = call[c].index
  OBVIOUS
<1>2. k \in Chunk /\ k < chunks /\ At(c, "find") /\ meta[k].version \in Nat
  BY <1>1, CallIndex, MetaType DEF Grant, At
<1>3. PICK g \in Rounds(k) :
        /\ GrantSerialized(k, g.up, g.lost, g.back)
        /\ Tells(c, LeaseOf([version |-> meta[k].version + 1, replicas |-> g.up,
                             primary |-> Primary(meta[k], g.up)]))
        /\ UNCHANGED left \/ Loses
  BY <1>1 DEF Grant
<1>5. /\ Keeps /\ MetaInv' /\ meta' \in [Chunk -> Meta] /\ ServerTypes'
      /\ steady' \in [Chunk -> SUBSET Server] /\ chunks' = chunks
  BY <1>2, <1>3, GrantSerializedKeeps
<1>6. ClientMoves
  <2>1. PICK m : m = [version |-> meta[k].version + 1, replicas |-> g.up,
                      primary |-> Primary(meta[k], g.up)]
    OBVIOUS
  <2>2. m.version \in Nat /\ m.replicas \subseteq Server /\ m.primary \in Server
    <3>1. g.up \subseteq Server /\ Primary(meta[k], g.up) \in g.up
      BY <1>2, RoundsType
    <3> QED
      BY <1>2, <2>1, <3>1
  <2>3. PICK l \in Lease : l = LeaseOf(m) /\ l.primary \in Server
    BY <2>2, LeaseOfType
  <2>4. Tells(c, l)
    BY <1>3, <2>1, <2>3
  <2> QED
    BY <1>2, <1>5, <2>3, <2>4, TellsMoves
<1>7. left' \in Left
  BY <1>3, LeftType
<1> QED
  BY <1>5, <1>6, <1>7 DEF ClientMoves, Types

\* The master grants a lease for no call, or hears that a replica is back.
LEMMA MasterKeeps ==
  ASSUME Types, MetaInv, CallInv, NEW k \in Chunk, Regrant(k) \/ \E s \in Server : HeartBeat(s, k)
  PROVE  Keeps /\ MetaInv' /\ Types' /\ ClientMoves
<1>0. chunks \in Int /\ chunks <= chunks
  BY MetaType
<1>1. CASE Regrant(k)
  <2>1. PICK g \in Rounds(k) : GrantSerialized(k, g.up, g.lost, g.back)
    BY <1>1 DEF Regrant
  <2>2. meta[k].primary # None /\ Loses /\ UNCHANGED client
    BY <1>1 DEF Regrant
  <2>3. k < chunks
    <3>1. ~(k >= chunks)
      BY <2>2 DEF MetaInv, MetaAt
    <3> QED
      BY <3>1, MetaType
  <2>5. /\ Keeps /\ MetaInv' /\ meta' \in [Chunk -> Meta] /\ ServerTypes'
        /\ steady' \in [Chunk -> SUBSET Server] /\ chunks' = chunks
    BY <2>1, <2>3, GrantSerializedKeeps
  <2>6. ClientMoves
    BY <1>0, <2>2, <2>5, NoChange
  <2>7. left' \in Left
    BY <2>2, LeftType
  <2> QED
    BY <2>5, <2>6, <2>7 DEF ClientMoves, Types
<1>2. CASE \E s \in Server : HeartBeat(s, k)
  <2>1. PICK s \in Server : meta' = [meta EXCEPT ![k].replicas = @ \cup {s}]
    BY <1>2 DEF HeartBeat
  <2>2. UNCHANGED <<chunks, steady, client, servers, messages, left>>
    BY <1>2 DEF HeartBeat
  <2>3. PICK m : m = [meta[k] EXCEPT !.replicas = @ \cup {s}]
    OBVIOUS
  <2>4. /\ m \in Meta /\ m.version = meta[k].version /\ m.primary = meta[k].primary
        /\ m.replicas = meta[k].replicas \cup {s}
    <3>1. meta[k] \in Meta
      BY MetaType
    <3> QED
      BY <2>3, <3>1 DEF Meta
  <2>5. meta' = [meta EXCEPT ![k] = m]
    BY <2>1, <2>3
  <2>6. meta' \in [Chunk -> Meta]
    BY <2>4, <2>5 DEF Types
  <2>7. ASSUME NEW l \in Chunk
        PROVE  /\ meta'[l].version = meta[l].version /\ meta'[l].primary = meta[l].primary
               /\ meta[l].replicas \subseteq meta'[l].replicas
    BY <2>4, <2>5 DEF Types
  <2>8. ClientMoves
    BY <1>0, <2>2, NoChange
  <2>9. Keeps
    BY <2>2, <2>7, SameRefl DEF Keeps, NothingNew, SameMeta, servers, messages
  <2>10. MetaInv'
    <3> SUFFICES ASSUME NEW l \in Chunk PROVE MetaAt(l)'
      BY DEF MetaInv
    <3>1. MetaAt(l) /\ meta'[l].version = meta[l].version /\ meta'[l].primary = meta[l].primary
          /\ meta[l].replicas \subseteq meta'[l].replicas
      BY <2>7 DEF MetaInv
    <3> QED
      BY <2>2, <3>1 DEF MetaAt, LeaseInv, servers
  <2> QED
    BY <2>2, <2>6, <2>8, <2>9, <2>10 DEF ClientMoves, Types, ServerTypes, servers, messages
<1> QED
  BY <1>1, <1>2

-----------------------------------------------------------------------------
(* The steps that write nothing, send nothing, and start no handler. *)

\* The master and the versions stay, and no lease is new.
LEMMA StillMeta ==
  ASSUME Types, MetaInv, UNCHANGED <<chunks, meta, steady>>,
         \A s \in Server, k \in Chunk :
           /\ store'[s][k].version = store[s][k].version
           /\ lease'[s][k].held => lease'[s][k] = lease[s][k]
  PROVE  MetaInv'
<1> SUFFICES ASSUME NEW k \in Chunk PROVE MetaAt(k)'
  BY DEF MetaInv
<1>1. MetaAt(k) /\ meta[k].primary \in Server \cup {None}
  BY MetaType DEF MetaInv
<1> QED
  BY <1>1 DEF MetaAt, LeaseInv

\* Only the client moves.
LEMMA ClientOnly ==
  ASSUME Types, MetaInv, ClientMoves, UNCHANGED <<master, store, lease, handler, messages>>,
         UNCHANGED left \/ Loses \/ \E kind : Fails(kind)
  PROVE  Keeps /\ MetaInv' /\ Types'
<1>1. left' \in Left
  BY LeftType
<1>2. Keeps
  BY SameRefl DEF Keeps, NothingNew, master, messages
<1>3. MetaInv'
  BY StillMeta DEF master
<1> QED
  BY <1>1, <1>2, <1>3 DEF Types, ServerTypes, ClientMoves, master, messages

\* The steps of a call before its data is pushed.
LEMMA CallStepKeeps ==
  ASSUME Types, MetaInv, CallInv, NEW c \in Caller,
         \/ Open(c) \/ NextChunk(c) \/ FindCached(c) \/ FindLease(c) \/ Grant(c)
         \/ Learn(c) \/ ConnectionBreaks(c) \/ CallFails(c)
  PROVE  Keeps /\ MetaInv' /\ Types' /\ ClientMoves
<1>0. /\ chunks \in Int /\ chunks <= chunks /\ 0 \in Chunk
  BY MetaType, RecordAppendAssumption DEF Chunk
<1>a. Failed \in Results
  BY DEF Results
<1>1. CASE Open(c)
  <2>1. /\ Ensured(0) /\ UNCHANGED <<cache, buffer, lease, handler, messages, left>>
        /\ Goes(c, "find", IF chunks = 0 THEN 0 ELSE chunks - 1, 0) /\ call[c].pc = "open"
    BY <1>1 DEF Open, At
  <2>2. /\ Keeps /\ MetaInv' /\ meta' \in [Chunk -> Meta] /\ ServerTypes'
        /\ steady' \in [Chunk -> SUBSET Server]
        /\ chunks' \in 0..MaxChunks /\ chunks <= chunks' /\ 0 < chunks' /\ chunks' \in Int
    BY <1>0, <2>1, EnsuredKeeps
  <2>3. PICK i \in Nat : i = (IF chunks = 0 THEN 0 ELSE chunks - 1) /\ i < chunks'
    BY <1>0, <2>2, MetaType
  <2>4. ClientMoves
    BY <2>1, <2>2, <2>3, GoesMoves, CacheIsOK
  <2> QED
    BY <2>1, <2>2, <2>4 DEF Types, ClientMoves
<1>2. CASE NextChunk(c)
  <2> DEFINE index == call[c].index + 1
  <2>1. /\ UNCHANGED <<cache, buffer, lease, handler, messages, left>> /\ call[c].pc = "next"
    BY <1>2 DEF NextChunk, At
  <2>2. CASE index \in Chunk
    <3>1. Ensured(index) /\ Goes(c, "find", index, 0)
      BY <1>2, <2>2 DEF NextChunk
    <3> HIDE DEF index
    <3>2. /\ Keeps /\ MetaInv' /\ meta' \in [Chunk -> Meta] /\ ServerTypes'
          /\ steady' \in [Chunk -> SUBSET Server]
          /\ chunks' \in 0..MaxChunks /\ chunks <= chunks' /\ index < chunks' /\ chunks' \in Int
      BY <2>1, <2>2, <3>1, EnsuredKeeps
    <3>3. index \in Nat
      BY <2>2, MetaType
    <3>4. ClientMoves
      BY <2>1, <3>1, <3>2, <3>3, GoesMoves, CacheIsOK
    <3> QED
      BY <2>1, <3>2, <3>4 DEF Types, ClientMoves
  <2>3. CASE index \notin Chunk
    <3>1. Return(c, Failed) /\ UNCHANGED <<master, store>>
      BY <1>2, <2>3 DEF NextChunk
    <3>2. ClientMoves
      BY <1>0, <1>a, <2>1, <3>1, ReturnMoves, CacheIsOK DEF master
    <3> QED
      BY <2>1, <3>1, <3>2, ClientOnly
  <2> QED
    BY <2>2, <2>3
<1>3. CASE FindCached(c)
  <2>1. call[c].index \in Chunk /\ At(c, "find")
    BY <1>3, CallIndex DEF FindCached, At
  <2>2. /\ cache[call[c].index] \in Lease /\ cache[call[c].index].primary \in Server
        /\ Found(c, cache[call[c].index], TRUE)
    BY <1>3, <2>1 DEF FindCached, CallInv, Types, ClientTypes
  <2>3. ClientMoves
    BY <1>3, <2>1, <2>2, FoundMoves, CacheIsOK DEF FindCached, master
  <2> QED
    BY <1>3, <2>3, ClientOnly DEF FindCached, servers
<1>4. CASE FindLease(c) \/ Learn(c)
  <2>1. CASE FindLease(c)
    <3>1. PICK k \in Chunk : k = call[c].index /\ At(c, "find") /\ meta[k].primary # None
      BY <2>1, CallIndex DEF FindLease, At
    <3>2. PICK l \in Lease : l = LeaseOf(meta[k]) /\ l.primary \in Server
      BY <3>1, MetaType, LeaseOfType
    <3>3. Tells(c, l) /\ chunks' = chunks
      BY <2>1, <3>1, <3>2 DEF FindLease, master
    <3>4. ClientMoves
      BY <3>1, <3>2, <3>3, TellsMoves
    <3> QED
      BY <2>1, <3>4, ClientOnly DEF FindLease, servers
  <2>2. CASE Learn(c)
    <3>1. PICK l : l = call[c].lease
      OBVIOUS
    <3>2. l \in Lease /\ l.primary \in Server /\ At(c, "learn")
      BY <2>2, <3>1 DEF Learn, At, CallInv, Types, ClientTypes, Calls
    <3>3. Found(c, l, FALSE) /\ cache' = [cache EXCEPT ![call[c].index] = l] /\ chunks' = chunks
      BY <2>2, <3>1 DEF Learn, master
    <3>4. CacheOK(cache')
      BY <3>2, <3>3, CacheIsOK DEF CacheOK
    <3>5. ClientMoves
      BY <3>2, <3>3, <3>4, FoundMoves
    <3> QED
      BY <2>2, <3>5, ClientOnly DEF Learn, servers
  <2> QED
    BY <1>4, <2>1, <2>2
<1>5. CASE Grant(c)
  BY <1>5, GrantKeeps
<1>6. CASE ConnectionBreaks(c)
  <2>1. ClientMoves
    BY <1>6, AttemptFailsMoves DEF ConnectionBreaks, At, master
  <2> QED
    BY <1>6, <2>1, ClientOnly DEF ConnectionBreaks, servers
<1>7. CASE OpenFails(c)
  <2>1. /\ UNCHANGED <<cache, buffer, lease, handler, messages>> /\ Fails("add")
        /\ Return(c, Failed) /\ call[c].pc = "open"
    BY <1>7 DEF OpenFails, At
  <2>2. CASE UNCHANGED <<master, store>>
    <3>1. ClientMoves
      BY <1>0, <1>a, <2>1, <2>2, ReturnMoves, CacheIsOK DEF master
    <3> QED
      BY <2>1, <2>2, <3>1, ClientOnly
  <2>3. CASE Ensured(0)
    <3>1. /\ Keeps /\ MetaInv' /\ meta' \in [Chunk -> Meta] /\ ServerTypes'
          /\ steady' \in [Chunk -> SUBSET Server] /\ chunks' \in 0..MaxChunks
          /\ chunks <= chunks' /\ chunks' \in Int
      BY <1>0, <2>1, <2>3, EnsuredKeeps
    <3>2. ClientMoves
      BY <1>a, <2>1, <3>1, ReturnMoves, CacheIsOK
    <3> QED
      BY <2>1, <3>1, <3>2, LeftType DEF Types, ClientMoves
  <2> QED
    BY <1>7, <2>2, <2>3 DEF OpenFails
<1>8. CASE NextChunkFails(c)
  <2>1. /\ UNCHANGED <<cache, buffer, lease, handler, messages>> /\ Fails("add")
        /\ Goes(c, "find", call[c].index, call[c].outer) /\ call[c].pc = "next"
    BY <1>8 DEF NextChunkFails, At
  <2>2. call[c].index \in Nat /\ call[c].index < chunks /\ call[c].outer \in Nat
    BY <2>1, CallIndex, MetaType
  <2>3. CASE UNCHANGED <<master, store>>
    <3>1. ClientMoves
      BY <1>0, <2>1, <2>2, <2>3, GoesMoves, CacheIsOK DEF master
    <3> QED
      BY <2>1, <2>3, <3>1, ClientOnly
  <2>4. CASE call[c].index + 1 \in Chunk /\ Ensured(call[c].index + 1)
    <3>1. PICK index \in Chunk : index = call[c].index + 1
      BY <2>4
    <3>2. /\ Keeps /\ MetaInv' /\ meta' \in [Chunk -> Meta] /\ ServerTypes'
          /\ steady' \in [Chunk -> SUBSET Server] /\ chunks' \in 0..MaxChunks
          /\ chunks <= chunks' /\ chunks' \in Int
      BY <2>1, <2>4, <3>1, EnsuredKeeps
    <3>3. call[c].index < chunks'
      BY <1>0, <2>2, <3>2
    <3>4. ClientMoves
      BY <2>1, <2>2, <3>2, <3>3, GoesMoves, CacheIsOK
    <3> QED
      BY <2>1, <3>2, <3>4, LeftType DEF Types, ClientMoves
  <2> QED
    BY <1>8, <2>3, <2>4 DEF NextChunkFails
<1>9. CASE FindLeaseFails(c)
  <2>1. /\ call[c].index \in Nat /\ call[c].index < chunks /\ call[c].outer \in Nat
        /\ call[c].outer + 1 \in Nat
    BY <1>9, CallIndex, MetaType DEF FindLeaseFails, At
  <2>2. CacheOK(cache')
    BY <1>9, CacheIsOK, NewCallType DEF FindLeaseFails, CacheOK, NoLease
  <2>3. CASE Return(c, Failed)
    BY <1>0, <1>a, <1>9, <2>2, <2>3, ReturnMoves, ClientOnly DEF FindLeaseFails, At, servers, master
  <2>4. CASE Goes(c, "find", call[c].index, call[c].outer + 1)
    <3>1. ClientMoves
      BY <1>0, <1>9, <2>1, <2>2, <2>4, GoesMoves DEF FindLeaseFails, At, master
    <3> QED
      BY <1>9, <3>1, ClientOnly DEF FindLeaseFails, servers
  <2> QED
    BY <1>9, <2>3, <2>4 DEF FindLeaseFails
<1>10. CASE PushFails(c)
  <2>1. ClientMoves
    BY <1>10, AttemptFailsMoves DEF PushFails, At, master
  <2> QED
    BY <1>10, <2>1, ClientOnly DEF PushFails
<1>11. CASE DeadlinePasses(c)
  <2>1. ClientMoves
    BY <1>11, AttemptFailsMoves DEF DeadlinePasses, At, master
  <2> QED
    BY <1>11, <2>1, ClientOnly DEF DeadlinePasses, servers
<1> QED
  BY <1>1, <1>2, <1>3, <1>4, <1>5, <1>6, <1>7, <1>8, <1>9, <1>10, <1>11 DEF CallFails

\* What the types say of a handler.
LEMMA HandlerType ==
  Types => \A s \in Server, k \in Chunk :
    /\ handler[s][k] \in Handler \cup {NoHandler}
    /\ handler[s][k].there => handler[s][k] \in Handler
  BY DEF Types, ServerTypes, NoHandler

\* What the primary makes of an answer.
LEMMA ToldHandler ==
  ASSUME Types, NEW m \in Mutation, NEW ok \in BOOLEAN, Told(m, ok)
  PROVE  /\ handler' \in [Server -> [Chunk -> Handler \cup {NoHandler}]]
         /\ \A s \in Server, k \in Chunk :
              \/ /\ handler'[s][k] = handler[s][k]
                 /\ ~(/\ s = m.from /\ k = m.chunk /\ handler[s][k].there
                      /\ handler[s][k].id = m.id /\ m.to \in handler[s][k].todo)
              \/ /\ s = m.from /\ k = m.chunk /\ handler[s][k].there
                 /\ handler[s][k].id = m.id /\ m.to \in handler[s][k].todo
                 /\ handler'[s][k].there /\ handler'[s][k].id = handler[s][k].id
                 /\ handler'[s][k].kind = handler[s][k].kind
                 /\ handler'[s][k].offset = handler[s][k].offset
                 /\ handler'[s][k].todo = handler[s][k].todo \ {m.to}
                 /\ handler'[s][k].ok => handler[s][k].ok /\ ok
<1>0. m.from \in Server /\ m.chunk \in Chunk
  BY DEF Mutation
<1>1. PICK h : h = handler[m.from][m.chunk]
  OBVIOUS
<1>2. CASE ~(h.there /\ h.id = m.id /\ m.to \in h.todo)
  <2>1. handler' = handler
    BY <1>1, <1>2 DEF Told
  <2> QED
    BY <1>1, <1>2, <2>1 DEF Types, ServerTypes
<1>3. CASE h.there /\ h.id = m.id /\ m.to \in h.todo
  <2>1. PICK g : g = [h EXCEPT !.todo = h.todo \ {m.to}, !.ok = h.ok /\ ok]
    OBVIOUS
  <2>2. h \in Handler
    BY <1>0, <1>1, <1>3, HandlerType
  <2>3. /\ g \in Handler /\ g.there /\ g.id = h.id /\ g.kind = h.kind /\ g.offset = h.offset
        /\ g.todo = h.todo \ {m.to} /\ (g.ok => h.ok /\ ok)
    <3>1. PICK b \in BOOLEAN : b = (h.ok /\ ok)
      OBVIOUS
    <3>2. g = [h EXCEPT !.todo = h.todo \ {m.to}, !.ok = b]
      BY <2>1, <3>1
    <3> QED
      BY <2>2, <1>3, <3>1, <3>2 DEF Handler
  <2>4. handler' = [handler EXCEPT ![m.from][m.chunk] = g]
    BY <1>1, <1>3, <2>1 DEF Told
  <2>5. /\ handler'[m.from][m.chunk] = g
        /\ \A s \in Server, k \in Chunk : ~(s = m.from /\ k = m.chunk) => handler'[s][k] = handler[s][k]
        /\ handler' \in [Server -> [Chunk -> Handler \cup {NoHandler}]]
    BY <1>0, <2>3, <2>4 DEF Types, ServerTypes
  <2>6. ASSUME NEW s \in Server, NEW k \in Chunk, s = m.from, k = m.chunk
        PROVE  /\ handler[s][k].there /\ handler[s][k].id = m.id /\ m.to \in handler[s][k].todo
               /\ handler'[s][k].there /\ handler'[s][k].id = handler[s][k].id
               /\ handler'[s][k].kind = handler[s][k].kind
               /\ handler'[s][k].offset = handler[s][k].offset
               /\ handler'[s][k].todo = handler[s][k].todo \ {m.to}
               /\ handler'[s][k].ok => handler[s][k].ok /\ ok
    <3>1. handler[s][k] = h /\ handler'[s][k] = g
      BY <1>1, <2>5, <2>6
    <3>2. g.there /\ (g.ok => h.ok /\ ok)
      BY <2>3
    <3>3. /\ g.id = h.id /\ g.kind = h.kind /\ g.offset = h.offset
          /\ g.todo = h.todo \ {m.to} /\ h.there /\ h.id = m.id /\ m.to \in h.todo
      BY <1>3, <2>3
    <3> HIDE DEF Handler
    <3> QED
      BY <3>1, <3>2, <3>3, Zenon
  <2>7. ASSUME NEW s \in Server, NEW k \in Chunk, ~(s = m.from /\ k = m.chunk)
        PROVE  handler'[s][k] = handler[s][k]
    BY <2>5, <2>7
  <2> QED
    BY <2>5, <2>6, <2>7
<1> QED
  BY <1>2, <1>3

\* The steps of a server that write and send nothing.
LEMMA ServerStepKeeps ==
  ASSUME Types, MetaInv, CallInv,
         \/ \E r \in requests : Refuse(r) \/ DataMissing(r)
         \/ \E m \in applies : ForwardFails(m)
         \/ \E s \in Server, k \in Chunk : FinishAppend(s, k) \/ LeaseExpires(s, k)
         \/ \E s \in Server : Restart(s)
  PROVE  Keeps /\ MetaInv' /\ Types' /\ ClientMoves
<1>0. chunks \in Int /\ chunks <= chunks /\ 0 \in Nat
  BY MetaType
<1>1. ASSUME NEW r \in requests, Refuse(r) \/ DataMissing(r)
      PROVE  Keeps /\ MetaInv' /\ Types' /\ ClientMoves
  <2>1. PICK id \in Attempt : id = r.id
    BY DEF Types, ServerTypes, Request
  <2>2. /\ UNCHANGED <<master, servers, applies, left>> /\ requests' \subseteq requests
        /\ Answered(id, "refused", 0) \/ Answered(id, "failed", 0)
    BY <1>1, <2>1 DEF Refuse, DataMissing, Prepared
  <2>3. ClientMoves
    BY <1>0, <2>1, <2>2, AnsweredMoves DEF master
  <2>4. MetaInv'
    BY <2>2, StillMeta DEF master, servers
  <2>5. Keeps
    BY <2>2, SameRefl DEF Keeps, NothingNew, master, servers
  <2> QED
    BY <2>2, <2>3, <2>4, <2>5 DEF Types, ServerTypes, ClientMoves, master, servers
<1>2. ASSUME NEW m \in applies, ForwardFails(m)
      PROVE  Keeps /\ MetaInv' /\ Types' /\ ClientMoves
  <2>1. /\ Told(m, FALSE) /\ UNCHANGED <<master, client, buffer, store, lease, messages>>
        /\ UNCHANGED left \/ Fails("forward")
    BY <1>2 DEF ForwardFails
  <2>2. m \in Mutation
    BY DEF Types, ServerTypes
  <2>3. /\ handler' \in [Server -> [Chunk -> Handler \cup {NoHandler}]]
        /\ \A s \in Server, k \in Chunk : SameHandler(handler[s][k], handler'[s][k])
    <3>1. PICK ok \in BOOLEAN : ok = FALSE /\ Told(m, ok)
      BY <2>1
    <3>2. /\ handler' \in [Server -> [Chunk -> Handler \cup {NoHandler}]]
          /\ \A s \in Server, k \in Chunk :
               \/ handler'[s][k] = handler[s][k]
               \/ /\ handler[s][k].there /\ handler'[s][k].id = handler[s][k].id
                  /\ handler'[s][k].kind = handler[s][k].kind
                  /\ handler'[s][k].offset = handler[s][k].offset
                  /\ handler'[s][k].ok => ok
      BY <2>2, <3>1, ToldHandler
    <3> QED
      BY <3>1, <3>2 DEF SameHandler
  <2>4. left' \in Left
    BY <2>1, LeftType
  <2>5. ClientMoves
    BY <1>0, <2>1, NoChange DEF master
  <2>6. MetaInv'
    BY <2>1, StillMeta DEF master
  <2>7. Keeps
    BY <2>1, <2>3, SameRefl DEF Keeps, NothingNew, master, messages
  <2> QED
    BY <2>1, <2>3, <2>4, <2>5, <2>6, <2>7
    DEF Types, ServerTypes, ClientMoves, master, messages
<1>3. ASSUME NEW s \in Server, NEW k \in Chunk, FinishAppend(s, k)
      PROVE  Keeps /\ MetaInv' /\ Types' /\ ClientMoves
  <2>1. PICK h : h = handler[s][k] /\ h \in Handler
    BY <1>3, HandlerType DEF FinishAppend
  <2>2. PICK id \in Attempt, offset \in Nat, kind \in {"failed", "next", "ok"} : id = h.id /\ offset = h.offset
          /\ kind = (IF ~h.ok THEN "failed" ELSE IF h.kind = "pad" THEN "next" ELSE "ok")
    BY <2>1 DEF Handler
  <2>3. /\ UNCHANGED <<master, buffer, store, lease, messages, left>>
        /\ Answered(id, kind, offset)
        /\ handler' = [handler EXCEPT ![s][k] = NoHandler]
    BY <1>3, <2>1, <2>2 DEF FinishAppend, Released
  <2>4. ClientMoves
    BY <1>0, <2>3, AnsweredMoves DEF master
  <2>5. /\ handler' \in [Server -> [Chunk -> Handler \cup {NoHandler}]]
        /\ \A t \in Server, l \in Chunk : handler'[t][l] = handler[t][l] \/ handler'[t][l] = NoHandler
    BY <2>3 DEF Types, ServerTypes
  <2>6. \A t \in Server, l \in Chunk : SameHandler(handler[t][l], handler'[t][l])
    BY <2>5, SameRefl DEF SameHandler, NoHandler
  <2>7. MetaInv'
    BY <2>3, StillMeta DEF master
  <2>8. Keeps
    BY <2>3, <2>6, SameRefl DEF Keeps, NothingNew, master, messages
  <2> QED
    BY <2>3, <2>4, <2>5, <2>7, <2>8 DEF Types, ServerTypes, ClientMoves, master, messages
<1>4. ASSUME NEW s \in Server, NEW k \in Chunk, LeaseExpires(s, k)
      PROVE  Keeps /\ MetaInv' /\ Types' /\ ClientMoves
  <2>1. /\ UNCHANGED <<master, client, buffer, store, handler, messages>> /\ Loses
        /\ lease' = [lease EXCEPT ![s][k] = NotHeld]
    BY <1>4 DEF LeaseExpires
  <2>2. NotHeld \in [held : BOOLEAN, others : SUBSET Server] /\ ~NotHeld.held
    BY DEF NotHeld
  <2>3. /\ lease' \in [Server -> [Chunk -> [held : BOOLEAN, others : SUBSET Server]]]
        /\ \A t \in Server, l \in Chunk : lease'[t][l].held => lease'[t][l] = lease[t][l]
    BY <2>1, <2>2 DEF Types, ServerTypes
  <2>4. left' \in Left
    BY <2>1, LeftType
  <2>5. ClientMoves
    BY <1>0, <2>1, NoChange DEF master
  <2>6. MetaInv'
    BY <2>1, <2>3, StillMeta DEF master
  <2>7. Keeps
    BY <2>1, SameRefl DEF Keeps, NothingNew, master, messages
  <2> QED
    BY <2>1, <2>3, <2>4, <2>5, <2>6, <2>7
    DEF Types, ServerTypes, ClientMoves, master, messages
<1>5. ASSUME NEW s \in Server, Restart(s)
      PROVE  Keeps /\ MetaInv' /\ Types' /\ ClientMoves
  <2>1. /\ UNCHANGED <<master, client, store>> /\ Fails("restart")
        /\ lease' = [lease EXCEPT ![s] = [k \in Chunk |-> NotHeld]]
        /\ requests' \subseteq requests /\ applies' \subseteq applies
    BY <1>5 DEF Restart
  <2>2. NotHeld \in [held : BOOLEAN, others : SUBSET Server] /\ ~NotHeld.held
    BY DEF NotHeld
  <2>3. /\ lease' \in [Server -> [Chunk -> [held : BOOLEAN, others : SUBSET Server]]]
        /\ \A t \in Server, l \in Chunk : lease'[t][l].held => lease'[t][l] = lease[t][l]
    BY <2>1, <2>2 DEF Types, ServerTypes
  <2>4. left' \in Left
    BY <2>1, LeftType
  <2>5. ClientMoves
    BY <1>0, <2>1, NoChange DEF master
  <2>6. MetaInv'
    BY <2>1, <2>3, StillMeta DEF master
  <2>7. ASSUME NEW q \in Server, NEW k \in Chunk
        PROVE  /\ handler'[q][k] \in Handler \cup {NoHandler}
               /\ SameHandler(handler[q][k], handler'[q][k])
    <3>1. handler'[q][k] = IF q = s THEN NoHandler
             ELSE IF handler[q][k].there /\ s \in handler[q][k].todo
             THEN [handler[q][k] EXCEPT !.todo = @ \ {s}, !.ok = FALSE]
             ELSE handler[q][k]
      BY <1>5 DEF Restart
    <3>2. CASE q # s /\ handler[q][k].there /\ s \in handler[q][k].todo
      <4>1. PICK h : h = handler[q][k] /\ h \in Handler
        BY <3>2, HandlerType
      <4>2. handler'[q][k] = [h EXCEPT !.todo = h.todo \ {s}, !.ok = FALSE]
        BY <3>1, <3>2, <4>1
      <4>3. PICK g : g = [h EXCEPT !.todo = h.todo \ {s}, !.ok = FALSE]
        OBVIOUS
      <4>4. g \in Handler /\ g.id = h.id /\ g.kind = h.kind /\ g.offset = h.offset /\ ~g.ok
        BY <4>1, <4>3 DEF Handler
      <4> QED
        BY <3>2, <4>1, <4>2, <4>3, <4>4 DEF SameHandler
    <3>3. CASE q = s
      BY <3>1, <3>3 DEF SameHandler, NoHandler
    <3> QED
      BY <3>1, <3>2, <3>3, HandlerType, SameRefl
  <2>8. handler' \in [Server -> [Chunk -> Handler \cup {NoHandler}]]
    <3>1. \E f : handler' = [q \in Server |-> [k \in Chunk |-> f[q][k]]]
      <4>1. handler' = [q \in Server |-> [k \in Chunk |-> handler'[q][k]]]
        BY <1>5 DEF Restart
      <4> QED
        BY <4>1
    <3> QED
      BY <2>7, <3>1
  <2>9. Keeps
    BY <2>1, <2>7, SameRefl DEF Keeps, NothingNew, master
  <2> QED
    BY <2>1, <2>3, <2>4, <2>5, <2>6, <2>8, <2>9 DEF Types, ServerTypes, ClientMoves, master
<1> QED
  BY <1>1, <1>2, <1>3, <1>4, <1>5

-----------------------------------------------------------------------------
(* What every step keeps: first those that write and send nothing.         *)

SafeInv == InFlight /\ RequestInv /\ MutationInv /\ CellInv /\ HandlerInv

\* Requests go on to be of attempts that nobody has written.
LEMMA KeepsRequests ==
  ASSUME Types, InFlight, RequestInv, Keeps, ClientMoves
  PROVE  InFlight' /\ RequestInv'
<1>1. ASSUME NEW c \in Caller, At(c, "sent")'
      PROVE  /\ \A r \in requests' : r.id = Id(c)' => r.chunk = call'[c].index
             /\ \A s \in Server, k \in Chunk :
                  handler'[s][k].there /\ handler'[s][k].id = Id(c)' => k = call'[c].index
  <2>1. call'[c] = call[c] /\ At(c, "sent") /\ Id(c)' = Id(c)
    BY <1>1 DEF ClientMoves, Grows, At, Id
  <2> QED
    BY <2>1 DEF InFlight, Keeps, NothingNew, SameHandler
<1>2. ASSUME NEW r \in requests'
      PROVE  /\ Begun(r.id)' /\ Unwritten(r.id)'
             /\ \A q \in requests' : q.id = r.id => q = r
             /\ \A m \in applies' : m.id # r.id
             /\ \A s \in Server, k \in Chunk : handler'[s][k].there => handler'[s][k].id # r.id
  <2>1. r \in requests /\ r.id \in Attempt
    BY DEF Keeps, NothingNew, Types, ServerTypes, Request
  <2>2. Begun(r.id)'
    <3> PICK x : x = r.id
      OBVIOUS
    <3>1. Begun(x) /\ x \in Attempt
      BY <2>1 DEF RequestInv
    <3>2. Begun(x)'
      BY <3>1 DEF ClientMoves, Grows
    <3> QED
      BY <3>2
  <2>3. Unwritten(r.id)'
    BY <2>1 DEF Unwritten, RequestInv, Keeps, NothingNew, SameFile
  <2> QED
    BY <2>1, <2>2, <2>3 DEF RequestInv, Keeps, NothingNew, SameHandler
<1> QED
  BY <1>1, <1>2 DEF InFlight, RequestInv

\* Mutations under way go on to be ordered behind the primary.
LEMMA KeepsMutations ==
  ASSUME Types, MetaInv, MutationInv, NothingNew, Grows, MetaInv', Types'
  PROVE  MutationInv'
<1> SUFFICES ASSUME NEW m \in applies'
    PROVE  /\ Begun(m.id)'
           /\ m.offset <= ChunkSize /\ End(m) <= ChunkSize
           /\ m.version \in 1..meta'[m.chunk].version
           /\ \A n \in applies' : n.id = m.id /\ n.to = m.to => n = m
           /\ \A k \in Chunk, i \in Cell : store'[m.to][k].cell[i] # m.id
           /\ m.version = meta'[m.chunk].version => Ordered(m)'
  BY DEF MutationInv
<1>1. /\ m \in applies /\ m.id \in Attempt /\ m.chunk \in Chunk /\ m.to \in Server
      /\ m.version \in Nat
  BY DEF NothingNew, Types, ServerTypes, Mutation
<1>2. Begun(m.id)'
  <2> PICK x : x = m.id
    OBVIOUS
  <2>1. Begun(x) /\ x \in Attempt
    BY <1>1 DEF MutationInv
  <2>2. Begun(x)'
    BY <2>1 DEF Grows
  <2> QED
    BY <2>2
<1>3. m.version \in 1..meta[m.chunk].version /\ meta[m.chunk].version <= meta'[m.chunk].version
      /\ meta[m.chunk].version \in Nat /\ meta'[m.chunk].version \in Nat
  <2>1. meta[m.chunk].version \in Nat
    BY <1>1, MetaType
  <2>2. meta'[m.chunk].version \in Nat
    BY <1>1 DEF Types, Meta
  <2> QED
    BY <1>1, <2>1, <2>2 DEF MutationInv, NothingNew, SameMeta
<1>4. m.version = meta'[m.chunk].version => Ordered(m)'
  <2> SUFFICES ASSUME m.version = meta'[m.chunk].version PROVE Ordered(m)'
    OBVIOUS
  <2>1. /\ m.version = meta[m.chunk].version
        /\ meta'[m.chunk].primary = meta[m.chunk].primary
    BY <1>1, <1>3 DEF NothingNew, SameMeta
  <2>2. Ordered(m) /\ meta[m.chunk].primary \in Server
    BY <1>1, <2>1, MetaType DEF MutationInv, Ordered
  <2>3. PICK q : q = meta[m.chunk].primary
    OBVIOUS
  <2>4. /\ q # None /\ q \in Server /\ m.to # q
        /\ End(m) <= store[q][m.chunk].length
        /\ \A i \in Cell : m.offset <= i /\ i < End(m) => store[q][m.chunk].cell[i] = Mark(m)
    BY <2>2, <2>3 DEF Ordered
  <2>5. /\ store'[q][m.chunk].length = store[q][m.chunk].length
        /\ store'[q][m.chunk].cell = store[q][m.chunk].cell
    BY <1>1, <2>4 DEF NothingNew, SameFile
  <2>6. meta'[m.chunk].primary = q
    BY <2>1, <2>3
  <2> QED
    BY <2>1, <2>4, <2>5, <2>6 DEF Ordered, End, Mark
<1>5. m.version \in 1..meta'[m.chunk].version
  BY <1>1, <1>3
<1>6. \A k \in Chunk, i \in Cell : store'[m.to][k].cell[i] # m.id
  BY <1>1 DEF MutationInv, NothingNew, SameFile
<1> QED
  BY <1>1, <1>2, <1>4, <1>5, <1>6 DEF MutationInv, NothingNew

\* Chunks go on to hold no more of an attempt than its record.
LEMMA KeepsCells ==
  ASSUME Types, CellInv, NothingNew, Grows
  PROVE  CellInv'
<1> SUFFICES ASSUME NEW s \in Server, NEW k \in Chunk, NEW i \in Cell, NEW x,
                    x = store'[s][k].cell[i], x # Blank
    PROVE  /\ i < store'[s][k].length /\ Begun(x)'
           /\ \A j \in Cell : store'[s][k].cell[j] = x => j - i < SizeOf(x)
  BY DEF CellInv, Begun, At
<1>1. /\ store'[s][k].cell = store[s][k].cell /\ store'[s][k].length = store[s][k].length
  BY DEF NothingNew, SameFile
<1>3. x \in Attempt
  BY <1>1, FileType
<1>4. Begun(x) /\ i < store[s][k].length /\ \A j \in Cell : store[s][k].cell[j] = x => j - i < SizeOf(x)
  BY <1>1 DEF CellInv
<1>5. Begun(x)'
  BY <1>3, <1>4 DEF Grows
<1> QED
  BY <1>1, <1>4, <1>5

\* Handlers go on to know which replicas have their record.
LEMMA KeepsHandlers ==
  ASSUME Types, HandlerInv, NothingNew, Grows, Types', MutationInv
  PROVE  HandlerInv'
<1> SUFFICES ASSUME NEW s \in Server, NEW k \in Chunk, handler'[s][k].there, NEW h,
                    h = handler'[s][k]
    PROVE  /\ Begun(h.id)'
           /\ \A m \in applies' : m.id = h.id =>
                m.from = s /\ m.chunk = k /\ m.kind = h.kind /\ m.offset = h.offset
           /\ h.kind = "write" => h.offset + SizeOf(h.id) <= ChunkSize
           /\ h.kind = "write" /\ h.ok =>
                Doomed(k, h)' \/ \A t \in steady'[k] : t \in h.todo \/ HasRecord(t, k, h)'
  BY DEF HandlerInv
<1>1. PICK g : g = handler[s][k]
  OBVIOUS
<1>2. /\ g.there /\ h.id = g.id /\ h.kind = g.kind /\ h.offset = g.offset
      /\ h.ok => g.ok /\ h.todo = g.todo
  BY <1>1 DEF NothingNew, SameHandler
<1>3. g \in Handler /\ g.id \in Attempt /\ g.todo \subseteq Server
  BY <1>1, <1>2, HandlerType DEF Handler
<1>4. /\ Begun(g.id)
      /\ \A m \in applies : m.id = g.id =>
           m.from = s /\ m.chunk = k /\ m.kind = g.kind /\ m.offset = g.offset
      /\ g.kind = "write" => g.offset + SizeOf(g.id) <= ChunkSize
      /\ g.kind = "write" /\ g.ok =>
           Doomed(k, g) \/ \A t \in steady[k] : t \in g.todo \/ HasRecord(t, k, g)
  BY <1>1, <1>2 DEF HandlerInv
<1>5. Begun(h.id)'
  <2> PICK x : x = g.id
    OBVIOUS
  <2>1. Begun(x)'
    BY <1>3, <1>4 DEF Grows
  <2> QED
    BY <1>2, <2>1 DEF Begun
<1>6. ASSUME h.kind = "write", h.ok, Doomed(k, g) PROVE Doomed(k, h)'
  <2>1. PICK t \in g.todo : \A m \in applies : m.id = g.id /\ m.to = t => m.version < store[t][k].version
    BY <1>6 DEF Doomed
  <2>2. /\ store[t][k].version \in Nat /\ store[t][k].version <= store'[t][k].version
        /\ store'[t][k].version \in Nat /\ t \in h.todo
    <3>1. t \in Server /\ t \in h.todo
      BY <1>2, <1>3, <1>6, <2>1
    <3>2. store'[t][k].version \in Nat
      BY <3>1 DEF Types, ServerTypes, File
    <3> QED
      BY <3>1, <3>2, FileType DEF NothingNew, SameFile
  <2>3. \A m \in applies' : m \in applies /\ m.version \in Nat
    BY DEF NothingNew, Types, ServerTypes, Mutation
  <2>4. \A m \in applies' : m.id = h.id /\ m.to = t => m.version < store'[t][k].version
    BY <1>2, <2>1, <2>2, <2>3
  <2> QED
    BY <2>2, <2>4 DEF Doomed
<1>7. ASSUME h.kind = "write", h.ok, NEW t \in steady'[k],
             \A u \in steady[k] : u \in g.todo \/ HasRecord(u, k, g)
      PROVE  t \in h.todo \/ HasRecord(t, k, h)'
  <2>1. t \in steady[k] /\ t \in Server
    BY <1>7, MetaType DEF NothingNew
  <2>2. t \in g.todo \/ HasRecord(t, k, g)
    BY <1>7, <2>1
  <2>3. HasRecord(t, k, g) => HasRecord(t, k, h)'
    BY <1>2, <2>1 DEF HasRecord, NothingNew, SameFile
  <2> QED
    BY <1>2, <1>7, <2>2, <2>3
<1> QED
  BY <1>2, <1>4, <1>5, <1>6, <1>7 DEF NothingNew

LEMMA KeepsSafe ==
  ASSUME Types, MetaInv, SafeInv, Keeps, ClientMoves, Types', MetaInv'
  PROVE  SafeInv'
<1>1. NothingNew /\ Grows
  BY DEF Keeps, ClientMoves
<1>2. InFlight' /\ RequestInv'
  BY KeepsRequests DEF SafeInv
<1> QED
  BY <1>1, <1>2, KeepsMutations, KeepsCells, KeepsHandlers DEF SafeInv

\* The attempt of a call that has pushed nothing for it yet is new.
LEMMA NewAttempt ==
  ASSUME Types, NEW c \in Caller, At(c, "push"), NEW x, Begun(x), x = Id(c)
  PROVE  FALSE
<1>1. x[1] = c /\ x[2] = call[c].number /\ call[c].number \in Nat
  BY DEF Id, Types, ClientTypes, Calls
<1> QED
  BY <1>1 DEF Begun

\* An attempt is pushed: nobody knows it yet.
LEMMA PushKeeps ==
  ASSUME Types, MetaInv, CallInv, SafeInv, NEW c \in Caller, Push(c)
  PROVE  Types' /\ MetaInv' /\ CallInv' /\ SafeInv'
<1>0. /\ call[c] \in Calls /\ call[c].pc = "push" /\ call[c].number \in Nat
      /\ call[c].lease.primary \in Server /\ call[c].lease.version \in Nat
      /\ call[c].number > 0 /\ call[c].index \in Chunk
  BY CallIndex DEF Push, At, Types, ClientTypes, Calls, CallInv, Lease
<1>1. PICK n : n = [id |-> Id(c), chunk |-> call[c].index, version |-> call[c].lease.version,
                   to |-> call[c].lease.primary]
  OBVIOUS
<1>2. /\ UNCHANGED <<master, cache, result, store, lease, handler, applies, left>>
      /\ call' = [call EXCEPT ![c].pc = "sent"] /\ requests' = requests \cup {n}
  BY <1>1 DEF Push
<1>3. Id(c) \in Attempt /\ n \in Request /\ n.id = Id(c) /\ n.chunk = call[c].index
  BY <1>0, <1>1 DEF Id, Attempt, Request
<1>4. /\ call' \in [Caller -> Calls] /\ \A d \in Caller \ {c} : call'[d] = call[d]
      /\ call'[c].pc = "sent" /\ call'[c].number = call[c].number
      /\ call'[c].index = call[c].index /\ call'[c].lease = call[c].lease
      /\ call'[c].inner = call[c].inner
  <2>1. PICK g : g = [call[c] EXCEPT !.pc = "sent"]
    OBVIOUS
  <2>2. /\ g \in Calls /\ g.pc = "sent" /\ g.number = call[c].number
        /\ g.index = call[c].index /\ g.lease = call[c].lease /\ g.inner = call[c].inner
    BY <1>0, <2>1 DEF Calls
  <2>3. call' = [call EXCEPT ![c] = g]
    BY <1>2, <2>1
  <2> QED
    BY <2>2, <2>3 DEF Types, ClientTypes
<1>5. Types'
  BY <1>2, <1>3, <1>4 DEF Types, ClientTypes, ServerTypes, master
<1>6. MetaInv'
  BY <1>2, StillMeta DEF master
<1>7. CallInv'
  <2> SUFFICES ASSUME NEW d \in Caller
      PROVE  /\ call'[d].inner < Inner
             /\ call'[d].pc # "done" => result'[d] = Nothing
             /\ IF call'[d].pc \in {"open", "done"} THEN call'[d].index = 0
                ELSE call'[d].index < chunks'
             /\ call'[d].pc \in {"learn", "push", "sent"} => call'[d].lease.primary \in Server
             /\ call'[d].pc \in {"push", "sent"} => call'[d].number > 0
    BY <1>2 DEF CallInv
  <2>1. CASE d = c
    <3>1. call[c].index < chunks /\ call[c].inner < Inner /\ result[c] = Nothing
      BY <1>0 DEF CallInv
    <3> QED
      BY <1>0, <1>2, <1>4, <2>1, <3>1 DEF master
  <2>2. CASE d # c
    BY <1>2, <1>4, <2>2 DEF CallInv, master
  <2> QED
    BY <2>1, <2>2
<1>8. Grows
  <2> SUFFICES ASSUME NEW x \in Attempt, Begun(x) PROVE Begun(x)'
    BY DEF Grows
  <2>1. CASE x[1] = c
    BY <1>4, <2>1 DEF Begun, At
  <2>2. CASE x[1] # c
    <3>1. call'[x[1]] = call[x[1]]
      BY <1>4, <2>2 DEF Attempt
    <3> QED
      BY <3>1 DEF Begun, At
  <2> QED
    BY <2>1, <2>2
<1>9. NothingNew
  BY <1>2, SameRefl DEF NothingNew, master
<1>10. MutationInv' /\ CellInv' /\ HandlerInv'
  BY <1>5, <1>6, <1>8, <1>9, KeepsMutations, KeepsCells, KeepsHandlers DEF SafeInv
<1>11. /\ \A r \in requests : r.id # Id(c)
       /\ \A m \in applies : m.id # Id(c)
       /\ \A s \in Server, k \in Chunk : handler[s][k].there => handler[s][k].id # Id(c)
       /\ Unwritten(Id(c))
  <2>1. ASSUME NEW x, Begun(x) PROVE x # Id(c)
    BY <1>0, <2>1, NewAttempt DEF At
  <2>2. \A s \in Server, k \in Chunk, i \in Cell :
          store[s][k].cell[i] = Blank \/ Begun(store[s][k].cell[i])
    BY DEF SafeInv, CellInv
  <2>3. Id(c) # Blank
    BY DEF Id, Blank
  <2>4. Unwritten(Id(c))
    BY <2>1, <2>2, <2>3 DEF Unwritten
  <2> QED
    BY <2>1, <2>4 DEF SafeInv, RequestInv, MutationInv, HandlerInv
<1>12. Begun(n.id)'
  <2>1. PICK x : x = n.id
    OBVIOUS
  <2>2. x[1] = c /\ x[2] = call[c].number
    BY <1>3, <2>1 DEF Id
  <2>3. Begun(x)'
    BY <1>0, <1>4, <2>2 DEF Begun, At
  <2> QED
    BY <2>1, <2>3
<1>13. RequestInv'
  <2> SUFFICES ASSUME NEW r \in requests'
      PROVE  /\ Begun(r.id)' /\ Unwritten(r.id)'
             /\ \A q \in requests' : q.id = r.id => q = r
             /\ \A m \in applies' : m.id # r.id
             /\ \A s \in Server, k \in Chunk : handler'[s][k].there => handler'[s][k].id # r.id
    BY DEF RequestInv
  <2>1. CASE r = n
    BY <1>2, <1>3, <1>11, <1>12, <2>1 DEF Unwritten
  <2>2. CASE r \in requests
    <3>1. PICK x \in Attempt : x = r.id
      BY <2>2 DEF Types, ServerTypes, Request
    <3>2. Begun(x)'
      BY <1>8, <2>2, <3>1 DEF Grows, SafeInv, RequestInv
    <3>3. x # Id(c) /\ \A q \in requests' : q.id = x => q = r
      BY <1>2, <1>3, <1>11, <2>2, <3>1 DEF SafeInv, RequestInv
    <3>4. Unwritten(x)'
      BY <1>2, <2>2, <3>1 DEF SafeInv, RequestInv, Unwritten
    <3> QED
      BY <1>2, <2>2, <3>1, <3>2, <3>3, <3>4 DEF SafeInv, RequestInv
  <2> QED
    BY <1>2, <2>1, <2>2
<1>14. InFlight'
  <2> SUFFICES ASSUME NEW d \in Caller, At(d, "sent")'
      PROVE  /\ \A r \in requests' : r.id = Id(d)' => r.chunk = call'[d].index
             /\ \A s \in Server, k \in Chunk :
                  handler'[s][k].there /\ handler'[s][k].id = Id(d)' => k = call'[d].index
    BY DEF InFlight
  <2>1. CASE d = c
    <3>1. Id(d)' = Id(c)
      BY <1>4, <2>1 DEF Id
    <3> QED
      BY <1>2, <1>3, <1>4, <1>11, <2>1, <3>1
  <2>2. CASE d # c
    <3>1. Id(d)' = Id(d) /\ At(d, "sent") /\ call'[d] = call[d] /\ Id(d) # Id(c)
      BY <1>4, <2>2 DEF Id, At
    <3> QED
      BY <1>2, <1>3, <3>1 DEF SafeInv, InFlight
  <2> QED
    BY <2>1, <2>2
<1> QED
  BY <1>5, <1>6, <1>7, <1>10, <1>13, <1>14 DEF SafeInv

-----------------------------------------------------------------------------
(* Mutations. *)

\* The size of an attempt is that of the record of its caller.
LEMMA SizeFact == \A x \in Attempt : SizeOf(x) \in 1..ChunkSize /\ SizeOf(x) \in Nat /\ x # Blank
<1>1. ASSUME NEW x \in Attempt PROVE SizeOf(x) \in 1..ChunkSize /\ x # Blank
  <2>1. PICK c \in Caller, n \in Nat : x = <<c, n>>
    BY DEF Attempt
  <2>2. x # Blank /\ x[1] \in Caller
    BY <2>1 DEF Blank
  <2> QED
    BY <2>2, RecordAppendAssumption DEF SizeOf
<1> QED
  BY <1>1, RecordAppendAssumption

\* Where a mutation ends, and what it leaves.
LEMMA EndFact ==
  ASSUME NEW m \in Mutation
  PROVE  /\ End(m) \in Nat /\ m.offset \in Nat /\ m.id \in Attempt /\ m.kind \in Kind
         /\ m.kind = "pad" => End(m) = ChunkSize /\ Mark(m) = Blank
         /\ m.kind = "write" => End(m) = m.offset + SizeOf(m.id) /\ Mark(m) = m.id
<1>1. m.offset \in Nat /\ m.id \in Attempt /\ m.kind \in {"write", "pad"}
  BY DEF Mutation, Kind
<1>2. SizeOf(m.id) \in Nat /\ ChunkSize \in Nat
  BY <1>1, SizeFact, RecordAppendAssumption
<1> QED
  BY <1>1, <1>2 DEF End, Mark, Kind

\* What Store::WriteAt and Store::PadTo make of a chunk.
LEMMA WrittenFile ==
  ASSUME NEW f \in File, NEW m \in Mutation, m.offset <= ChunkSize, End(m) <= ChunkSize
  PROVE  /\ Written(f, m) \in File /\ Written(f, m).version = f.version
         /\ f.length <= Written(f, m).length /\ End(m) <= Written(f, m).length
         /\ \A i \in Cell : Written(f, m).cell[i] =
              IF m.offset <= i /\ i < End(m) THEN Mark(m) ELSE f.cell[i]
<1> DEFINE after == IF m.kind = "pad" THEN ChunkSize ELSE m.offset + SizeOf(m.id)
           size == IF f.length > after THEN f.length ELSE after
           cells == [i \in Cell |-> IF i \notin m.offset..(after - 1) THEN f.cell[i]
                                   ELSE IF m.kind = "pad" THEN Blank ELSE m.id]
<1>1. /\ after = End(m) /\ after \in Nat /\ m.offset \in Nat /\ m.id \in Attempt
      /\ ChunkSize \in Nat
  BY EndFact, RecordAppendAssumption DEF End
<1>2. /\ f.length \in 0..ChunkSize /\ f.cell \in [Cell -> Attempt \cup {Blank}]
  BY DEF File
<1>3. size \in 0..ChunkSize /\ f.length <= size /\ End(m) <= size
  BY <1>1, <1>2
<1>4. \A i \in Cell : i \in Int
  BY <1>1 DEF Cell
<1>5. /\ cells \in [Cell -> Attempt \cup {Blank}]
      /\ \A i \in Cell : cells[i] = IF m.offset <= i /\ i < End(m) THEN Mark(m) ELSE f.cell[i]
  BY <1>1, <1>2, <1>4 DEF Mark
<1>6. Written(f, m) = [f EXCEPT !.length = size, !.cell = cells]
  BY DEF Written
<1> HIDE DEF size, cells
<1>7. PICK g : g = [f EXCEPT !.length = size, !.cell = cells]
  OBVIOUS
<1>8. g \in File /\ g.version = f.version /\ g.length = size /\ g.cell = cells
  BY <1>3, <1>5, <1>7 DEF File
<1> QED
  BY <1>3, <1>5, <1>6, <1>7, <1>8

\* The store did what it was told, or it failed, before or after it was done.
LEMMA StoredFact ==
  ASSUME Types, NEW s \in Server, NEW k \in Chunk, NEW m \in Mutation, NEW ok \in BOOLEAN,
         Stored(s, k, m, ok), m.offset <= ChunkSize, End(m) <= ChunkSize
  PROVE  /\ left' \in Left
         /\ store' \in [Server -> [Chunk -> File]]
         /\ \A t \in Server, l \in Chunk : ~(t = s /\ l = k) => store'[t][l] = store[t][l]
         /\ store'[s][k] = store[s][k] \/ store'[s][k] = Written(store[s][k], m)
         /\ ok => store'[s][k] = Written(store[s][k], m)
<1>1. left' \in Left
  BY LeftType DEF Stored
<1>2. PICK f \in File : f = Written(store[s][k], m)
  BY FileType, WrittenFile
<1>3. store' = store \/ store' = [store EXCEPT ![s][k] = f]
  BY <1>2 DEF Stored
<1>4. ok => store' = [store EXCEPT ![s][k] = f]
  BY <1>2 DEF Stored
<1>5. store \in [Server -> [Chunk -> File]]
  BY DEF Types, ServerTypes
<1>6. CASE store' = [store EXCEPT ![s][k] = f]
  <2>1. /\ store'[s][k] = f /\ store' \in [Server -> [Chunk -> File]]
        /\ \A t \in Server, l \in Chunk : ~(t = s /\ l = k) => store'[t][l] = store[t][l]
    BY <1>5, <1>6
  <2> QED
    BY <1>1, <1>2, <2>1
<1>7. CASE store' = store /\ ~ok
  BY <1>1, <1>5, <1>7
<1> QED
  BY <1>3, <1>4, <1>6, <1>7

\* A file after a mutation that was done, or not.
Mutated(f, g, m) ==
  /\ g.version = f.version /\ f.length <= g.length
  /\ g.cell = f.cell \/ (End(m) <= g.length /\ \A i \in Cell : g.cell[i] =
       IF m.offset <= i /\ i < End(m) THEN Mark(m) ELSE f.cell[i])

LEMMA MutatedFact ==
  ASSUME Types, NEW s \in Server, NEW k \in Chunk, NEW m \in Mutation,
         m.offset <= ChunkSize, End(m) <= ChunkSize,
         store'[s][k] = store[s][k] \/ store'[s][k] = Written(store[s][k], m)
  PROVE  /\ Mutated(store[s][k], store'[s][k], m)
         /\ store'[s][k] = Written(store[s][k], m) =>
              /\ End(m) <= store'[s][k].length
              /\ \A i \in Cell : store'[s][k].cell[i] =
                   IF m.offset <= i /\ i < End(m) THEN Mark(m) ELSE store[s][k].cell[i]
<1>1. PICK f \in File : f = store[s][k]
  BY FileType
<1>2. f.length \in Nat /\ f.length <= f.length
  BY <1>1, FileType, RecordAppendAssumption
<1> QED
  BY <1>1, <1>2, WrittenFile DEF Mutated

\* The primary writes, or pads, at the end of its chunk.
HandledAppend(r, m, ok) ==
  LET s == r.to
      k == r.chunk
  IN
  /\ m \in Mutation /\ m.id = r.id /\ m.chunk = k /\ m.from = s /\ m.to = s
  /\ m.version = store[s][k].version /\ m.version > 0
  /\ m.offset = store[s][k].length /\ m.offset <= ChunkSize /\ End(m) <= ChunkSize
  /\ lease[s][k].others \subseteq Server /\ LeaseInv(s, k)
  /\ Mutated(store[s][k], store'[s][k], m)
  /\ \A t \in Server, l \in Chunk : ~(t = s /\ l = k) => store'[t][l] = store[t][l]
  /\ requests' = requests \ {r}
  /\ UNCHANGED <<master, lease>>
  /\ IF ok
     THEN /\ \A i \in Cell : m.offset <= i /\ i < End(m) => store'[s][k].cell[i] = Mark(m)
          /\ End(m) <= store'[s][k].length
          /\ handler'[s][k].there /\ handler'[s][k].id = r.id /\ handler'[s][k].kind = m.kind
          /\ handler'[s][k].offset = m.offset /\ handler'[s][k].todo = lease[s][k].others
          /\ \A t \in Server, l \in Chunk : ~(t = s /\ l = k) => handler'[t][l] = handler[t][l]
          /\ applies' = applies \cup {[m EXCEPT !.to = t] : t \in lease[s][k].others}
     ELSE handler' = handler /\ applies' = applies

\* A step of the handler of RecordAppend is one, done or failed.
LEMMA HandleAppendFact ==
  ASSUME Types, MetaInv, CallInv, NEW r \in requests, HandleAppend(r)
  PROVE  /\ \E m \in Mutation, ok \in BOOLEAN : HandledAppend(r, m, ok)
         /\ Types' /\ ClientMoves
<1> DEFINE s == r.to
           k == r.chunk
           L == store[s][k].length
<1>0. r \in Request /\ s \in Server /\ k \in Chunk /\ r.id \in Attempt /\ r.version \in Nat
  BY DEF Types, ServerTypes, Request
<1>1. PICK m : m = [id |-> r.id, chunk |-> k, version |-> r.version, from |-> s, to |-> s,
                   kind |-> IF Fits(s, k, r.id) THEN "write" ELSE "pad", offset |-> L]
  OBVIOUS
<1>2. L \in 0..ChunkSize /\ L \in Nat /\ ChunkSize \in Nat
  BY <1>0, FileType, RecordAppendAssumption
<1>3. /\ m \in Mutation /\ m.id = r.id /\ m.chunk = k /\ m.from = s /\ m.to = s
      /\ m.version = r.version /\ m.offset = L
      /\ m.kind = (IF Fits(s, k, r.id) THEN "write" ELSE "pad")
  <2> HIDE DEF s, k, L
  <2> QED
    BY <1>0, <1>1, <1>2 DEF Mutation, Kind
<1>4. m.offset <= ChunkSize /\ End(m) <= ChunkSize
  <2>1. SizeOf(r.id) \in Nat
    BY <1>0, SizeFact
  <2> QED
    BY <1>2, <1>3, <2>1 DEF End, Fits
<1>5. /\ lease[s][k].held /\ r.version = store[s][k].version /\ requests' = requests \ {r}
      /\ UNCHANGED <<master, lease>>
  BY DEF HandleAppend, Prepared
<1>6. LeaseInv(s, k) /\ lease[s][k].others \subseteq Server
  BY <1>0, <1>5 DEF MetaInv, MetaAt, Types, ServerTypes
<1> DEFINE others == lease[s][k].others
           new == {[m EXCEPT !.to = t] : t \in others}
<1>7. PICK ok \in BOOLEAN :
        /\ Stored(s, k, m, ok)
        /\ IF ok
           THEN /\ handler' = [handler EXCEPT ![s][k] =
                     [there |-> TRUE, id |-> r.id, kind |-> m.kind,
                      offset |-> m.offset, todo |-> others, ok |-> TRUE]]
                /\ applies' = applies \cup new
                /\ UNCHANGED client
           ELSE /\ Answered(r.id, "failed", 0)
                /\ UNCHANGED <<handler, applies>>
  <2> DEFINE n == [id |-> r.id, chunk |-> k, version |-> r.version, from |-> s, to |-> s,
                   kind |-> IF Fits(s, k, r.id) THEN "write" ELSE "pad", offset |-> L]
             o == lease[s][k].others
  <2>1. \E ok \in BOOLEAN :
           /\ Stored(s, k, n, ok)
           /\ IF ok
              THEN /\ handler' = [handler EXCEPT ![s][k] =
                        [there |-> TRUE, id |-> r.id, kind |-> n.kind,
                         offset |-> n.offset, todo |-> o, ok |-> TRUE]]
                   /\ applies' = applies \cup {[n EXCEPT !.to = t] : t \in o}
                   /\ UNCHANGED client
              ELSE /\ Answered(r.id, "failed", 0)
                   /\ UNCHANGED <<handler, applies>>
    BY Zenon DEF HandleAppend
  <2>2. n = m /\ o = others
    BY <1>1
  <2> HIDE DEF n, o
  <2> QED
    BY <2>1, <2>2
<1>8. /\ left' \in Left
      /\ store' \in [Server -> [Chunk -> File]]
      /\ \A t \in Server, l \in Chunk : ~(t = s /\ l = k) => store'[t][l] = store[t][l]
      /\ store'[s][k] = store[s][k] \/ store'[s][k] = Written(store[s][k], m)
      /\ ok => store'[s][k] = Written(store[s][k], m)
  <2> HIDE DEF s, k, L, others, new
  <2> QED
    BY <1>0, <1>3, <1>4, <1>7, StoredFact
<1>9. /\ Mutated(store[s][k], store'[s][k], m)
      /\ ok => /\ End(m) <= store'[s][k].length
               /\ \A i \in Cell : m.offset <= i /\ i < End(m) => store'[s][k].cell[i] = Mark(m)
  <2> HIDE DEF s, k, L, others, new
  <2> QED
    BY <1>0, <1>3, <1>4, <1>8, MutatedFact
<1> PICK h : h = [there |-> TRUE, id |-> r.id, kind |-> m.kind, offset |-> m.offset,
                  todo |-> others, ok |-> TRUE]
  OBVIOUS
<1>10. /\ h \in Handler /\ h.there /\ h.id = r.id /\ h.kind = m.kind /\ h.offset = m.offset
       /\ h.todo = others
  <2>1. others \subseteq Server /\ m.kind \in Kind /\ m.offset \in Nat
    BY <1>0, <1>3, <1>6, EndFact
  <2> HIDE DEF s, k, L, others, new
  <2> QED
    BY <1>0, <2>1 DEF Handler
<1>11. /\ ok => /\ handler'[s][k] = h
                /\ \A t \in Server, l \in Chunk : ~(t = s /\ l = k) => handler'[t][l] = handler[t][l]
       /\ handler' \in [Server -> [Chunk -> Handler \cup {NoHandler}]]
  <2>1. handler \in [Server -> [Chunk -> Handler \cup {NoHandler}]]
    BY DEF Types, ServerTypes
  <2>2. CASE ok
    <3>1. handler' = [handler EXCEPT ![s][k] = h]
      BY <1>7, <2>2
    <3> HIDE DEF s, k, L, others, new
    <3> QED
      BY <1>0, <1>10, <2>1, <3>1
  <2>3. CASE ~ok
    BY <1>7, <2>1, <2>3
  <2> QED
    BY <2>2, <2>3
<1>12. new \subseteq Mutation /\ applies' \subseteq Mutation
  <2>1. others \subseteq Server
    BY <1>6
  <2>2. applies \subseteq Mutation
    BY DEF Types, ServerTypes
  <2>3. ASSUME NEW t \in Server PROVE [m EXCEPT !.to = t] \in Mutation
    BY <1>3 DEF Mutation
  <2>4. new \subseteq Mutation
    BY <2>1, <2>3
  <2> QED
    BY <1>7, <2>2, <2>4
<1>13. ClientMoves
  <2>1. chunks' = chunks /\ chunks \in Int /\ chunks <= chunks' /\ 0 \in Nat
    BY <1>5, MetaType DEF master
  <2>2. CASE ok
    BY <1>7, <2>1, <2>2, NoChange
  <2>3. CASE ~ok
    BY <1>0, <1>7, <2>1, <2>3, AnsweredMoves
  <2> QED
    BY <2>2, <2>3
<1>14. Types'
  BY <1>5, <1>8, <1>11, <1>12, <1>13 DEF Types, ServerTypes, ClientMoves, master
<1>15. HandledAppend(r, m, ok)
  <2>1. m.version = store[s][k].version /\ m.version > 0
    BY <1>0, <1>3, <1>5, <1>6, FileType DEF LeaseInv
  <2>2. CASE ok
    BY <1>3, <1>4, <1>5, <1>6, <1>7, <1>8, <1>9, <1>10, <1>11, <2>1, <2>2 DEF HandledAppend
  <2>3. CASE ~ok
    BY <1>3, <1>4, <1>5, <1>6, <1>7, <1>8, <1>9, <2>1, <2>3 DEF HandledAppend
  <2> QED
    BY <2>2, <2>3
<1> QED
  BY <1>3, <1>13, <1>14, <1>15

\* The cells that a primary writes were blank.
LEMMA AppendsAtEnd ==
  ASSUME Types, CellInv, NEW r \in requests, NEW m, NEW ok, HandledAppend(r, m, ok),
         NEW t \in Server, NEW l \in Chunk, NEW i \in Cell, store[t][l].cell[i] # Blank
  PROVE  store'[t][l].cell[i] = store[t][l].cell[i]
<1>1. CASE ~(t = r.to /\ l = r.chunk)
  BY <1>1 DEF HandledAppend
<1>2. CASE t = r.to /\ l = r.chunk
  <2>1. /\ Mutated(store[t][l], store'[t][l], m) /\ m.offset = store[t][l].length
        /\ m.offset \in Nat
    BY <1>2 DEF HandledAppend, Mutation
  <2>2. i < m.offset /\ i \in Int
    BY <2>1, RecordAppendAssumption DEF CellInv, Cell
  <2>3. ~(m.offset <= i)
    BY <2>1, <2>2
  <2> QED
    BY <2>1, <2>3 DEF Mutated
<1> QED
  BY <1>1, <1>2

\* A cell that a mutation at s changed is blank or has its attempt.
LEMMA MutatedCell ==
  ASSUME NEW f, NEW g, NEW m \in Mutation, Mutated(f, g, m), NEW i \in Cell
  PROVE  g.cell[i] = f.cell[i] \/ g.cell[i] = Blank \/ (g.cell[i] = m.id /\ m.kind = "write")
  BY EndFact DEF Mutated, Kind

\* The primary writes at the end: what it writes over was blank.
LEMMA HandleAppendCells ==
  ASSUME Types, MetaInv, SafeInv, NEW r \in requests, NEW m, NEW ok,
         HandledAppend(r, m, ok), Types', Grows
  PROVE  CellInv'
<1> SUFFICES ASSUME NEW t \in Server, NEW l \in Chunk, NEW i \in Cell, NEW x,
                    x = store'[t][l].cell[i], x # Blank
    PROVE  /\ i < store'[t][l].length /\ Begun(x)'
           /\ \A j \in Cell : store'[t][l].cell[j] = x => j - i < SizeOf(x)
  BY DEF CellInv, Begun, At
<1>0. /\ r.to \in Server /\ r.chunk \in Chunk /\ r.id \in Attempt /\ m \in Mutation
      /\ m.id = r.id /\ Begun(r.id) /\ Unwritten(r.id)
  BY DEF HandledAppend, Types, ServerTypes, Request, SafeInv, RequestInv
<1>1. CASE ~(t = r.to /\ l = r.chunk)
  <2>1. store'[t][l] = store[t][l]
    BY <1>1 DEF HandledAppend
  <2>2. /\ i < store[t][l].length /\ Begun(x) /\ x \in Attempt
        /\ \A j \in Cell : store[t][l].cell[j] = x => j - i < SizeOf(x)
    BY <2>1, FileType DEF SafeInv, CellInv
  <2> QED
    BY <2>1, <2>2 DEF Grows
<1>2. CASE t = r.to /\ l = r.chunk
  <2>1. /\ Mutated(store[t][l], store'[t][l], m) /\ store[t][l].length <= store'[t][l].length
        /\ store[t][l].length \in Nat /\ store'[t][l].length \in Nat /\ i \in Nat
    <3>1. store[t][l].length \in Nat
      BY FileType, RecordAppendAssumption
    <3>2. store'[t][l].length \in Nat
      BY RecordAppendAssumption DEF Types, ServerTypes, File
    <3>3. i \in Nat
      BY RecordAppendAssumption DEF Cell
    <3> QED
      BY <1>2, <3>1, <3>2, <3>3 DEF HandledAppend, Mutated
  <2>2. CASE store[t][l].cell[i] # Blank
    <3>1. store[t][l].cell[i] = x
      BY <2>2, AppendsAtEnd DEF SafeInv
    <3>2. /\ i < store[t][l].length /\ Begun(x) /\ x \in Attempt
          /\ \A j \in Cell : store[t][l].cell[j] = x => j - i < SizeOf(x)
      BY <3>1, FileType DEF SafeInv, CellInv
    <3>3. x # r.id
      BY <1>0, <3>1 DEF Unwritten
    <3>4. ASSUME NEW j \in Cell, store'[t][l].cell[j] = x PROVE store[t][l].cell[j] = x
      BY <1>0, <2>1, <3>3, <3>4, MutatedCell
    <3>5. i < store'[t][l].length
      BY <2>1, <3>2
    <3> QED
      BY <3>2, <3>4, <3>5 DEF Grows
  <2>3. CASE store[t][l].cell[i] = Blank
    <3>1. x = r.id /\ m.kind = "write"
      BY <1>0, <2>1, <2>3, MutatedCell
    <3>2. ASSUME NEW j \in Cell, store'[t][l].cell[j] = r.id
          PROVE  m.offset <= j /\ j < End(m) /\ End(m) <= store'[t][l].length
      <4>1. store[t][l].cell[j] # r.id
        BY <1>0 DEF Unwritten
      <4> QED
        BY <2>1, <3>2, <4>1 DEF Mutated
    <3>3. /\ End(m) = m.offset + SizeOf(r.id) /\ m.offset \in Nat /\ SizeOf(r.id) \in Nat
          /\ End(m) \in Nat
      BY <1>0, <3>1, EndFact, SizeFact
    <3>4. m.offset <= i /\ i < End(m) /\ End(m) <= store'[t][l].length
      BY <3>1, <3>2
    <3>5. i < store'[t][l].length
      BY <2>1, <3>3, <3>4
    <3>6. ASSUME NEW j \in Cell, store'[t][l].cell[j] = x PROVE j - i < SizeOf(x)
      <4>1. m.offset <= j /\ j < End(m) /\ j \in Int
        BY <3>1, <3>2, <3>6, RecordAppendAssumption DEF Cell
      <4> QED
        BY <2>1, <3>1, <3>3, <3>4, <4>1
    <3>7. Begun(x)'
      BY <1>0, <3>1 DEF Grows
    <3> QED
      BY <3>5, <3>6, <3>7
  <2> QED
    BY <2>2, <2>3
<1> QED
  BY <1>1, <1>2

\* The messages that a primary sends differ only in whom they are to.
LEMMA NewMutations ==
  ASSUME NEW r, NEW m, NEW ok, HandledAppend(r, m, ok)
  PROVE  \A n \in applies' : n \notin applies =>
           /\ n = [m EXCEPT !.to = n.to] /\ n.to \in Server \ {r.to}
           /\ n.id = m.id /\ n.chunk = m.chunk /\ n.version = m.version /\ n.from = m.from
           /\ n.kind = m.kind /\ n.offset = m.offset
<1> SUFFICES ASSUME NEW n \in applies', n \notin applies
             PROVE  /\ n = [m EXCEPT !.to = n.to] /\ n.to \in Server \ {r.to}
                    /\ n.id = m.id /\ n.chunk = m.chunk /\ n.version = m.version
                    /\ n.from = m.from /\ n.kind = m.kind /\ n.offset = m.offset
  OBVIOUS
<1>1. /\ m \in Mutation
      /\ applies' = applies \cup {[m EXCEPT !.to = t] : t \in lease[r.to][r.chunk].others}
      /\ lease[r.to][r.chunk].others \subseteq Server \ {r.to}
  BY DEF HandledAppend, LeaseInv
<1>2. PICK t \in Server \ {r.to} : n = [m EXCEPT !.to = t]
  BY <1>1
<1>3. /\ n.to = t /\ n.id = m.id /\ n.chunk = m.chunk /\ n.version = m.version
      /\ n.from = m.from /\ n.kind = m.kind /\ n.offset = m.offset
  BY <1>1, <1>2 DEF Mutation
<1> QED
  BY <1>2, <1>3

\* A request that is handled is no request any more.
LEMMA HandleAppendRequests ==
  ASSUME Types, MetaInv, SafeInv, NEW r \in requests, NEW m, NEW ok \in BOOLEAN,
         HandledAppend(r, m, ok), Types', ClientMoves
  PROVE  InFlight' /\ RequestInv'
<1>0. /\ r.to \in Server /\ r.chunk \in Chunk /\ r.id \in Attempt /\ m \in Mutation /\ m.id = r.id
  BY DEF HandledAppend, Types, ServerTypes, Request
<1>1. /\ requests' \subseteq requests /\ r \notin requests'
      /\ \A n \in applies' : n \in applies \/ n.id = r.id
      /\ \A s \in Server, k \in Chunk :
           handler'[s][k] = handler[s][k] \/ (k = r.chunk /\ handler'[s][k].id = r.id)
  <2>2. CASE ok
    <3>1. \A n \in applies' : n \in applies \/ n.id = r.id
      BY <1>0, NewMutations
    <3>2. /\ requests' = requests \ {r} /\ handler'[r.to][r.chunk].id = r.id
          /\ \A t \in Server, l \in Chunk :
               ~(t = r.to /\ l = r.chunk) => handler'[t][l] = handler[t][l]
      BY <2>2 DEF HandledAppend
    <3> QED
      BY <1>0, <3>1, <3>2
  <2>3. CASE ~ok
    BY <2>3 DEF HandledAppend
  <2> QED
    BY <2>2, <2>3
<1>2. ASSUME NEW c \in Caller, At(c, "sent")'
      PROVE  /\ \A q \in requests' : q.id = Id(c)' => q.chunk = call'[c].index
             /\ \A s \in Server, k \in Chunk :
                  handler'[s][k].there /\ handler'[s][k].id = Id(c)' => k = call'[c].index
  <2>1. call'[c] = call[c] /\ At(c, "sent") /\ Id(c)' = Id(c)
    BY <1>2 DEF ClientMoves, At, Id
  <2> QED
    BY <1>1, <2>1 DEF SafeInv, InFlight
<1>3. ASSUME NEW q \in requests'
      PROVE  /\ Begun(q.id)' /\ Unwritten(q.id)'
             /\ \A p \in requests' : p.id = q.id => p = q
             /\ \A n \in applies' : n.id # q.id
             /\ \A s \in Server, k \in Chunk : handler'[s][k].there => handler'[s][k].id # q.id
  <2>1. PICK x \in Attempt : x = q.id
    BY <1>1 DEF Types, ServerTypes, Request
  <2>2. x # r.id /\ Begun(x) /\ Unwritten(x) /\ x # Blank /\ q \in requests
    BY <1>1, <2>1, SizeFact DEF SafeInv, RequestInv
  <2>3. Begun(x)'
    BY <2>2 DEF ClientMoves, Grows
  <2>4. Unwritten(x)'
    <3> SUFFICES ASSUME NEW s \in Server, NEW k \in Chunk, NEW i \in Cell
                 PROVE  store'[s][k].cell[i] # x
      BY DEF Unwritten
    <3>1. store[s][k].cell[i] # x
      BY <2>2 DEF Unwritten
    <3>2. CASE s = r.to /\ k = r.chunk
      <4>1. Mutated(store[s][k], store'[s][k], m)
        BY <3>2 DEF HandledAppend
      <4> QED
        BY <1>0, <2>2, <3>1, <4>1, MutatedCell
    <3>3. CASE ~(s = r.to /\ k = r.chunk)
      BY <3>1, <3>3 DEF HandledAppend
    <3> QED
      BY <3>2, <3>3
  <2>5. /\ \A p \in requests' : p.id = x => p = q
        /\ \A n \in applies' : n.id # x
        /\ \A s \in Server, k \in Chunk : handler'[s][k].there => handler'[s][k].id # x
    BY <1>1, <2>1, <2>2 DEF SafeInv, RequestInv
  <2> QED
    BY <2>1, <2>3, <2>4, <2>5
<1> QED
  BY <1>2, <1>3 DEF InFlight, RequestInv

\* What the primary forwards, it has; what it forwarded before lies below.
LEMMA HandleAppendMutations ==
  ASSUME Types, MetaInv, SafeInv, NEW r \in requests, NEW m, NEW ok \in BOOLEAN,
         HandledAppend(r, m, ok), Types', ClientMoves
  PROVE  MutationInv'
<1>0. /\ r.to \in Server /\ r.chunk \in Chunk /\ r.id \in Attempt /\ m \in Mutation
      /\ m.id = r.id /\ m.chunk = r.chunk /\ meta' = meta /\ r.id # Blank
      /\ m.version = store[r.to][r.chunk].version /\ m.version > 0 /\ m.version \in Nat
      /\ m.offset <= ChunkSize /\ End(m) <= ChunkSize
  BY SizeFact DEF HandledAppend, Types, ServerTypes, Request, Mutation, master
<1>1. SUFFICES ASSUME NEW n \in applies'
    PROVE  /\ Begun(n.id)'
           /\ n.offset <= ChunkSize /\ End(n) <= ChunkSize
           /\ n.version \in 1..meta'[n.chunk].version
           /\ \A q \in applies' : q.id = n.id /\ q.to = n.to => q = n
           /\ \A k \in Chunk, i \in Cell : store'[n.to][k].cell[i] # n.id
           /\ n.version = meta'[n.chunk].version => Ordered(n)'
  BY DEF MutationInv
<1>2. \A q \in applies' : q \notin applies => ok
  BY DEF HandledAppend
<1>3. \A q \in applies : q.id # r.id
  BY DEF SafeInv, RequestInv
<1>4. PICK x \in Attempt : x = n.id
  BY DEF Types, ServerTypes, Mutation
<1>5. CASE n \in applies
  <2>1. /\ Begun(x) /\ n.offset <= ChunkSize /\ End(n) <= ChunkSize
        /\ n.version \in 1..meta[n.chunk].version /\ x # r.id
        /\ n \in Mutation /\ n.to \in Server /\ n.chunk \in Chunk
    BY <1>3, <1>4, <1>5 DEF SafeInv, MutationInv, Types, ServerTypes, Mutation
  <2>2. Begun(x)'
    BY <2>1 DEF ClientMoves, Grows
  <2>3. ASSUME NEW q \in applies', q.id = n.id, q.to = n.to PROVE q = n
    <3>1. q \in applies
      <4> SUFFICES ASSUME q \notin applies PROVE FALSE
        OBVIOUS
      <4>2. q.id = r.id
        BY <1>0, NewMutations
      <4> QED
        BY <1>4, <2>1, <2>3, <4>2
    <3> QED
      BY <1>5, <2>3, <3>1 DEF SafeInv, MutationInv
  <2>4. ASSUME NEW k \in Chunk, NEW i \in Cell PROVE store'[n.to][k].cell[i] # x
    <3>1. store[n.to][k].cell[i] # x /\ x # Blank
      BY <1>4, <1>5, SizeFact DEF SafeInv, MutationInv
    <3>2. CASE n.to = r.to /\ k = r.chunk
      <4>1. Mutated(store[n.to][k], store'[n.to][k], m)
        BY <3>2 DEF HandledAppend
      <4> QED
        BY <1>0, <2>1, <3>1, <4>1, MutatedCell
    <3>3. CASE ~(n.to = r.to /\ k = r.chunk)
      BY <2>1, <3>1, <3>3 DEF HandledAppend
    <3> QED
      BY <3>2, <3>3
  <2>5. ASSUME n.version = meta'[n.chunk].version PROVE Ordered(n)'
    <3>1. Ordered(n)
      BY <1>0, <1>5, <2>5 DEF SafeInv, MutationInv
    <3>2. PICK p, k : p = meta[n.chunk].primary /\ k = n.chunk
      OBVIOUS
    <3>3. /\ p # None /\ p \in Server /\ k \in Chunk /\ n.to # p
          /\ End(n) <= store[p][k].length
          /\ \A i \in Cell : n.offset <= i /\ i < End(n) => store[p][k].cell[i] = Mark(n)
      BY <2>1, <3>1, <3>2, MetaType DEF Ordered
    <3>4. CASE p = r.to /\ k = r.chunk
      <4>1. /\ Mutated(store[p][k], store'[p][k], m) /\ m.offset = store[p][k].length
            /\ store[p][k].length <= store'[p][k].length
        BY <3>4 DEF HandledAppend, Mutated
      <4>2. End(n) \in Nat /\ m.offset \in Nat /\ store'[p][k].length \in Nat
        <5>1. store'[p][k].length \in Nat
          BY <3>3, RecordAppendAssumption DEF Types, ServerTypes, File
        <5> QED
          BY <1>0, <2>1, <5>1, EndFact
      <4>3. End(n) <= store'[p][k].length
        BY <3>3, <4>1, <4>2
      <4>4. ASSUME NEW i \in Cell, n.offset <= i, i < End(n)
            PROVE  store'[p][k].cell[i] = Mark(n)
        <5>1. i \in Int /\ ~(m.offset <= i)
          BY <3>3, <4>1, <4>2, <4>4, RecordAppendAssumption DEF Cell
        <5>2. store'[p][k].cell[i] = store[p][k].cell[i]
          BY <4>1, <5>1 DEF Mutated
        <5> QED
          BY <3>3, <4>4, <5>2
      <4> QED
        BY <1>0, <3>2, <3>3, <4>3, <4>4 DEF Ordered, End, Mark
    <3>5. CASE ~(p = r.to /\ k = r.chunk)
      <4>1. store'[p][k] = store[p][k]
        BY <3>3, <3>5 DEF HandledAppend
      <4> QED
        BY <1>0, <3>2, <3>3, <4>1 DEF Ordered, End, Mark
    <3> QED
      BY <3>4, <3>5
  <2> QED
    BY <1>0, <1>4, <2>1, <2>2, <2>3, <2>4, <2>5 DEF Begun, At
<1>6. CASE n \notin applies
  <2>0. ok
    BY <1>2, <1>6
  <2>1. /\ n = [m EXCEPT !.to = n.to] /\ n.to \in Server \ {r.to}
        /\ n.id = m.id /\ n.chunk = m.chunk /\ n.version = m.version /\ n.from = m.from
        /\ n.kind = m.kind /\ n.offset = m.offset
    BY <1>6, NewMutations
  <2>2. n.to \in Server /\ x = r.id /\ Begun(x) /\ Unwritten(x)
    BY <1>0, <1>4, <2>1 DEF SafeInv, RequestInv
  <2>3. Begun(x)'
    BY <2>2 DEF ClientMoves, Grows
  <2>4. End(n) = End(m) /\ Mark(n) = Mark(m)
    BY <2>1 DEF End, Mark
  <2>5. ASSUME NEW q \in applies', q.id = n.id, q.to = n.to PROVE q = n
    <3>1. q \notin applies
      BY <1>0, <1>3, <2>1, <2>5
    <3>2. q = [m EXCEPT !.to = q.to]
      BY <3>1, NewMutations
    <3> QED
      BY <2>1, <2>5, <3>2
  <2>6. \A k \in Chunk, i \in Cell : store'[n.to][k].cell[i] # x
    <3>1. \A t \in Server, l \in Chunk : t # r.to => store'[t][l] = store[t][l]
      BY DEF HandledAppend
    <3> QED
      BY <2>1, <2>2, <3>1 DEF Unwritten
  <2>7. ASSUME n.version = meta'[n.chunk].version PROVE Ordered(n)'
    <3>1. PICK p, k : p = r.to /\ k = r.chunk
      OBVIOUS
    <3>a. p = meta[k].primary
      <4>1. LeaseInv(p, k)
        BY <3>1 DEF HandledAppend
      <4>2. store[p][k].version = meta[k].version
        <5>1. n.chunk = k /\ meta' = meta /\ n.version = store[p][k].version
          BY <1>0, <2>1, <3>1
        <5> QED
          BY <5>1, <2>7
      <4>3. meta[k].version \in Nat
        BY <1>0, <3>1, MetaType
      <4>4. ~(store[p][k].version < meta[k].version)
        BY <4>2, <4>3
      <4> QED
        BY <4>1, <4>4 DEF LeaseInv
    <3>2. /\ End(m) <= store'[p][k].length /\ p = meta[k].primary
          /\ \A i \in Cell : m.offset <= i /\ i < End(m) => store'[p][k].cell[i] = Mark(m)
      BY <2>0, <3>1, <3>a DEF HandledAppend
    <3>3. p # None /\ meta'[n.chunk].primary = p /\ n.chunk = k /\ meta' = meta
      BY <1>0, <2>1, <3>1, <3>2, RecordAppendAssumption
    <3> QED
      BY <2>1, <2>4, <3>1, <3>2, <3>3 DEF Ordered, End, Mark
  <2>8. n.version \in 1..meta'[n.chunk].version
    <3>1. store[r.to][r.chunk].version <= meta[r.chunk].version /\ meta[r.chunk].version \in Nat
      BY <1>0, MetaType DEF MetaInv, MetaAt
    <3> QED
      BY <1>0, <2>1, <3>1
  <2> QED
    BY <1>0, <1>4, <2>1, <2>3, <2>4, <2>5, <2>6, <2>7, <2>8 DEF Begun, At
<1> QED
  BY <1>5, <1>6

\* The new handler waits for all replicas but the primary, which has the record.
LEMMA HandleAppendHandlers ==
  ASSUME Types, MetaInv, SafeInv, NEW r \in requests, NEW m, NEW ok \in BOOLEAN,
         HandledAppend(r, m, ok), Types', ClientMoves
  PROVE  HandlerInv'
<1>0. /\ r.to \in Server /\ r.chunk \in Chunk /\ r.id \in Attempt /\ m \in Mutation
      /\ m.id = r.id /\ m.from = r.to /\ m.chunk = r.chunk /\ steady' = steady /\ End(m) <= ChunkSize
  BY DEF HandledAppend, Types, ServerTypes, Request, master
<1>1. \A q \in applies' : q \notin applies =>
        /\ q.id = m.id /\ q.from = m.from /\ q.chunk = m.chunk
        /\ q.kind = m.kind /\ q.offset = m.offset
  BY NewMutations
<1>2. \A q \in applies : q.id # r.id
  BY DEF SafeInv, RequestInv
<1>3. \A t \in Server, l \in Chunk : store'[t][l].version = store[t][l].version
  BY DEF HandledAppend, Mutated
<1> SUFFICES ASSUME NEW s \in Server, NEW k \in Chunk, handler'[s][k].there, NEW h,
                    h = handler'[s][k]
    PROVE  /\ Begun(h.id)'
           /\ \A n \in applies' : n.id = h.id =>
                n.from = s /\ n.chunk = k /\ n.kind = h.kind /\ n.offset = h.offset
           /\ h.kind = "write" => h.offset + SizeOf(h.id) <= ChunkSize
           /\ h.kind = "write" /\ h.ok =>
                Doomed(k, h)' \/ \A t \in steady'[k] : t \in h.todo \/ HasRecord(t, k, h)'
  BY DEF HandlerInv
<1>4. CASE h = handler[s][k]
  <2>0. /\ Begun(h.id)
        /\ \A n \in applies : n.id = h.id =>
             n.from = s /\ n.chunk = k /\ n.kind = h.kind /\ n.offset = h.offset
        /\ h.kind = "write" => h.offset + SizeOf(h.id) <= ChunkSize
        /\ h.kind = "write" /\ h.ok =>
             Doomed(k, h) \/ \A t \in steady[k] : t \in h.todo \/ HasRecord(t, k, h)
        /\ h.id # r.id
    BY <1>4 DEF SafeInv, HandlerInv, RequestInv
  <2>1. h \in Handler /\ h.id \in Attempt /\ h.todo \subseteq Server /\ h.id # Blank
    <3>1. h \in Handler
      BY <1>4, HandlerType
    <3>2. h.id \in Attempt /\ h.todo \subseteq Server
      BY <3>1 DEF Handler
    <3> QED
      BY <3>1, <3>2, SizeFact
  <2>2. Begun(h.id)'
    <3> PICK x : x = h.id
      OBVIOUS
    <3>1. Begun(x)'
      BY <2>0, <2>1 DEF ClientMoves, Grows
    <3> QED
      BY <3>1 DEF Begun
  <2>3. \A n \in applies' : n.id = h.id => n \in applies
    BY <1>0, <1>1, <2>0
  <2>4. Doomed(k, h) => Doomed(k, h)'
    BY <1>3, <2>1, <2>3 DEF Doomed
  <2>5. ASSUME NEW t \in Server, HasRecord(t, k, h) PROVE HasRecord(t, k, h)'
    BY <2>1, <2>5, AppendsAtEnd DEF HasRecord, SafeInv
  <2>6. steady'[k] \subseteq Server
    BY <1>0, MetaType
  <2> QED
    BY <1>0, <2>0, <2>2, <2>3, <2>4, <2>5, <2>6
<1>5. CASE h # handler[s][k]
  <2>1. ok /\ s = r.to /\ k = r.chunk
    BY <1>5 DEF HandledAppend
  <2>2. /\ h.id = r.id /\ h.kind = m.kind /\ h.offset = m.offset
        /\ h.todo = lease[s][k].others /\ steady[k] \ {s} \subseteq lease[s][k].others
        /\ \A i \in Cell : m.offset <= i /\ i < End(m) => store'[s][k].cell[i] = Mark(m)
    BY <2>1 DEF HandledAppend, LeaseInv
  <2>3. Begun(h.id)'
    <3>1. Begun(r.id)
      BY DEF SafeInv, RequestInv
    <3> PICK x : x = r.id
      OBVIOUS
    <3>2. Begun(x)'
      BY <1>0, <3>1 DEF ClientMoves, Grows
    <3> QED
      BY <2>2, <3>2 DEF Begun
  <2>4. \A n \in applies' : n.id = h.id =>
          n.from = s /\ n.chunk = k /\ n.kind = h.kind /\ n.offset = h.offset
    BY <1>0, <1>1, <1>2, <2>1, <2>2
  <2>5. ASSUME h.kind = "write"
        PROVE  h.offset + SizeOf(h.id) <= ChunkSize /\ HasRecord(s, k, h)'
    <3>1. End(m) = h.offset + SizeOf(h.id) /\ Mark(m) = h.id
      <4>1. m.kind = "write" /\ h.id = m.id /\ h.offset = m.offset
        BY <1>0, <2>2, <2>5
      <4>2. End(m) = m.offset + SizeOf(m.id) /\ Mark(m) = m.id
        BY <1>0, <4>1, EndFact
      <4> QED
        BY <4>1, <4>2
    <3> QED
      BY <1>0, <2>2, <3>1 DEF HasRecord
  <2> QED
    BY <1>0, <2>2, <2>3, <2>4, <2>5
<1> QED
  BY <1>4, <1>5

\* A primary handles a request.
LEMMA HandleAppendKeeps ==
  ASSUME Types, MetaInv, CallInv, SafeInv, NEW r \in requests, HandleAppend(r)
  PROVE  Types' /\ MetaInv' /\ CallInv' /\ SafeInv'
<1>1. PICK m \in Mutation, ok \in BOOLEAN : HandledAppend(r, m, ok)
  BY HandleAppendFact
<1>2. Types' /\ ClientMoves
  BY HandleAppendFact
<1>3. MetaInv'
  <2>1. \A t \in Server, l \in Chunk : store'[t][l].version = store[t][l].version
    BY <1>1 DEF HandledAppend, Mutated
  <2>2. UNCHANGED <<chunks, meta, steady, lease>>
    BY <1>1 DEF HandledAppend, master
  <2> QED
    BY <2>1, <2>2, StillMeta
<1>4. CellInv'
  BY <1>1, <1>2, HandleAppendCells DEF ClientMoves
<1>5. InFlight' /\ RequestInv'
  BY <1>1, <1>2, HandleAppendRequests
<1>6. MutationInv'
  BY <1>1, <1>2, HandleAppendMutations
<1>7. HandlerInv'
  BY <1>1, <1>2, HandleAppendHandlers
<1> QED
  BY <1>2, <1>3, <1>4, <1>5, <1>6, <1>7 DEF ClientMoves, SafeInv

-----------------------------------------------------------------------------
\* A secondary has the version of the message that it acts on, and the data.
AppliedAt(m, ok) ==
  LET s == m.to
      k == m.chunk
  IN
  /\ m \in Mutation /\ m.version = store[s][k].version /\ Told(m, ok)
  /\ Mutated(store[s][k], store'[s][k], m)
  /\ ok => \A i \in Cell : m.offset <= i /\ i < End(m) => store'[s][k].cell[i] = Mark(m)
  /\ \A t \in Server, l \in Chunk : ~(t = s /\ l = k) => store'[t][l] = store[t][l]
  /\ applies' = applies \ {m}
  /\ UNCHANGED <<master, client, lease, requests>>

\* A secondary applies a mutation, or refuses it and changes nothing.
LEMMA ApplyFact ==
  ASSUME Types, MetaInv, CallInv, MutationInv, NEW m \in applies, Apply(m)
  PROVE  /\ Types' /\ ClientMoves /\ MetaInv'
         /\ Keeps \/ \E ok \in BOOLEAN : AppliedAt(m, ok)
<1>0. m \in Mutation /\ m.to \in Server /\ m.chunk \in Chunk
  BY DEF Types, ServerTypes, Mutation
<1>1. /\ applies' = applies \ {m} /\ UNCHANGED <<chunks, meta, steady, cache, call, result, lease, requests>>
      /\ UNCHANGED <<master, client, lease, requests>>
  BY DEF Apply, master, client
<1>2. ClientMoves
  <2>1. chunks' \in Int /\ chunks <= chunks'
    BY <1>1, MetaType
  <2> QED
    BY <1>1, <2>1, NoChange
<1>3. m.offset <= ChunkSize /\ End(m) <= ChunkSize
  BY DEF MutationInv
<1>4. CASE Told(m, FALSE) /\ UNCHANGED <<store, left>>
  <2>0. PICK ok \in BOOLEAN : ok = FALSE /\ Told(m, ok)
    BY <1>4
  <2>1. handler' \in [Server -> [Chunk -> Handler \cup {NoHandler}]]
    BY <1>0, <2>0, ToldHandler
  <2>2. \A s \in Server, k \in Chunk : SameHandler(handler[s][k], handler'[s][k])
    <3>1. \A s \in Server, k \in Chunk :
            \/ handler'[s][k] = handler[s][k]
            \/ /\ handler[s][k].there /\ handler'[s][k].id = handler[s][k].id
               /\ handler'[s][k].kind = handler[s][k].kind
               /\ handler'[s][k].offset = handler[s][k].offset
               /\ handler'[s][k].ok => ok
      BY <1>0, <2>0, ToldHandler
    <3> QED
      BY <2>0, <3>1 DEF SameHandler
  <2>3. Keeps
    BY <1>1, <1>4, <2>2, SameRefl DEF Keeps, NothingNew
  <2>4. MetaInv'
    BY <1>1, <1>4, StillMeta
  <2>5. Types'
    BY <1>1, <1>2, <1>4, <2>1 DEF Types, ServerTypes, ClientMoves
  <2> QED
    BY <1>2, <2>3, <2>4, <2>5
<1>5. CASE Accepted(m) /\ \E ok \in BOOLEAN : Stored(m.to, m.chunk, m, ok) /\ Told(m, ok)
  <2>1. PICK ok \in BOOLEAN : Stored(m.to, m.chunk, m, ok) /\ Told(m, ok)
    BY <1>5
  <2>2. handler' \in [Server -> [Chunk -> Handler \cup {NoHandler}]]
    BY <1>0, <2>1, ToldHandler
  <2>3. /\ left' \in Left
        /\ store' \in [Server -> [Chunk -> File]]
        /\ \A t \in Server, l \in Chunk :
             ~(t = m.to /\ l = m.chunk) => store'[t][l] = store[t][l]
        /\ \/ store'[m.to][m.chunk] = store[m.to][m.chunk]
           \/ store'[m.to][m.chunk] = Written(store[m.to][m.chunk], m)
        /\ ok => store'[m.to][m.chunk] = Written(store[m.to][m.chunk], m)
    BY <1>0, <1>3, <2>1, StoredFact
  <2>4. /\ Mutated(store[m.to][m.chunk], store'[m.to][m.chunk], m)
        /\ ok => \A i \in Cell : m.offset <= i /\ i < End(m) =>
                   store'[m.to][m.chunk].cell[i] = Mark(m)
    BY <1>0, <1>3, <2>3, MutatedFact
  <2>5. m.version = store[m.to][m.chunk].version
    BY <1>5 DEF Accepted
  <2>6. AppliedAt(m, ok)
    BY <1>0, <1>1, <2>1, <2>3, <2>4, <2>5 DEF AppliedAt
  <2>7. MetaInv'
    <3>1. \A t \in Server, l \in Chunk : store'[t][l].version = store[t][l].version
      BY <2>3, <2>4 DEF Mutated
    <3> QED
      BY <1>1, <3>1, StillMeta
  <2>8. Types'
    BY <1>1, <1>2, <2>2, <2>3 DEF Types, ServerTypes, ClientMoves
  <2> QED
    BY <1>2, <2>6, <2>7, <2>8
<1> QED
  BY <1>4, <1>5 DEF Apply

\* A server with the version of the master that takes a message is behind the
\* primary, which has what is in it.
LEMMA AppliedInOrder ==
  ASSUME Types, MetaInv, SafeInv, NEW m \in applies, NEW ok, AppliedAt(m, ok),
         store[m.to][m.chunk].version = meta[m.chunk].version
  PROVE  Ordered(m)
<1>2. m.version = meta[m.chunk].version
  BY DEF AppliedAt
<1> QED
  BY <1>2 DEF SafeInv, MutationInv

\* A secondary writes at the offset of the primary, over whatever is there.
LEMMA ApplyCells ==
  ASSUME Types, MetaInv, SafeInv, NEW m \in applies, NEW ok, AppliedAt(m, ok), Types',
         ClientMoves
  PROVE  CellInv'
<1> SUFFICES ASSUME NEW t \in Server, NEW l \in Chunk, NEW i \in Cell, NEW x,
                    x = store'[t][l].cell[i], x # Blank
    PROVE  /\ i < store'[t][l].length /\ Begun(x)'
           /\ \A j \in Cell : store'[t][l].cell[j] = x => j - i < SizeOf(x)
  BY DEF CellInv, Begun, At
<1>0. /\ m.to \in Server /\ m.chunk \in Chunk /\ m.id \in Attempt /\ m \in Mutation
      /\ Begun(m.id) /\ \A k \in Chunk, j \in Cell : store[m.to][k].cell[j] # m.id
  BY DEF AppliedAt, Mutation, SafeInv, MutationInv
<1>1. CASE ~(t = m.to /\ l = m.chunk)
  <2>1. store'[t][l] = store[t][l]
    BY <1>1 DEF AppliedAt
  <2>2. /\ i < store[t][l].length /\ Begun(x) /\ x \in Attempt
        /\ \A j \in Cell : store[t][l].cell[j] = x => j - i < SizeOf(x)
    BY <2>1, FileType DEF SafeInv, CellInv
  <2> QED
    BY <2>1, <2>2 DEF ClientMoves, Grows
<1>2. CASE t = m.to /\ l = m.chunk
  <2>1. /\ Mutated(store[t][l], store'[t][l], m) /\ store[t][l].length <= store'[t][l].length
        /\ store[t][l].length \in Nat /\ store'[t][l].length \in Nat /\ i \in Nat
    <3>1. store[t][l].length \in Nat
      BY FileType, RecordAppendAssumption
    <3>2. store'[t][l].length \in Nat
      BY RecordAppendAssumption DEF Types, ServerTypes, File
    <3>3. i \in Nat
      BY RecordAppendAssumption DEF Cell
    <3> QED
      BY <1>2, <3>1, <3>2, <3>3 DEF AppliedAt, Mutated
  <2>2. CASE store[t][l].cell[i] = x
    <3>1. /\ i < store[t][l].length /\ Begun(x) /\ x \in Attempt
          /\ \A j \in Cell : store[t][l].cell[j] = x => j - i < SizeOf(x)
      BY <2>2, FileType DEF SafeInv, CellInv
    <3>2. x # m.id
      BY <1>0, <1>2, <2>2
    <3>3. ASSUME NEW j \in Cell, store'[t][l].cell[j] = x PROVE store[t][l].cell[j] = x
      BY <1>0, <2>1, <3>2, <3>3, MutatedCell
    <3>4. i < store'[t][l].length
      BY <2>1, <3>1
    <3> QED
      BY <3>1, <3>3, <3>4 DEF ClientMoves, Grows
  <2>3. CASE store[t][l].cell[i] # x
    <3>1. x = m.id /\ m.kind = "write"
      BY <1>0, <2>1, <2>3, MutatedCell
    <3>2. ASSUME NEW j \in Cell, store'[t][l].cell[j] = m.id
          PROVE  m.offset <= j /\ j < End(m) /\ End(m) <= store'[t][l].length
      <4>1. store[t][l].cell[j] # m.id
        BY <1>0, <1>2
      <4> QED
        BY <2>1, <3>2, <4>1 DEF Mutated
    <3>3. /\ End(m) = m.offset + SizeOf(m.id) /\ m.offset \in Nat /\ SizeOf(m.id) \in Nat
          /\ End(m) \in Nat
      BY <1>0, <3>1, EndFact, SizeFact
    <3>4. m.offset <= i /\ i < End(m) /\ End(m) <= store'[t][l].length
      BY <3>1, <3>2
    <3>5. i < store'[t][l].length
      BY <2>1, <3>3, <3>4
    <3>6. ASSUME NEW j \in Cell, store'[t][l].cell[j] = x PROVE j - i < SizeOf(x)
      <4>1. m.offset <= j /\ j < End(m) /\ j \in Int
        BY <3>1, <3>2, <3>6, RecordAppendAssumption DEF Cell
      <4> QED
        BY <2>1, <3>1, <3>3, <3>4, <4>1
    <3>7. Begun(x)'
      BY <1>0, <3>1 DEF ClientMoves, Grows
    <3> QED
      BY <3>5, <3>6, <3>7
  <2> QED
    BY <2>2, <2>3
<1> QED
  BY <1>1, <1>2

\* What ToldHandler says of the handlers after a message was acted on.
LEMMA AppliedHandlers ==
  ASSUME Types, NEW m \in applies, NEW ok \in BOOLEAN, AppliedAt(m, ok)
  PROVE  \A s \in Server, k \in Chunk : handler'[s][k].there =>
           /\ handler[s][k].there /\ handler'[s][k].id = handler[s][k].id
           /\ handler'[s][k].kind = handler[s][k].kind
           /\ handler'[s][k].offset = handler[s][k].offset
           /\ handler'[s][k].ok => handler[s][k].ok
           /\ \/ handler'[s][k].todo = handler[s][k].todo
              \/ /\ m.to \in handler[s][k].todo /\ handler[s][k].id = m.id
                 /\ handler'[s][k].todo = handler[s][k].todo \ {m.to}
                 /\ handler'[s][k].ok => ok
  BY ToldHandler DEF AppliedAt

\* Requests have nothing to do with mutations under way.
LEMMA ApplyRequests ==
  ASSUME Types, MetaInv, SafeInv, NEW m \in applies, NEW ok \in BOOLEAN, AppliedAt(m, ok),
         Types', ClientMoves
  PROVE  InFlight' /\ RequestInv'
<1>0. m \in Mutation /\ requests' = requests /\ applies' \subseteq applies
  BY DEF AppliedAt
<1>1. \A s \in Server, k \in Chunk : handler'[s][k].there =>
        handler[s][k].there /\ handler'[s][k].id = handler[s][k].id
  BY AppliedHandlers
<1>2. ASSUME NEW c \in Caller, At(c, "sent")'
      PROVE  /\ \A q \in requests' : q.id = Id(c)' => q.chunk = call'[c].index
             /\ \A s \in Server, k \in Chunk :
                  handler'[s][k].there /\ handler'[s][k].id = Id(c)' => k = call'[c].index
  <2>1. call'[c] = call[c] /\ At(c, "sent") /\ Id(c)' = Id(c)
    BY <1>2 DEF ClientMoves, At, Id
  <2> QED
    BY <1>0, <1>1, <2>1 DEF SafeInv, InFlight
<1>3. ASSUME NEW q \in requests'
      PROVE  /\ Begun(q.id)' /\ Unwritten(q.id)'
             /\ \A p \in requests' : p.id = q.id => p = q
             /\ \A n \in applies' : n.id # q.id
             /\ \A s \in Server, k \in Chunk : handler'[s][k].there => handler'[s][k].id # q.id
  <2>1. PICK x \in Attempt : x = q.id
    BY <1>0 DEF Types, ServerTypes, Request
  <2>2. x # m.id /\ Begun(x) /\ Unwritten(x) /\ x # Blank /\ q \in requests
    BY <1>0, <2>1, SizeFact DEF SafeInv, RequestInv
  <2>3. Begun(x)'
    BY <2>2 DEF ClientMoves, Grows
  <2>4. Unwritten(x)'
    <3> SUFFICES ASSUME NEW s \in Server, NEW k \in Chunk, NEW i \in Cell
                 PROVE  store'[s][k].cell[i] # x
      BY DEF Unwritten
    <3>1. store[s][k].cell[i] # x
      BY <2>2 DEF Unwritten
    <3>2. CASE s = m.to /\ k = m.chunk
      <4>1. Mutated(store[s][k], store'[s][k], m)
        BY <3>2 DEF AppliedAt
      <4> QED
        BY <1>0, <2>2, <3>1, <4>1, MutatedCell
    <3>3. CASE ~(s = m.to /\ k = m.chunk)
      BY <3>1, <3>3 DEF AppliedAt
    <3> QED
      BY <3>2, <3>3
  <2>5. /\ \A p \in requests' : p.id = x => p = q
        /\ \A n \in applies' : n.id # x
        /\ \A s \in Server, k \in Chunk : handler'[s][k].there => handler'[s][k].id # x
    BY <1>0, <1>1, <2>1, <2>2 DEF SafeInv, RequestInv
  <2> QED
    BY <2>1, <2>3, <2>4, <2>5
<1> QED
  BY <1>2, <1>3 DEF InFlight, RequestInv

\* The primary is never written by a mutation: the others stay ordered behind it.
LEMMA ApplyMutations ==
  ASSUME Types, MetaInv, SafeInv, NEW m \in applies, NEW ok \in BOOLEAN, AppliedAt(m, ok),
         Types', ClientMoves
  PROVE  MutationInv'
<1>0. /\ m \in Mutation /\ m.to \in Server /\ m.chunk \in Chunk /\ m.id \in Attempt
      /\ meta' = meta /\ applies' = applies \ {m}
  BY DEF AppliedAt, Mutation, master
<1> SUFFICES ASSUME NEW n \in applies'
    PROVE  /\ Begun(n.id)'
           /\ n.offset <= ChunkSize /\ End(n) <= ChunkSize
           /\ n.version \in 1..meta'[n.chunk].version
           /\ \A q \in applies' : q.id = n.id /\ q.to = n.to => q = n
           /\ \A k \in Chunk, i \in Cell : store'[n.to][k].cell[i] # n.id
           /\ n.version = meta'[n.chunk].version => Ordered(n)'
  BY DEF MutationInv
<1>1. PICK x \in Attempt : x = n.id
  BY DEF Types, ServerTypes, Mutation
<1>2. /\ Begun(x) /\ n.offset <= ChunkSize /\ End(n) <= ChunkSize
      /\ n.version \in 1..meta[n.chunk].version
      /\ n \in Mutation /\ n.to \in Server /\ n.chunk \in Chunk /\ n \in applies /\ n # m
      /\ ~(n.to = m.to /\ x = m.id)
  BY <1>0, <1>1 DEF SafeInv, MutationInv, Types, ServerTypes, Mutation
<1>3. Begun(x)'
  BY <1>2 DEF ClientMoves, Grows
<1>4. ASSUME NEW k \in Chunk, NEW i \in Cell PROVE store'[n.to][k].cell[i] # x
  <2>1. store[n.to][k].cell[i] # x /\ x # Blank
    BY <1>1, <1>2, SizeFact DEF SafeInv, MutationInv
  <2>2. CASE n.to = m.to /\ k = m.chunk
    <3>1. Mutated(store[n.to][k], store'[n.to][k], m)
      BY <2>2 DEF AppliedAt
    <3> QED
      BY <1>0, <1>2, <2>1, <2>2, <3>1, MutatedCell
  <2>3. CASE ~(n.to = m.to /\ k = m.chunk)
    BY <1>2, <2>1, <2>3 DEF AppliedAt
  <2> QED
    BY <2>2, <2>3
<1>5. ASSUME n.version = meta'[n.chunk].version PROVE Ordered(n)'
  <2>1. Ordered(n)
    BY <1>0, <1>2, <1>5 DEF SafeInv, MutationInv
  <2>2. PICK p, k : p = meta[n.chunk].primary /\ k = n.chunk
    OBVIOUS
  <2>3. /\ p # None /\ p \in Server /\ k \in Chunk /\ n.to # p
        /\ End(n) <= store[p][k].length
        /\ \A i \in Cell : n.offset <= i /\ i < End(n) => store[p][k].cell[i] = Mark(n)
    BY <1>2, <2>1, <2>2, MetaType DEF Ordered
  <2>4. store[p][k].version = meta[k].version
    BY <2>2, <2>3 DEF MetaInv, MetaAt
  <2>5. ~(p = m.to /\ k = m.chunk)
    <3> SUFFICES ASSUME p = m.to, k = m.chunk PROVE FALSE
      OBVIOUS
    <3>1. Ordered(m)
      BY <2>4, AppliedInOrder
    <3> QED
      BY <2>2, <3>1 DEF Ordered
  <2>6. store'[p][k] = store[p][k]
    BY <2>3, <2>5 DEF AppliedAt
  <2> QED
    BY <1>0, <2>2, <2>3, <2>6 DEF Ordered, End, Mark
<1>6. \A q \in applies' : q.id = n.id /\ q.to = n.to => q = n
  BY <1>0, <1>2 DEF SafeInv, MutationInv
<1> QED
  BY <1>0, <1>1, <1>2, <1>3, <1>4, <1>5, <1>6 DEF Begun, At

\* A replica that has the record of a handler keeps it: what else the primary
\* has sent it lies elsewhere.
LEMMA RecordStays ==
  ASSUME Types, MetaInv, SafeInv, NEW m \in applies, NEW ok, AppliedAt(m, ok),
         NEW s \in Server, NEW k \in Chunk, handler[s][k].there, NEW h, h = handler[s][k],
         ~Doomed(k, h), \A t \in steady[k] : t \in h.todo \/ HasRecord(t, k, h),
         NEW t \in steady[k], HasRecord(t, k, h)
  PROVE  HasRecord(t, k, h)'
<1>0. /\ h \in Handler /\ h.id \in Attempt /\ h.id # Blank /\ t \in Server
      /\ m \in Mutation /\ m.kind \in Kind
  <2>1. h \in Handler
    BY HandlerType
  <2>2. h.id \in Attempt
    BY <2>1 DEF Handler
  <2>3. m \in Mutation
    BY DEF Types, ServerTypes
  <2> QED
    BY <2>1, <2>2, <2>3, SizeFact, MetaType DEF Mutation
<1> SUFFICES ASSUME NEW i \in Cell, h.offset <= i, i < h.offset + SizeOf(h.id)
             PROVE  store'[t][k].cell[i] = h.id
  BY DEF HasRecord
<1>1. store[t][k].cell[i] = h.id
  BY DEF HasRecord
<1>2. CASE ~(t = m.to /\ k = m.chunk)
  BY <1>0, <1>1, <1>2 DEF AppliedAt
<1>3. CASE t = m.to /\ k = m.chunk
  <2>0. MetaAt(k) /\ store[t][k].version = meta[k].version
    BY <1>0 DEF MetaInv, MetaAt
  <2>1. Ordered(m)
    BY <1>3, <2>0, AppliedInOrder
  <2>2. PICK p : p = meta[k].primary
    OBVIOUS
  <2>3. /\ p \in steady[k] /\ p \in Server /\ p # t
        /\ store[p][k].version = meta[k].version
        /\ m.offset <= i /\ i < End(m) => store[p][k].cell[i] = Mark(m)
    BY <1>3, <2>0, <2>1, <2>2, MetaType DEF Ordered, MetaAt
  <2>4. p \notin h.todo
    <3> SUFFICES ASSUME p \in h.todo PROVE FALSE
      OBVIOUS
    <3>1. PICK n \in applies : n.id = h.id /\ n.to = p /\ ~(n.version < store[p][k].version)
      BY DEF Doomed
    <3>2. n.chunk = k /\ n.version \in 1..meta[k].version
      BY <3>1 DEF SafeInv, HandlerInv, MutationInv
    <3>3. store[p][k].version = meta[k].version /\ meta[k].version \in Nat
      BY <2>3, MetaType
    <3>4. n.version = meta[n.chunk].version
      BY <3>1, <3>2, <3>3
    <3>5. Ordered(n)
      BY <3>4 DEF SafeInv, MutationInv
    <3> QED
      BY <2>2, <3>1, <3>2, <3>5 DEF Ordered
  <2>5. store[p][k].cell[i] = h.id
    BY <2>3, <2>4 DEF HasRecord
  <2>6. m.offset <= i /\ i < End(m) => Mark(m) = h.id
    BY <2>3, <2>5
  <2>7. Mutated(store[t][k], store'[t][k], m)
    BY <1>3 DEF AppliedAt
  <2> QED
    BY <1>1, <2>6, <2>7 DEF Mutated
<1> QED
  BY <1>2, <1>3

\* A secondary that has applied a mutation has the record; one that was left
\* behind by a grant dooms the attempt.
LEMMA ApplyHandlers ==
  ASSUME Types, MetaInv, SafeInv, NEW m \in applies, NEW ok \in BOOLEAN, AppliedAt(m, ok),
         Types', ClientMoves
  PROVE  HandlerInv'
<1>0. /\ m \in Mutation /\ m.to \in Server /\ m.chunk \in Chunk /\ m.id \in Attempt
      /\ m.version = store[m.to][m.chunk].version
      /\ steady' = steady /\ applies' = applies \ {m}
      /\ \A t \in Server, l \in Chunk : store'[t][l].version = store[t][l].version
  BY DEF AppliedAt, Mutation, master, Mutated
<1> SUFFICES ASSUME NEW s \in Server, NEW k \in Chunk, handler'[s][k].there, NEW g,
                    g = handler'[s][k]
    PROVE  /\ Begun(g.id)'
           /\ \A n \in applies' : n.id = g.id =>
                n.from = s /\ n.chunk = k /\ n.kind = g.kind /\ n.offset = g.offset
           /\ g.kind = "write" => g.offset + SizeOf(g.id) <= ChunkSize
           /\ g.kind = "write" /\ g.ok =>
                Doomed(k, g)' \/ \A t \in steady'[k] : t \in g.todo \/ HasRecord(t, k, g)'
  BY DEF HandlerInv
<1>1. PICK h : h = handler[s][k]
  OBVIOUS
<1>2. /\ h.there /\ g.id = h.id /\ g.kind = h.kind /\ g.offset = h.offset
      /\ g.ok => h.ok
      /\ \/ g.todo = h.todo
         \/ m.to \in h.todo /\ h.id = m.id /\ g.todo = h.todo \ {m.to} /\ (g.ok => ok)
  BY <1>1, AppliedHandlers
<1>3. h \in Handler
  BY <1>1, <1>2, HandlerType
<1>4. h.id \in Attempt /\ h.todo \subseteq Server
  BY <1>3 DEF Handler
<1>5. /\ Begun(h.id)
      /\ \A n \in applies : n.id = h.id =>
           n.from = s /\ n.chunk = k /\ n.kind = h.kind /\ n.offset = h.offset
      /\ h.kind = "write" => h.offset + SizeOf(h.id) <= ChunkSize
      /\ h.kind = "write" /\ h.ok =>
           Doomed(k, h) \/ \A t \in steady[k] : t \in h.todo \/ HasRecord(t, k, h)
  BY <1>1, <1>2 DEF SafeInv, HandlerInv
<1>6. Begun(g.id)'
  <2> PICK x : x = h.id
    OBVIOUS
  <2>1. Begun(x)'
    BY <1>4, <1>5 DEF ClientMoves, Grows
  <2> QED
    BY <1>2, <2>1 DEF Begun
<1>7. ASSUME Doomed(k, h) PROVE Doomed(k, g)'
  <2>1. PICK t \in h.todo : \A n \in applies : n.id = h.id /\ n.to = t => n.version < store[t][k].version
    BY <1>7 DEF Doomed
  <2>2. t \in g.todo
    <3> SUFFICES ASSUME t = m.to, h.id = m.id PROVE FALSE
      BY <1>2, <2>1
    <3>1. m.chunk = k
      BY <1>5
    <3>2. m.version < m.version /\ m.version \in Nat
      BY <1>0, <2>1, <3>1 DEF Mutation
    <3> QED
      BY <3>2
  <2>3. \A n \in applies' : n.id = g.id /\ n.to = t => n.version < store'[t][k].version
    BY <1>0, <1>2, <1>4, <2>1
  <2> QED
    BY <2>2, <2>3 DEF Doomed
<1>8. ASSUME g.kind = "write", g.ok, ~Doomed(k, h), NEW t \in steady[k], t \notin g.todo
      PROVE  HasRecord(t, k, g)'
  <2>1. t \in Server /\ \A u \in steady[k] : u \in h.todo \/ HasRecord(u, k, h)
    BY <1>2, <1>5, <1>8, MetaType
  <2>2. CASE t \notin h.todo
    <3>1. HasRecord(t, k, h)
      BY <1>8, <2>1, <2>2
    <3>2. HasRecord(t, k, h)'
      BY <1>1, <1>2, <1>8, <2>1, <3>1, RecordStays
    <3> QED
      BY <1>2, <3>2 DEF HasRecord
  <2>3. CASE t \in h.todo
    <3>1. t = m.to /\ h.id = m.id /\ ok
      BY <1>2, <1>8, <2>3
    <3>2. m.chunk = k /\ m.kind = "write" /\ m.offset = h.offset
      BY <1>2, <1>5, <1>8, <3>1
    <3>3. End(m) = m.offset + SizeOf(m.id) /\ Mark(m) = m.id
      BY <1>0, <3>2, EndFact
    <3>4. \A i \in Cell : m.offset <= i /\ i < End(m) => store'[t][k].cell[i] = m.id
      BY <3>1, <3>2, <3>3 DEF AppliedAt
    <3> QED
      BY <1>2, <3>1, <3>2, <3>3, <3>4 DEF HasRecord
  <2> QED
    BY <2>2, <2>3
<1> QED
  BY <1>0, <1>2, <1>5, <1>6, <1>7, <1>8

\* A secondary handles a message.
LEMMA ApplyKeeps ==
  ASSUME Types, MetaInv, CallInv, SafeInv, NEW m \in applies, Apply(m)
  PROVE  Types' /\ MetaInv' /\ CallInv' /\ SafeInv'
<1>1. Types' /\ MetaInv' /\ ClientMoves /\ (Keeps \/ \E ok \in BOOLEAN : AppliedAt(m, ok))
  BY ApplyFact DEF SafeInv
<1>2. CASE Keeps
  BY <1>1, <1>2, KeepsSafe DEF ClientMoves
<1>3. CASE \E ok \in BOOLEAN : AppliedAt(m, ok)
  <2>1. PICK ok \in BOOLEAN : AppliedAt(m, ok)
    BY <1>3
  <2>2. InFlight' /\ RequestInv'
    BY <1>1, <2>1, ApplyRequests
  <2>3. MutationInv'
    BY <1>1, <2>1, ApplyMutations
  <2>4. CellInv'
    BY <1>1, <2>1, ApplyCells
  <2>5. HandlerInv'
    BY <1>1, <2>1, ApplyHandlers
  <2> QED
    BY <1>1, <2>2, <2>3, <2>4, <2>5 DEF ClientMoves, SafeInv
<1> QED
  BY <1>1, <1>2, <1>3

-----------------------------------------------------------------------------
\* The invariant holds at first.
LEMMA InitAppendInv == Init => AppendInv
<1> SUFFICES ASSUME Init PROVE AppendInv
  OBVIOUS
<1>1. {MaxChunks, Inner} \subseteq Nat \ {0} /\ Scenario \subseteq Left
      /\ ChunkSize \in Nat \ {0} /\ Server # {} /\ None \notin Server
  BY RecordAppendAssumption
<1>2. \A k \in Chunk : k \in Nat
  BY <1>1 DEF Chunk
<1> DEFINE m0 == [version |-> 0, replicas |-> Server, primary |-> None]
           f0 == [version |-> 0, length |-> 0, cell |-> [i \in Cell |-> Blank]]
<1>3. m0 \in Meta /\ m0.version = 0 /\ m0.primary = None
  BY <1>1 DEF Meta
<1>4. f0 \in File /\ f0.version = 0 /\ f0.cell = [i \in Cell |-> Blank]
  BY <1>1 DEF File
<1>5. /\ NewCall \in Calls /\ NoLease \in Lease /\ NewCall.pc = "open" /\ NewCall.inner = 0
      /\ NewCall.index = 0 /\ ~NoLease.there
  BY NewCallType DEF NewCall, NoLease
<1>6. NotHeld \in [held : BOOLEAN, others : SUBSET Server] /\ ~NotHeld.held /\ ~NoHandler.there
  BY DEF NotHeld, NoHandler
<1>7. /\ chunks = 0 /\ meta = [k \in Chunk |-> m0] /\ steady = [k \in Chunk |-> Server]
      /\ cache = [k \in Chunk |-> NoLease] /\ call = [c \in Caller |-> NewCall]
      /\ result = [c \in Caller |-> Nothing]
      /\ store = [s \in Server |-> [k \in Chunk |-> f0]]
      /\ lease = [s \in Server |-> [k \in Chunk |-> NotHeld]]
      /\ handler = [s \in Server |-> [k \in Chunk |-> NoHandler]]
      /\ requests = {} /\ applies = {}
      /\ left \in Scenario
  BY DEF Init
<1> HIDE DEF m0, f0
<1>8. Types
  <2>1. ClientTypes
    BY <1>5, <1>7 DEF ClientTypes, Results
  <2>2. ServerTypes
    BY <1>4, <1>6, <1>7 DEF ServerTypes
  <2> QED
    BY <1>1, <1>3, <1>7, <2>1, <2>2 DEF Types
<1>9. MetaInv
  <2> SUFFICES ASSUME NEW k \in Chunk PROVE MetaAt(k)
    BY DEF MetaInv
  <2>1. k \in Nat /\ chunks = 0 /\ meta[k] = m0 /\ steady[k] = Server /\ m0.replicas = Server
    BY <1>2, <1>7 DEF m0
  <2>2. \A s \in Server : store[s][k] = f0 /\ lease[s][k] = NotHeld
    BY <1>7
  <2> QED
    BY <1>3, <1>4, <1>6, <2>1, <2>2 DEF MetaAt
<1>10. CallInv
  BY <1>1, <1>5, <1>7 DEF CallInv
<1>11. InFlight /\ RequestInv /\ MutationInv /\ HandlerInv
  <2>1. \A s \in Server, k \in Chunk : ~handler[s][k].there
    BY <1>6, <1>7
  <2> QED
    BY <1>7, <2>1 DEF InFlight, RequestInv, MutationInv, HandlerInv
<1>12. CellInv
  <2>1. \A s \in Server, k \in Chunk, i \in Cell : store[s][k].cell[i] = Blank
    BY <1>4, <1>7
  <2> QED
    BY <2>1 DEF CellInv
<1> QED
  BY <1>8, <1>9, <1>10, <1>11, <1>12 DEF AppendInv

\* Every step of a call, a primary, a secondary or the master keeps it.
LEMMA StepAppendInv == AppendInv /\ [Next]_vars => AppendInv'
<1> SUFFICES ASSUME AppendInv, [Next]_vars PROVE AppendInv'
  OBVIOUS
<1>0. Types /\ MetaInv /\ CallInv /\ SafeInv
  BY DEF AppendInv, SafeInv
<1> SUFFICES Types' /\ MetaInv' /\ CallInv' /\ SafeInv'
  BY DEF AppendInv, SafeInv
<1>1. ASSUME Keeps /\ MetaInv' /\ Types' /\ ClientMoves
      PROVE  Types' /\ MetaInv' /\ CallInv' /\ SafeInv'
  BY <1>0, <1>1, KeepsSafe DEF ClientMoves
<1>2. ASSUME NEW c \in Caller, CallStep(c) \/ CallFails(c)
      PROVE  Types' /\ MetaInv' /\ CallInv' /\ SafeInv'
  <2>1. CASE Push(c)
    BY <1>0, <2>1, PushKeeps
  <2>2. CASE Grant(c)
    BY <1>0, <1>1, <2>2, GrantKeeps
  <2>3. CASE ~Push(c) /\ ~Grant(c)
    BY <1>0, <1>1, <1>2, <2>3, CallStepKeeps DEF CallStep
  <2> QED
    BY <2>1, <2>2, <2>3
<1>3. ASSUME NEW r \in requests, HandleRequest(r)
      PROVE  Types' /\ MetaInv' /\ CallInv' /\ SafeInv'
  <2>1. CASE HandleAppend(r)
    BY <1>0, <2>1, HandleAppendKeeps
  <2>2. CASE Refuse(r) \/ DataMissing(r)
    BY <1>0, <1>1, <2>2, ServerStepKeeps
  <2> QED
    BY <1>3, <2>1, <2>2 DEF HandleRequest
<1>4. ASSUME NEW m \in applies, Apply(m) \/ ForwardFails(m)
      PROVE  Types' /\ MetaInv' /\ CallInv' /\ SafeInv'
  <2>1. CASE Apply(m)
    BY <1>0, <2>1, ApplyKeeps
  <2>2. CASE ForwardFails(m)
    BY <1>0, <1>1, <2>2, ServerStepKeeps
  <2> QED
    BY <1>4, <2>1, <2>2
<1>5. ASSUME NEW s \in Server, NEW k \in Chunk, FinishAppend(s, k) \/ LeaseExpires(s, k)
      PROVE  Types' /\ MetaInv' /\ CallInv' /\ SafeInv'
  BY <1>0, <1>1, <1>5, ServerStepKeeps
<1>8. ASSUME NEW k \in Chunk, Regrant(k) \/ \E s \in Server : HeartBeat(s, k)
      PROVE  Types' /\ MetaInv' /\ CallInv' /\ SafeInv'
  BY <1>0, <1>1, <1>8, MasterKeeps
<1>6. ASSUME NEW s \in Server, Restart(s)
      PROVE  Types' /\ MetaInv' /\ CallInv' /\ SafeInv'
  BY <1>0, <1>1, <1>6, ServerStepKeeps
<1>7. CASE UNCHANGED vars
  <2>1. chunks' \in Int /\ chunks <= chunks'
    BY <1>0, <1>7, MetaType DEF vars, master
  <2>2. ClientMoves
    BY <1>0, <1>7, <2>1, NoChange DEF vars
  <2>3. Keeps /\ MetaInv' /\ Types'
    BY <1>0, <1>7, <2>2, ClientOnly DEF vars, servers
  <2> QED
    BY <1>1, <2>2, <2>3
<1> QED
  BY <1>2, <1>3, <1>4, <1>5, <1>6, <1>7, <1>8 DEF Next

\* The invariant of record append.
LEMMA AppendInvariant == Spec => []AppendInv
<1> QED
  BY InitAppendInv, StepAppendInv, PTL DEF Spec

\* A call works on a chunk of the file, or on the one that it is about to add;
\* the master knows of every version; no chunk is longer than it may be, whatever
\* Chunkserver::AppendRecord appends to it and a late ApplyMutation writes.
THEOREM TypeCorrect == Spec => []TypeOK
<1>1. AppendInv => TypeOK
  <2> SUFFICES ASSUME AppendInv PROVE TypeOK
    OBVIOUS
  <2>0. Types /\ MetaInv /\ CallInv
    BY DEF AppendInv
  <2>1. chunks \in 0..MaxChunks /\ left \in Left
    BY <2>0 DEF Types
  <2>2. \A k \in Chunk : /\ meta[k].replicas \in (SUBSET Server) \ {{}}
                         /\ meta[k].primary \in meta[k].replicas \cup {None}
                         /\ steady[k] \subseteq meta[k].replicas
    BY <2>0 DEF Types, Meta, MetaInv, MetaAt
  <2>3. ASSUME NEW c \in Caller PROVE call[c].index <= chunks /\ call[c].inner < Inner
    <3>1. call[c].index \in Nat /\ chunks \in Nat
      BY <2>0, MetaType DEF Types, ClientTypes, Calls
    <3> QED
      BY <2>0, <3>1 DEF CallInv
  <2>4. \A s \in Server, k \in Chunk : /\ store[s][k].version <= meta[k].version
                                       /\ store[s][k].length \in 0..ChunkSize
    BY <2>0, FileType DEF MetaInv, MetaAt
  <2> QED
    BY <2>1, <2>2, <2>3, <2>4 DEF TypeOK
<1> QED
  BY <1>1, AppendInvariant, PTL

-----------------------------------------------------------------------------
(* Records: none is lost, and they lie apart.                              *)

\* What all replicas that never left have in a cell, those that stay go on to have.
NothingLost ==
  \A k \in Chunk :
    /\ steady'[k] \subseteq steady[k]
    /\ \A i \in Cell, x \in Attempt :
         (\A s \in steady[k] : store[s][k].cell[i] = x) =>
           \A s \in steady'[k] : store'[s][k].cell[i] = x

StillBegun == \A x \in Attempt : Begun(x) => x[2] \in 1..call'[x[1]].number

\* Steps that write nothing lose nothing.
LEMMA KeepsRecords ==
  ASSUME Types, NothingNew, ClientMoves
  PROVE  NothingLost /\ StillBegun
<1>1. \A k \in Chunk : steady'[k] \subseteq steady[k]
  BY DEF NothingNew
<1>2. \A k \in Chunk : \A s \in steady[k] : store'[s][k].cell = store[s][k].cell
  BY MetaType DEF NothingNew, SameFile
<1>3. StillBegun
  BY DEF ClientMoves, Grows, StillBegun, Begun
<1> QED
  BY <1>1, <1>2, <1>3 DEF NothingLost

\* Pushed data is not in the chunks yet.
LEMMA PushRecords ==
  ASSUME Types, NEW c \in Caller, Push(c)
  PROVE  NothingLost /\ StillBegun
<1>1. UNCHANGED <<steady, store>> /\ call' = [call EXCEPT ![c].pc = "sent"]
  BY DEF Push, master
<1>2. \A d \in Caller : call'[d].number = call[d].number
  BY <1>1 DEF Types, ClientTypes, Calls
<1>3. \A x \in Attempt : x[1] \in Caller
  BY DEF Attempt
<1> QED
  BY <1>1, <1>2, <1>3 DEF NothingLost, StillBegun, Begun

\* A primary writes where its chunk ends, so it overwrites nothing.
LEMMA HandleAppendRecords ==
  ASSUME Types, MetaInv, CallInv, SafeInv, NEW r \in requests, HandleAppend(r)
  PROVE  NothingLost /\ StillBegun
<1>1. PICK m \in Mutation, ok \in BOOLEAN : HandledAppend(r, m, ok)
  BY HandleAppendFact
<1>2. ClientMoves
  BY HandleAppendFact
<1>3. steady' = steady
  BY <1>1 DEF HandledAppend, master
<1>4. ASSUME NEW k \in Chunk, NEW i \in Cell, NEW x \in Attempt, NEW s \in steady[k],
             store[s][k].cell[i] = x
      PROVE  store'[s][k].cell[i] = x
  <2>1. s \in Server /\ x # Blank
    BY MetaType, SizeFact
  <2> QED
    BY <1>1, <1>4, <2>1, AppendsAtEnd DEF SafeInv
<1> QED
  BY <1>2, <1>3, <1>4 DEF NothingLost, ClientMoves, Grows, StillBegun, Begun

\* What a secondary writes the primary has in the same cells: where the replicas
\* that never left agree on another record, it does not write.
LEMMA ApplyRecords ==
  ASSUME Types, MetaInv, CallInv, SafeInv, NEW m \in applies, Apply(m)
  PROVE  NothingLost /\ StillBegun
<1>1. ClientMoves /\ (Keeps \/ \E ok \in BOOLEAN : AppliedAt(m, ok))
  BY ApplyFact DEF SafeInv
<1>2. CASE Keeps
  BY <1>1, <1>2, KeepsRecords DEF Keeps
<1>3. CASE \E ok \in BOOLEAN : AppliedAt(m, ok)
  <2>1. PICK ok \in BOOLEAN : AppliedAt(m, ok)
    BY <1>3
  <2>2. steady' = steady /\ m \in Mutation /\ m.to \in Server /\ m.chunk \in Chunk
    BY <2>1 DEF AppliedAt, master, Mutation
  <2>3. ASSUME NEW k \in Chunk, NEW i \in Cell, NEW x \in Attempt,
               \A s \in steady[k] : store[s][k].cell[i] = x, NEW t \in steady[k]
        PROVE  store'[t][k].cell[i] = x
    <3>1. CASE ~(t = m.to /\ k = m.chunk)
      <4>1. t \in Server
        BY MetaType
      <4> QED
        BY <2>1, <2>3, <3>1, <4>1 DEF AppliedAt
    <3>2. CASE t = m.to /\ k = m.chunk
      <4>0. MetaAt(k) /\ store[t][k].version = meta[k].version
        BY <2>2, <3>2 DEF MetaInv, MetaAt
      <4>1. Ordered(m)
        BY <2>1, <3>2, <4>0, AppliedInOrder
      <4>2. PICK p : p = meta[k].primary
        OBVIOUS
      <4>3. p \in steady[k] /\ (m.offset <= i /\ i < End(m) => store[p][k].cell[i] = Mark(m))
        BY <3>2, <4>0, <4>1, <4>2 DEF Ordered, MetaAt
      <4>4. m.offset <= i /\ i < End(m) => Mark(m) = x
        BY <2>3, <4>3
      <4>5. Mutated(store[t][k], store'[t][k], m) /\ store[t][k].cell[i] = x
        BY <2>1, <2>3, <3>2 DEF AppliedAt
      <4> QED
        BY <4>4, <4>5 DEF Mutated
    <3> QED
      BY <3>1, <3>2
  <2> QED
    BY <1>1, <2>2, <2>3 DEF NothingLost, ClientMoves, Grows, StillBegun, Begun
<1> QED
  BY <1>1, <1>2, <1>3

\* No step loses what all replicas that never left have.
LEMMA StepRecords == AppendInv /\ [Next]_vars => NothingLost /\ StillBegun
<1> SUFFICES ASSUME AppendInv, [Next]_vars PROVE NothingLost /\ StillBegun
  OBVIOUS
<1>0. Types /\ MetaInv /\ CallInv /\ SafeInv
  BY DEF AppendInv, SafeInv
<1>1. ASSUME Keeps /\ ClientMoves PROVE NothingLost /\ StillBegun
  BY <1>0, <1>1, KeepsRecords DEF Keeps
<1>2. ASSUME NEW c \in Caller, CallStep(c) \/ CallFails(c) PROVE NothingLost /\ StillBegun
  <2>1. CASE Push(c)
    BY <1>0, <2>1, PushRecords
  <2>2. CASE Grant(c)
    BY <1>0, <1>1, <2>2, GrantKeeps
  <2>3. CASE ~Push(c) /\ ~Grant(c)
    BY <1>0, <1>1, <1>2, <2>3, CallStepKeeps DEF CallStep
  <2> QED
    BY <2>1, <2>2, <2>3
<1>3. ASSUME NEW r \in requests, HandleRequest(r) PROVE NothingLost /\ StillBegun
  <2>1. CASE HandleAppend(r)
    BY <1>0, <2>1, HandleAppendRecords
  <2>2. CASE Refuse(r) \/ DataMissing(r)
    BY <1>0, <1>1, <2>2, ServerStepKeeps
  <2> QED
    BY <1>3, <2>1, <2>2 DEF HandleRequest
<1>4. ASSUME NEW m \in applies, Apply(m) \/ ForwardFails(m) PROVE NothingLost /\ StillBegun
  <2>1. CASE Apply(m)
    BY <1>0, <2>1, ApplyRecords
  <2>2. CASE ForwardFails(m)
    BY <1>0, <1>1, <2>2, ServerStepKeeps
  <2> QED
    BY <1>4, <2>1, <2>2
<1>5. ASSUME NEW s \in Server, NEW k \in Chunk, FinishAppend(s, k) \/ LeaseExpires(s, k)
      PROVE  NothingLost /\ StillBegun
  BY <1>0, <1>1, <1>5, ServerStepKeeps
<1>8. ASSUME NEW k \in Chunk, Regrant(k) \/ \E s \in Server : HeartBeat(s, k)
      PROVE  NothingLost /\ StillBegun
  BY <1>0, <1>1, <1>8, MasterKeeps
<1>6. ASSUME NEW s \in Server, Restart(s) PROVE NothingLost /\ StillBegun
  BY <1>0, <1>1, <1>6, ServerStepKeeps
<1>7. CASE UNCHANGED vars
  <2>1. UNCHANGED <<steady, store, call>>
    BY <1>7 DEF vars, master, client, servers
  <2> QED
    BY <2>1 DEF NothingLost, StillBegun, Begun
<1> QED
  BY <1>2, <1>3, <1>4, <1>5, <1>6, <1>7, <1>8 DEF Next

\* A record in its place, and the cells that it takes.
InPlace(r, n) ==
  \A i \in Cell : r.offset <= i /\ i < r.offset + Size[r.caller] =>
    \A s \in steady[r.chunk] : store[s][r.chunk].cell[i] = <<r.caller, n>>

\* The cells of a record.
LEMMA RecordFact ==
  ASSUME NEW r \in Place
  PROVE  /\ r.caller \in Caller /\ r.chunk \in Chunk /\ r.offset \in Cell /\ r.offset \in Nat
         /\ Size[r.caller] \in Nat /\ 0 < Size[r.caller] /\ ChunkSize \in Nat
         /\ r.offset + Size[r.caller] <= ChunkSize
         /\ \A n : (\A s \in steady[r.chunk] : Holds(store[s][r.chunk], r, n))
                     <=> InPlace(r, n)
         /\ \A i : i \in r.offset..(r.offset + Size[r.caller] - 1) <=>
                     i \in Cell /\ r.offset <= i /\ i < r.offset + Size[r.caller]
<1>1. r.caller \in Caller /\ r.chunk \in Chunk /\ r.offset \in Cell
      /\ r.offset + Size[r.caller] <= ChunkSize
  BY DEF Place
<1>2. ChunkSize \in Nat /\ Size[r.caller] \in 1..ChunkSize /\ r.offset \in Nat
  BY <1>1, RecordAppendAssumption DEF Cell
<1>3. \A i : i \in r.offset..(r.offset + Size[r.caller] - 1) <=>
               i \in Cell /\ r.offset <= i /\ i < r.offset + Size[r.caller]
  BY <1>1, <1>2 DEF Cell
<1> QED
  BY <1>1, <1>2, <1>3 DEF Holds, InPlace

\* A record that all replicas that never left have stays where it is.
LEMMA RecordsGrow ==
  ASSUME AppendInv, NothingLost, StillBegun, Survives'
  PROVE  Records \subseteq Records'
<1> SUFFICES ASSUME NEW r \in Records PROVE r \in Records'
  OBVIOUS
<1>1. r \in Place
  BY DEF Records
<1>2. PICK n \in 1..call[r.caller].number : InPlace(r, n)
  BY <1>1, RecordFact DEF Records
<1>3. Types
  BY DEF AppendInv
<1>4. PICK s \in steady[r.chunk] : TRUE
  BY <1>1, RecordFact DEF Survives, NothingLost
<1>5. <<r.caller, n>> \in Attempt /\ s \in Server
  <2>1. call[r.caller].number \in Nat
    BY <1>1, <1>3, RecordFact DEF Types, ClientTypes, Calls
  <2> QED
    BY <1>1, <1>2, <1>3, <2>1, RecordFact, MetaType DEF Attempt
<1>6. Begun(<<r.caller, n>>)
  <2>1. store[s][r.chunk].cell[r.offset] = <<r.caller, n>>
    BY <1>1, <1>2, RecordFact DEF InPlace
  <2>2. <<r.caller, n>> # Blank
    BY <1>5, SizeFact
  <2> QED
    BY <1>1, <1>5, <2>1, <2>2, RecordFact DEF AppendInv, CellInv
<1>7. n \in 1..call'[r.caller].number
  BY <1>5, <1>6 DEF StillBegun
<1>8. ASSUME NEW t \in steady'[r.chunk] PROVE Holds(store'[t][r.chunk], r, n)
  <2> SUFFICES ASSUME NEW i \in Cell, r.offset <= i, i < r.offset + Size[r.caller]
               PROVE  store'[t][r.chunk].cell[i] = <<r.caller, n>>
    BY <1>1, RecordFact DEF Holds
  <2>1. \A u \in steady[r.chunk] : store[u][r.chunk].cell[i] = <<r.caller, n>>
    BY <1>2 DEF InPlace
  <2>2. r.chunk \in Chunk
    BY <1>1, RecordFact
  <2> QED
    BY <1>5, <2>1, <2>2 DEF NothingLost
<1> QED
  BY <1>1, <1>7, <1>8 DEF Records

RecordsApart == Abstract!Apart(Records)

\* Two records never share a cell.
LEMMA ApartRecords == AppendInv /\ Survives => RecordsApart
<1> SUFFICES ASSUME AppendInv, Survives PROVE RecordsApart
  OBVIOUS
<1>0. Types /\ CellInv
  BY DEF AppendInv
<1>1. \A r \in Records : r \in Place /\ r.offset + Size[r.caller] <= ChunkSize
  BY DEF Records, Place
<1>2. ASSUME NEW r \in Records, NEW q \in Records, Abstract!Overlap(r, q),
             r.offset < q.offset \/ (r.offset = q.offset /\ r.caller # q.caller)
      PROVE  FALSE
  <2>1. PICK n : n \in 1..call[r.caller].number /\ InPlace(r, n)
    BY <1>1, RecordFact DEF Records
  <2>2. PICK l : l \in 1..call[q.caller].number /\ InPlace(q, l)
    BY <1>1, RecordFact DEF Records
  <2>3. /\ r.caller \in Caller /\ r.chunk \in Chunk /\ r.offset \in Nat /\ r.offset \in Cell
        /\ Size[r.caller] \in Nat /\ r.offset + Size[r.caller] <= ChunkSize
        /\ 0 < Size[r.caller] /\ ChunkSize \in Nat
    BY <1>1, RecordFact
  <2>4. /\ q.caller \in Caller /\ q.offset \in Nat /\ q.offset \in Cell
        /\ Size[q.caller] \in Nat /\ q.offset + Size[q.caller] <= ChunkSize
        /\ 0 < Size[q.caller]
    BY <1>1, RecordFact
  <2>5. r.chunk = q.chunk /\ q.offset < r.offset + Size[r.caller]
    BY <1>2 DEF Abstract!Overlap
  <2>6. PICK s \in steady[r.chunk] : s \in Server
    BY <1>0, <2>3, MetaType DEF Survives
  <2>7. /\ store[s][r.chunk].cell[q.offset] = <<r.caller, n>>
        /\ store[s][r.chunk].cell[q.offset] = <<q.caller, l>>
    <3>1. r.offset <= q.offset /\ q.offset <= q.offset /\ q.offset < q.offset + Size[q.caller]
      BY <1>2, <2>3, <2>4
    <3> QED
      BY <2>1, <2>2, <2>4, <2>5, <2>6, <3>1 DEF InPlace
  <2>8. q.caller = r.caller /\ l = n /\ r.offset < q.offset
    BY <1>2, <2>7
  <2> DEFINE j == q.offset + Size[q.caller] - 1
  <2>9. j \in Cell /\ q.offset <= j /\ j < q.offset + Size[q.caller] /\ j \in Int
    BY <2>3, <2>4 DEF Cell
  <2>10. store[s][r.chunk].cell[j] = <<r.caller, n>>
    <3> HIDE DEF j
    <3> QED
      BY <2>2, <2>5, <2>6, <2>8, <2>9 DEF InPlace
  <2>11. store[s][r.chunk].cell[r.offset] = <<r.caller, n>>
    <3>1. r.offset <= r.offset /\ r.offset < r.offset + Size[r.caller]
      BY <2>3
    <3> QED
      BY <2>1, <2>3, <2>6, <3>1 DEF InPlace
  <2>12. <<r.caller, n>> # Blank /\ SizeOf(<<r.caller, n>>) = Size[r.caller]
    BY DEF Blank, SizeOf
  <2>13. j - r.offset < Size[r.caller]
    <3> HIDE DEF j
    <3> QED
      BY <1>0, <2>3, <2>6, <2>9, <2>10, <2>11, <2>12 DEF CellInv
  <2> QED
    BY <2>3, <2>4, <2>8, <2>13
<1>3. ASSUME NEW r \in Records, NEW q \in Records, r # q, Abstract!Overlap(r, q) PROVE FALSE
  <2>1. Abstract!Overlap(q, r)
    BY <1>3 DEF Abstract!Overlap
  <2>2. r.offset \in Nat /\ q.offset \in Nat /\ r.chunk = q.chunk
    BY <1>1, <1>3, RecordFact DEF Abstract!Overlap
  <2>3. r.offset = q.offset => r.caller # q.caller
    BY <1>1, <1>3, <2>2 DEF Place
  <2> QED
    BY <1>2, <1>3, <2>1, <2>2, <2>3
<1> QED
  BY <1>1, <1>3 DEF RecordsApart, Abstract!Apart

-----------------------------------------------------------------------------
(* What the calls return.                                                  *)

\* No call returns, or one fails.
Quiet ==
  \/ UNCHANGED result
  \/ \E c \in Caller : result[c] = Nothing /\ result' = [result EXCEPT ![c] = Failed]

LEMMA AttemptFailsQuiet ==
  ASSUME CallInv, NEW c \in Caller, AttemptFails(c) \/ Again(c) \/ Return(c, Failed),
         call[c].pc # "done"
  PROVE  Quiet
  BY DEF CallInv, AttemptFails, Again, Goes, Return, Quiet

\* Only the answer OK makes a call succeed.
LEMMA AnsweredQuiet ==
  ASSUME CallInv, NEW id \in Attempt, NEW kind, kind # "ok", NEW offset,
         Answered(id, kind, offset)
  PROVE  Quiet
<1>1. PICK c \in Caller : c = id[1]
  BY DEF Attempt
<1>2. CASE ~At(c, "sent") \/ id # Id(c)
  BY <1>1, <1>2 DEF Answered, client, Quiet
<1>3. CASE At(c, "sent") /\ id = Id(c)
  <2>1. AttemptFails(c) \/ UNCHANGED result
    BY <1>1, <1>3 DEF Answered, Goes
  <2>2. call[c].pc # "done"
    BY <1>3 DEF At
  <2> QED
    BY <2>1, <2>2, AttemptFailsQuiet DEF Quiet
<1> QED
  BY <1>2, <1>3

\* No call succeeds by a step of its own.
LEMMA CallStepQuiet ==
  ASSUME CallInv, NEW c \in Caller, CallStep(c) \/ CallFails(c)
  PROVE  Quiet
<1>1. CASE Open(c)
  BY <1>1 DEF Open, Goes, Quiet
<1>2. CASE NextChunk(c)
  <2>1. call[c].pc # "done" /\ (UNCHANGED result \/ Return(c, Failed))
    BY <1>2 DEF NextChunk, At, Goes
  <2> QED
    BY <2>1, AttemptFailsQuiet DEF Quiet
<1>3. CASE FindCached(c) \/ FindLease(c) \/ Grant(c) \/ Learn(c)
  BY <1>3 DEF FindCached, FindLease, Grant, Learn, Found, Tells, Quiet
<1>4. CASE Push(c)
  BY <1>4 DEF Push, Quiet
<1>5. CASE ConnectionBreaks(c)
  BY <1>5, AttemptFailsQuiet DEF ConnectionBreaks, At
<1>6. CASE OpenFails(c)
  BY <1>6, AttemptFailsQuiet DEF OpenFails, At
<1>7. CASE NextChunkFails(c)
  BY <1>7 DEF NextChunkFails, Goes, Quiet
<1>8. CASE FindLeaseFails(c)
  <2>1. call[c].pc # "done" /\ (UNCHANGED result \/ Return(c, Failed))
    BY <1>8 DEF FindLeaseFails, At, Goes
  <2> QED
    BY <2>1, AttemptFailsQuiet DEF Quiet
<1>9. CASE PushFails(c)
  BY <1>9, AttemptFailsQuiet DEF PushFails, At
<1>10. CASE DeadlinePasses(c)
  BY <1>10, AttemptFailsQuiet DEF DeadlinePasses, At
<1> QED
  BY <1>1, <1>2, <1>3, <1>4, <1>5, <1>6, <1>7, <1>8, <1>9, <1>10 DEF CallStep, CallFails

\* A call that returns OK names a place where all replicas that never left have
\* its record.
Succeeds ==
  \E c \in Caller, r \in Records :
    /\ r.caller = c /\ result[c] = Nothing
    /\ result' = [result EXCEPT ![c] = [kind |-> "ok", at |-> r]]
    /\ Records' = Records

LEMMA SameRecords ==
  ASSUME UNCHANGED <<steady, store>>, \A c \in Caller : call'[c].number = call[c].number
  PROVE  Records' = Records
<1>1. \A r \in Place : r.caller \in Caller
  BY DEF Place
<1> QED
  BY <1>1 DEF Records

\* A primary that answers OK has heard from all secondaries, and none was left
\* behind by a grant: all replicas that never left have the record.
LEMMA FinishSucceeds ==
  ASSUME AppendInv, NEW s \in Server, NEW k \in Chunk, FinishAppend(s, k)
  PROVE  Quiet \/ Succeeds
<1>0. Types /\ CallInv /\ InFlight /\ HandlerInv /\ MetaInv
  BY DEF AppendInv
<1>1. PICK h : h = handler[s][k]
  OBVIOUS
<1>2. h.there /\ h.todo = {} /\ UNCHANGED <<steady, store>>
  BY <1>1 DEF FinishAppend, master
<1>3. h \in Handler
  BY <1>0, <1>1, <1>2, HandlerType
<1>4. PICK id \in Attempt, offset \in Nat : id = h.id /\ offset = h.offset
  BY <1>3 DEF Handler
<1>5. CASE ~h.ok \/ h.kind = "pad"
  <2>1. PICK kind : kind # "ok" /\ Answered(id, kind, offset)
    <3>1. Answered(id, "failed", offset) \/ Answered(id, "next", offset)
      BY <1>1, <1>4, <1>5, Zenon DEF FinishAppend
    <3> QED
      BY <3>1
  <2> QED
    BY <1>0, <2>1, AnsweredQuiet
<1>6. CASE h.ok /\ h.kind # "pad"
  <2>1. Answered(id, "ok", offset)
    BY <1>1, <1>4, <1>6, Zenon DEF FinishAppend
  <2>2. PICK c \in Caller : c = id[1]
    BY DEF Attempt
  <2>3. CASE ~At(c, "sent") \/ id # Id(c)
    BY <2>1, <2>2, <2>3 DEF Answered, client, Quiet
  <2>4. CASE At(c, "sent") /\ id = Id(c)
    <3>1. Return(c, [kind |-> "ok", at |-> [caller |-> c, chunk |-> call[c].index,
                                            offset |-> offset]])
      BY <2>1, <2>2, <2>4 DEF Answered
    <3>2. k = call[c].index /\ result[c] = Nothing
      BY <1>0, <1>1, <1>2, <1>4, <2>4 DEF InFlight, CallInv, At
    <3>3. PICK r : r = [caller |-> c, chunk |-> k, offset |-> offset]
      OBVIOUS
    <3>4. h.kind = "write" /\ offset + SizeOf(id) <= ChunkSize /\ SizeOf(id) = Size[c]
      <4>1. h.kind = "write"
        BY <1>3, <1>6 DEF Handler, Kind
      <4>2. h.offset + SizeOf(h.id) <= ChunkSize
        BY <1>0, <1>1, <1>2, <4>1 DEF HandlerInv
      <4> QED
        BY <1>4, <2>2, <4>1, <4>2 DEF SizeOf
    <3>5. r \in Place
      <4>1. Size[c] \in 1..ChunkSize /\ ChunkSize \in Nat
        BY RecordAppendAssumption
      <4>2. offset \in Cell
        BY <3>4, <4>1 DEF Cell
      <4> QED
        BY <3>3, <3>4, <4>2 DEF Place
    <3>6. \A t \in steady[k] : HasRecord(t, k, h)
      <4>1. ~Doomed(k, h)
        BY <1>2 DEF Doomed
      <4> QED
        BY <1>0, <1>1, <1>2, <1>6, <3>4, <4>1 DEF HandlerInv
    <3>7. PICK n : n = call[c].number
      OBVIOUS
    <3>8. n \in 1..call[c].number /\ id = <<c, n>>
      <4>1. Begun(h.id)
        BY <1>0, <1>1, <1>2 DEF HandlerInv
      <4> QED
        BY <1>4, <2>2, <2>4, <3>7, <4>1 DEF Begun, Id
    <3>9. InPlace(r, n)
      BY <1>4, <3>3, <3>4, <3>6, <3>8 DEF InPlace, HasRecord
    <3>10. r \in Records
      BY <3>3, <3>5, <3>8, <3>9, RecordFact DEF Records
    <3>11. Records' = Records
      <4>1. PICK u : u = [NewCall EXCEPT !.pc = "done", !.number = call[c].number]
        OBVIOUS
      <4>2. u.number = call[c].number
        BY <4>1 DEF NewCall
      <4>3. call' = [call EXCEPT ![c] = u]
        BY <3>1, <4>1 DEF Return
      <4>4. \A d \in Caller : call'[d].number = call[d].number
        BY <1>0, <4>2, <4>3 DEF Types, ClientTypes
      <4> QED
        BY <1>2, <4>4, SameRecords
    <3>12. result' = [result EXCEPT ![c] = [kind |-> "ok", at |-> r]]
      BY <3>1, <3>2, <3>3 DEF Return
    <3> QED
      BY <3>2, <3>3, <3>10, <3>11, <3>12 DEF Succeeds
  <2> QED
    BY <2>3, <2>4
<1> QED
  BY <1>5, <1>6

\* How calls return.
LEMMA StepResult == AppendInv /\ [Next]_vars => Quiet \/ Succeeds
<1> SUFFICES ASSUME AppendInv, [Next]_vars PROVE Quiet \/ Succeeds
  OBVIOUS
<1>0. Types /\ CallInv
  BY DEF AppendInv
<1>1. \A r \in requests : r.id \in Attempt
  BY <1>0 DEF Types, ServerTypes, Request
<1>2. ASSUME NEW c \in Caller, CallStep(c) \/ CallFails(c) PROVE Quiet
  BY <1>0, <1>2, CallStepQuiet
<1>3. ASSUME NEW r \in requests, HandleRequest(r) PROVE Quiet
  <2>1. UNCHANGED result \/ \E kind : kind # "ok" /\ Answered(r.id, kind, 0)
    <3>1. CASE Refuse(r) \/ DataMissing(r)
      <4>1. Answered(r.id, "refused", 0) \/ Answered(r.id, "failed", 0)
        BY <3>1 DEF Refuse, DataMissing
      <4> QED
        BY <4>1
    <3>2. CASE HandleAppend(r)
      <4>1. UNCHANGED client \/ Answered(r.id, "failed", 0)
        BY <3>2, Zenon DEF HandleAppend
      <4> QED
        BY <4>1 DEF client
    <3> QED
      BY <1>3, <3>1, <3>2 DEF HandleRequest
  <2> QED
    BY <1>0, <1>1, <2>1, AnsweredQuiet DEF Quiet
<1>4. ASSUME NEW m \in applies, Apply(m) \/ ForwardFails(m) PROVE Quiet
  BY <1>4 DEF Apply, ForwardFails, client, Quiet
<1>5. ASSUME NEW s \in Server, NEW k \in Chunk, FinishAppend(s, k) \/ LeaseExpires(s, k)
      PROVE  Quiet \/ Succeeds
  <2>1. CASE FinishAppend(s, k)
    BY <2>1, FinishSucceeds
  <2>2. CASE LeaseExpires(s, k)
    BY <2>2 DEF LeaseExpires, client, Quiet
  <2> QED
    BY <1>5, <2>1, <2>2
<1>8. ASSUME NEW k \in Chunk, Regrant(k) \/ \E s \in Server : HeartBeat(s, k) PROVE Quiet
  BY <1>8 DEF Regrant, HeartBeat, client, Quiet
<1>6. ASSUME NEW s \in Server, Restart(s) PROVE Quiet
  BY <1>6 DEF Restart, client, Quiet
<1>7. CASE UNCHANGED vars
  BY <1>7 DEF vars, client, Quiet
<1> QED
  BY <1>2, <1>3, <1>4, <1>5, <1>6, <1>7, <1>8 DEF Next

\* Record append implements AtLeastOnce as long as each chunk keeps a replica that
\* never left (and so is given no primary that did: a grant that makes a replica
\* primary that was dropped, though it has the version, ends the claim).  A call of
\* Client::RecordAppend that returns OK names a place where all replicas that never
\* left have its record, and neither an attempt that was given up and is handled
\* after all, nor a mutation of an earlier primary or of one that came back, nor a
\* pad overwrites a record that they all have.
THEOREM AppendImplements == Spec => AppendSpec
<1>1. Init => Abstract!Init
  <2> SUFFICES ASSUME Init PROVE Records = {} /\ result = [c \in Caller |-> Abstract!Nothing]
    BY DEF Abstract!Init
  <2>1. \A c \in Caller : call[c].number = 0
    BY DEF Init, NewCall
  <2>2. \A r \in Place : call[r.caller].number = 0
    BY <2>1 DEF Place
  <2>3. \A n : n \notin 1..0
    OBVIOUS
  <2>4. Records = {}
    BY <2>2, <2>3 DEF Records
  <2> QED
    BY <2>4 DEF Init, Nothing, Abstract!Nothing
<1>2. AppendInv /\ AppendInv' /\ (Survives => RecordsApart)' /\ [Next]_vars
      => [Survives' => Abstract!Next]_(Abstract!vars)
  <2> SUFFICES ASSUME AppendInv, (Survives => RecordsApart)', [Next]_vars, Survives'
               PROVE  Abstract!Next
    OBVIOUS
  <2>1. Records \subseteq Records'
    BY StepRecords, RecordsGrow
  <2>2. Records' \in SUBSET Abstract!Record
    <3>1. Place \subseteq Abstract!Record
      BY RecordAppendAssumption DEF Place, Cell, Abstract!Record
    <3> QED
      BY <3>1 DEF Records
  <2>3. Abstract!Grow
    BY <2>1, <2>2 DEF Abstract!Grow, RecordsApart
  <2>4. CASE UNCHANGED result
    BY <2>3, <2>4 DEF Abstract!Next, Abstract!Place
  <2>5. CASE \E c \in Caller : result[c] = Nothing /\ result' = [result EXCEPT ![c] = Failed]
    BY <2>3, <2>5
    DEF Abstract!Next, Abstract!Fail, Abstract!Return, Abstract!Failed, Abstract!Nothing,
        Failed, Nothing
  <2>6. CASE Succeeds
    <3>1. PICK c \in Caller, r \in Records :
            /\ r.caller = c /\ result[c] = Nothing
            /\ result' = [result EXCEPT ![c] = [kind |-> "ok", at |-> r]]
            /\ Records' = Records
      BY <2>6 DEF Succeeds
    <3>2. Abstract!Return(c, Abstract!Ok(r))
      BY <3>1 DEF Abstract!Return, Abstract!Ok, Abstract!Nothing, Nothing
    <3>3. Abstract!Succeed(c)
      BY <3>1, <3>2 DEF Abstract!Succeed
    <3> QED
      BY <3>3 DEF Abstract!Next
  <2> QED
    BY <2>4, <2>5, <2>6, StepResult DEF Quiet
<1>3. AppendInv => (Survives => RecordsApart)
  BY ApartRecords
<1> QED
  BY <1>1, <1>2, <1>3, AppendInvariant, PTL DEF Spec, AppendSpec

-----------------------------------------------------------------------------
(* The data buffer.                                                        *)

\* A set of numbers that is not empty has a least one.
LEMMA NatMin ==
  ASSUME NEW T, T \subseteq Nat, T # {}
  PROVE  \E x \in T : \A y \in T : x <= y
<1>1. IsWellFoundedOn(OpToRel(<, Nat), Nat)
  BY NatLessThanWellFounded
<1>2. PICK R : R = {ss \in Nat \X Nat : ss[1] < ss[2]} /\ IsWellFoundedOn(R, Nat)
  BY <1>1 DEF OpToRel
<1>3. \E x \in T : \A y \in T : <<y, x>> \notin R
  BY <1>2, WFMin
<1>4. PICK x \in T : \A y \in T : <<y, x>> \notin R
  BY <1>3
<1>5. \A y \in T : ~(y < x) /\ y \in Nat /\ x \in Nat
  BY <1>2, <1>4
<1>6. \A y \in T : x <= y
  BY <1>5
<1> QED
  BY <1>6

\* Induction: a set of numbers with 0 and with the successor of each of its own.
LEMMA SetInd ==
  ASSUME NEW P, 0 \in P, \A n \in Nat : n \in P => n + 1 \in P
  PROVE  Nat \subseteq P
<1> SUFFICES ASSUME ~(Nat \subseteq P) PROVE FALSE
  OBVIOUS
<1> DEFINE T == Nat \ P
<1>1. PICK x \in T : \A y \in T : x <= y
  <2>1. T \subseteq Nat /\ T # {}
    OBVIOUS
  <2> HIDE DEF T
  <2> QED
    BY <2>1, NatMin
<1>2. x \in Nat /\ x # 0
  OBVIOUS
<1>3. x - 1 \in Nat /\ ~(x <= x - 1)
  BY <1>2
<1>4. x - 1 \in P
  BY <1>1, <1>3
<1>5. x - 1 + 1 \in P
  BY <1>3, <1>4
<1> QED
  BY <1>2, <1>5

\* u holds the sizes of the first entries of buffer b taken together.
IsSums(u, b) == u = [n \in 0..Len(b) |-> IF n = 0 THEN 0 ELSE u[n - 1] + SizeOf(b[n])]

\* The recursive function of Used exists.
LEMMA SumsExist ==
  ASSUME NEW b \in Seq(Attempt)
  PROVE  \E u : IsSums(u, b)
<1> DEFINE Sums(N, u) == u = [n \in 0..N |-> IF n = 0 THEN 0 ELSE u[n - 1] + SizeOf(b[n])]
           P == {N \in Nat : N <= Len(b) => \E u : Sums(N, u)}
<1>1. 0 \in P
  <2> DEFINE u == [n \in 0..0 |-> 0]
  <2>1. Sums(0, u)
    OBVIOUS
  <2> HIDE DEF u, Sums
  <2> QED
    BY <2>1
<1>2. ASSUME NEW N \in Nat, N \in P PROVE N + 1 \in P
  <2> SUFFICES ASSUME N + 1 <= Len(b) PROVE \E u : Sums(N + 1, u)
    OBVIOUS
  <2>1. PICK u : Sums(N, u)
    <3>1. N <= Len(b)
      OBVIOUS
    <3> HIDE DEF Sums
    <3> QED
      BY <1>2, <3>1
  <2> DEFINE v == [n \in 0..(N + 1) |-> IF n <= N THEN u[n] ELSE u[N] + SizeOf(b[N + 1])]
  <2>2. \A n \in 0..(N + 1) : v[n] = IF n = 0 THEN 0 ELSE v[n - 1] + SizeOf(b[n])
    <3> SUFFICES ASSUME NEW n \in 0..(N + 1)
                 PROVE  v[n] = IF n = 0 THEN 0 ELSE v[n - 1] + SizeOf(b[n])
      OBVIOUS
    <3>1. CASE n = 0
      BY <2>1, <3>1
    <3>2. CASE n \in 1..N
      <4>1. v[n] = u[n] /\ v[n - 1] = u[n - 1]
        BY <3>2
      <4>2. u[n] = u[n - 1] + SizeOf(b[n])
        BY <2>1, <3>2
      <4> QED
        BY <3>2, <4>1, <4>2
    <3>3. CASE n = N + 1
      BY <3>3
    <3> QED
      BY <3>1, <3>2, <3>3
  <2>3. Sums(N + 1, v)
    <3>1. v = [n \in 0..(N + 1) |-> v[n]]
      OBVIOUS
    <3> HIDE DEF v
    <3> QED
      BY <2>2, <3>1
  <2> HIDE DEF v, Sums
  <2> QED
    BY <2>3
<1>3. Nat \subseteq P
  <2> HIDE DEF P
  <2> QED
    BY <1>1, <1>2, SetInd
<1>4. \E u : Sums(Len(b), u)
  <2>1. Len(b) \in P /\ Len(b) <= Len(b)
    BY <1>3
  <2> HIDE DEF Sums
  <2> QED
    BY <2>1
<1> QED
  BY <1>4 DEF IsSums

\* Each sum is the one before and the size of an entry; Used is the last.
SumsOf(u, b) ==
  /\ u \in [0..Len(b) -> Nat] /\ u[0] = 0
  /\ \A n \in 1..Len(b) : u[n] = u[n - 1] + SizeOf(b[n])

LEMMA SumsFact ==
  ASSUME NEW b \in Seq(Attempt), NEW u, IsSums(u, b)
  PROVE  SumsOf(u, b)
<1>1. /\ DOMAIN u = 0..Len(b) /\ u[0] = 0 /\ Len(b) \in Nat
      /\ \A n \in 1..Len(b) : u[n] = u[n - 1] + SizeOf(b[n])
      /\ u = [n \in 0..Len(b) |-> u[n]]
  BY DEF IsSums
<1>2. \A n \in 1..Len(b) : SizeOf(b[n]) \in Nat
  BY SizeFact
<1> DEFINE P == {n \in Nat : n <= Len(b) => u[n] \in Nat}
<1>3. 0 \in P
  BY <1>1
<1>4. ASSUME NEW n \in Nat, n \in P PROVE n + 1 \in P
  <2> SUFFICES ASSUME n + 1 <= Len(b) PROVE u[n + 1] \in Nat
    OBVIOUS
  <2>1. u[n] \in Nat /\ n + 1 \in 1..Len(b) /\ (n + 1) - 1 = n
    BY <1>1, <1>4
  <2>2. u[n + 1] = u[n] + SizeOf(b[n + 1]) /\ SizeOf(b[n + 1]) \in Nat
    BY <1>1, <1>2, <2>1
  <2> QED
    BY <2>1, <2>2
<1>5. Nat \subseteq P
  <2> HIDE DEF P
  <2> QED
    BY <1>3, <1>4, SetInd
<1>6. \A n \in 0..Len(b) : u[n] \in Nat
  BY <1>1, <1>5
<1> QED
  BY <1>1, <1>6 DEF SumsOf

LEMMA UsedFact ==
  ASSUME NEW b \in Seq(Attempt)
  PROVE  \E u : SumsOf(u, b) /\ Used(b) = u[Len(b)]
<1> DEFINE used == CHOOSE u : IsSums(u, b)
<1>1. IsSums(used, b)
  BY SumsExist, Zenon
<1>2. Used(b) = used[Len(b)]
  BY Zenon DEF Used, IsSums
<1> QED
  BY <1>1, <1>2, SumsFact, Zenon

\* Sums of buffers that begin with the same entries agree on them.
LEMMA SumsAgree ==
  ASSUME NEW b \in Seq(Attempt), NEW d \in Seq(Attempt), NEW u, SumsOf(u, b),
         NEW v, SumsOf(v, d), NEW N \in Nat, N <= Len(b), N <= Len(d),
         \A n \in 1..N : b[n] = d[n]
  PROVE  u[N] = v[N]
<1> DEFINE P == {n \in Nat : n <= N => u[n] = v[n]}
<1>1. 0 \in P
  BY DEF SumsOf
<1>2. ASSUME NEW n \in Nat, n \in P PROVE n + 1 \in P
  <2> SUFFICES ASSUME n + 1 <= N PROVE u[n + 1] = v[n + 1]
    OBVIOUS
  <2>1. /\ u[n] = v[n] /\ (n + 1) - 1 = n /\ n + 1 \in 1..Len(b) /\ n + 1 \in 1..Len(d)
        /\ n + 1 \in 1..N
    BY <1>2
  <2>2. b[n + 1] = d[n + 1]
    BY <2>1
  <2> QED
    BY <2>1, <2>2 DEF SumsOf
<1>3. Nat \subseteq P
  <2> HIDE DEF P
  <2> QED
    BY <1>1, <1>2, SetInd
<1> QED
  BY <1>3

LEMMA UsedOf ==
  ASSUME NEW b \in Seq(Attempt), NEW u, SumsOf(u, b)
  PROVE  Used(b) = u[Len(b)] /\ Used(b) \in Nat
<1>1. PICK v : SumsOf(v, b) /\ Used(b) = v[Len(b)]
  BY UsedFact
<1>2. Len(b) \in Nat /\ Len(b) <= Len(b)
  OBVIOUS
<1>3. u[Len(b)] = v[Len(b)]
  BY <1>1, <1>2, SumsAgree
<1> QED
  BY <1>1, <1>2, <1>3 DEF SumsOf

\* An empty buffer.
LEMMA UsedEmpty == <<>> \in Seq(Attempt) /\ Used(<<>>) = 0
<1>1. PICK b \in Seq(Attempt) : b = <<>>
  BY EmptySeq
<1>2. PICK u : SumsOf(u, b) /\ Used(b) = u[Len(b)]
  BY UsedFact
<1>3. Len(b) = 0 /\ u[0] = 0
  BY <1>1, <1>2 DEF SumsOf
<1> QED
  BY <1>1, <1>2, <1>3

\* The data of an append is put at the end.
LEMMA UsedAppend ==
  ASSUME NEW b \in Seq(Attempt), NEW x \in Attempt
  PROVE  /\ Append(b, x) \in Seq(Attempt) /\ Used(b) \in Nat
         /\ Used(Append(b, x)) = Used(b) + SizeOf(x)
<1>1. PICK d \in Seq(Attempt) : d = Append(b, x)
  BY AppendProperties
<1>2. /\ Len(d) = Len(b) + 1 /\ d[Len(b) + 1] = x /\ Len(b) \in Nat /\ Len(d) \in Nat
      /\ \A n \in 1..Len(b) : d[n] = b[n]
  BY <1>1, AppendProperties
<1>3. PICK u : SumsOf(u, b) /\ Used(b) = u[Len(b)]
  BY UsedFact
<1>4. PICK v : SumsOf(v, d) /\ Used(d) = v[Len(d)]
  BY UsedFact
<1>5. Len(b) <= Len(b) /\ Len(b) <= Len(d) /\ Len(d) \in 1..Len(d) /\ Len(d) - 1 = Len(b)
  BY <1>2
<1>6. u[Len(b)] = v[Len(b)]
  BY <1>2, <1>3, <1>4, <1>5, SumsAgree
<1>7. v[Len(d)] = v[Len(b)] + SizeOf(d[Len(d)])
  BY <1>4, <1>5 DEF SumsOf
<1>8. Used(b) \in Nat
  BY <1>3, UsedOf
<1> QED
  BY <1>1, <1>2, <1>3, <1>4, <1>6, <1>7, <1>8

\* An entry is taken out.
LEMMA UsedRemove ==
  ASSUME NEW b \in Seq(Attempt), NEW i \in DOMAIN b
  PROVE  RemoveAt(b, i) \in Seq(Attempt) /\ Used(RemoveAt(b, i)) <= Used(b)
<1>1. PICK d : d = RemoveAt(b, i)
  OBVIOUS
<1>2. /\ d \in Seq(Attempt) /\ Len(d) = Len(b) - 1 /\ Len(b) \in Nat /\ i \in 1..Len(b)
      /\ \A n \in 1..(i - 1) : d[n] = b[n]
      /\ \A n \in i..Len(d) : d[n] = b[n + 1]
  <2>1. Len(b) \in Nat /\ i \in 1..Len(b) /\ i \in Int /\ i - 1 \in Int /\ i + 1 \in Int
    OBVIOUS
  <2>2. PICK f : f = SubSeq(b, 1, i - 1)
    OBVIOUS
  <2>3. PICK g : g = SubSeq(b, i + 1, Len(b))
    OBVIOUS
  <2>4. f \in Seq(Attempt) /\ Len(f) = i - 1 /\ \A n \in 1..(i - 1) : f[n] = b[n]
    BY <2>1, <2>2
  <2>5. g \in Seq(Attempt) /\ Len(g) = Len(b) - i /\ \A n \in 1..(Len(b) - i) : g[n] = b[i + n]
    BY <2>1, <2>3, SMTT(40)
  <2>6. d = f \o g
    BY <1>1, <2>2, <2>3 DEF RemoveAt
  <2>7. /\ d \in Seq(Attempt) /\ Len(d) = Len(f) + Len(g)
        /\ \A n \in 1..Len(d) : d[n] = IF n <= Len(f) THEN f[n] ELSE g[n - Len(f)]
    <3>1. f \in Seq(Attempt) /\ g \in Seq(Attempt)
      BY <2>4, <2>5
    <3>2. /\ f \o g \in Seq(Attempt) /\ Len(f \o g) = Len(f) + Len(g)
          /\ \A n \in 1..Len(f) + Len(g) :
               (f \o g)[n] = IF n <= Len(f) THEN f[n] ELSE g[n - Len(f)]
      BY <3>1, ConcatProperties
    <3> QED
      BY <2>6, <3>2
  <2>8. Len(d) = Len(b) - 1
    BY <2>1, <2>4, <2>5, <2>7
  <2>9. ASSUME NEW n \in 1..(i - 1) PROVE d[n] = b[n]
    BY <2>1, <2>4, <2>7, <2>8
  <2>10. ASSUME NEW n \in i..Len(d) PROVE d[n] = b[n + 1]
    <3>1. n \in 1..Len(d) /\ ~(n <= i - 1) /\ n - (i - 1) \in 1..(Len(b) - i)
          /\ i + (n - (i - 1)) = n + 1
      BY <2>1, <2>8
    <3>2. d[n] = g[n - (i - 1)]
      BY <2>4, <2>7, <3>1
    <3> QED
      BY <2>5, <3>1, <3>2
  <2> QED
    BY <2>1, <2>7, <2>8, <2>9, <2>10
<1>3. PICK u : SumsOf(u, b) /\ Used(b) = u[Len(b)]
  BY UsedFact
<1>4. PICK v : SumsOf(v, d) /\ Used(d) = v[Len(d)]
  BY <1>2, UsedFact
<1> DEFINE P == {n \in Nat : i - 1 + n <= Len(d) => v[i - 1 + n] <= u[i + n]}
<1>5. SizeOf(b[i]) \in Nat
  BY SizeFact
<1>6. 0 \in P
  <2>1. i - 1 \in Nat /\ i - 1 <= Len(b) /\ i - 1 <= Len(d) /\ i - 1 \in 0..Len(b)
    BY <1>2
  <2>2. v[i - 1] = u[i - 1]
    <3>1. PICK N \in Nat : N = i - 1
      BY <2>1
    <3>2. N <= Len(b) /\ N <= Len(d) /\ \A n \in 1..N : b[n] = d[n]
      BY <1>2, <2>1, <3>1
    <3>3. u[N] = v[N]
      BY <1>2, <1>3, <1>4, <3>2, SumsAgree
    <3> QED
      BY <3>1, <3>3
  <2>3. u[i] = u[i - 1] + SizeOf(b[i]) /\ u[i - 1] \in Nat
    BY <1>2, <1>3, <2>1 DEF SumsOf
  <2>4. i - 1 + 0 = i - 1 /\ i + 0 = i
    BY <1>2
  <2> QED
    BY <1>5, <2>2, <2>3, <2>4
<1>7. ASSUME NEW n \in Nat, n \in P PROVE n + 1 \in P
  <2> SUFFICES ASSUME i - 1 + (n + 1) <= Len(d) PROVE v[i - 1 + (n + 1)] <= u[i + (n + 1)]
    OBVIOUS
  <2>1. PICK j \in Int : j = i + n
    BY <1>2
  <2>2. /\ i - 1 + (n + 1) = j /\ i + (n + 1) = j + 1 /\ i - 1 + n = j - 1
        /\ j \in 1..Len(d) /\ j \in i..Len(d) /\ j + 1 \in 1..Len(b) /\ (j + 1) - 1 = j
        /\ j - 1 \in 0..Len(d) /\ j \in 0..Len(b) /\ Len(d) \in Nat
    BY <1>2, <2>1, SMTT(40)
  <2>3. v[j - 1] <= u[j]
    BY <1>7, <2>1, <2>2
  <2>4. v[j] = v[j - 1] + SizeOf(d[j]) /\ u[j + 1] = u[j] + SizeOf(b[j + 1])
    BY <1>3, <1>4, <2>2 DEF SumsOf
  <2>5. d[j] = b[j + 1] /\ SizeOf(b[j + 1]) \in Nat
    <3>1. d[j] = b[j + 1] /\ b[j + 1] \in Attempt
      BY <1>2, <2>2
    <3> QED
      BY <3>1, SizeFact
  <2>6. v[j - 1] \in Nat /\ u[j] \in Nat
    BY <1>3, <1>4, <2>2 DEF SumsOf
  <2>7. v[j] <= u[j + 1]
    BY <2>3, <2>4, <2>5, <2>6
  <2> QED
    BY <2>2, <2>7
<1>8. Nat \subseteq P
  <2> HIDE DEF P
  <2> QED
    BY <1>6, <1>7, SetInd
<1>9. v[Len(d)] <= u[Len(b)]
  <2>1. PICK n \in Nat : n = Len(b) - i
    BY <1>2
  <2>2. i - 1 + n = Len(d) /\ i + n = Len(b) /\ Len(d) <= Len(d)
    BY <1>2, <2>1
  <2> QED
    BY <1>8, <2>2
<1> QED
  BY <1>1, <1>2, <1>3, <1>4, <1>9

\* The oldest entries make room.
LEMMA EvictedFact ==
  ASSUME NEW b \in Seq(Attempt), NEW size \in Nat
  PROVE  /\ Evicted(b, size) \in Seq(Attempt)
         /\ Evicted(b, size) = <<>> \/ Used(Evicted(b, size)) + size <= Capacity
<1> DEFINE Rest(i) == SubSeq(b, i, Len(b))
           Enough(i) == Rest(i) = <<>> \/ Used(Rest(i)) + size <= Capacity
           T == {i \in 1..(Len(b) + 1) : Enough(i)}
           First(i) == Enough(i) /\ \A j \in 1..(i - 1) : ~Enough(j)
<1>1. Len(b) \in Nat /\ Len(b) + 1 \in T
  <2>1. Rest(Len(b) + 1) = <<>>
    OBVIOUS
  <2> HIDE DEF Rest
  <2> QED
    BY <2>1
<1>2. PICK i \in T : \A j \in T : i <= j
  <2>1. T \subseteq Nat /\ T # {}
    BY <1>1
  <2> HIDE DEF T
  <2> QED
    BY <2>1, NatMin
<1>3. \E k \in 1..(Len(b) + 1) : First(k)
  <2>1. i \in 1..(Len(b) + 1) /\ Enough(i)
    BY <1>2
  <2>2. ASSUME NEW j \in 1..(i - 1), Enough(j) PROVE FALSE
    <3> HIDE DEF Enough
    <3>1. j \in T /\ ~(i <= j)
      BY <1>1, <2>1, <2>2
    <3> QED
      BY <1>2, <3>1
  <2> HIDE DEF Enough
  <2> QED
    BY <2>1, <2>2
<1>4. PICK k : k = CHOOSE j \in 1..(Len(b) + 1) : First(j)
  OBVIOUS
<1>5. k \in 1..(Len(b) + 1) /\ Enough(k)
  <2>1. k \in 1..(Len(b) + 1) /\ First(k)
    <3> HIDE DEF First
    <3> QED
      BY <1>3, <1>4
  <2> HIDE DEF Enough
  <2> QED
    BY <2>1
<1>6. Evicted(b, size) = Rest(k)
  BY <1>4, Zenon DEF Evicted
<1>7. Rest(k) \in Seq(Attempt)
  BY <1>1, <1>5
<1> HIDE DEF Rest
<1> QED
  BY <1>5, <1>6, <1>7

\* A buffer is within its capacity, or holds one record that alone is larger.
Within(b) == Used(b) <= Capacity \/ Len(b) = 1

\* A buffer with the data put in holds no more than it may.
LEMMA PutFact ==
  ASSUME NEW b \in Seq(Attempt), NEW x \in Attempt
  PROVE  Put(b, x) \in Seq(Attempt) /\ Within(Put(b, x))
<1>1. SizeOf(x) \in Nat
  BY SizeFact
<1>2. PICK e \in Seq(Attempt) : e = Evicted(b, SizeOf(x)) /\ (e = <<>> \/ Used(e) + SizeOf(x) <= Capacity)
  BY <1>1, EvictedFact
<1>3. PICK d : d = Append(e, x)
  OBVIOUS
<1>4. /\ d \in Seq(Attempt) /\ Used(d) = Used(e) + SizeOf(x)
      /\ e = <<>> => Len(d) = 1
  <2>1. d \in Seq(Attempt) /\ Used(d) = Used(e) + SizeOf(x)
    BY <1>3, UsedAppend
  <2>2. Len(d) = Len(e) + 1 /\ (e = <<>> => Len(e) = 0)
    BY <1>3
  <2> QED
    BY <2>1, <2>2
<1> QED
  BY <1>2, <1>3, <1>4 DEF Put, Within

\* Buffers are sequences of attempts, and within their capacity.
BufferInv ==
  /\ buffer \in [Server -> Seq(Attempt)]
  /\ \A s \in Server : Within(buffer[s])

\* The data of a record is taken out of the buffer.
LEMMA TakeKeeps ==
  ASSUME BufferInv, NEW s \in Server, NEW id, Take(s, id)
  PROVE  BufferInv'
<1>1. PICK i \in DOMAIN buffer[s] : buffer' = [buffer EXCEPT ![s] = RemoveAt(buffer[s], i)]
  BY DEF Take
<1>2. PICK b, d : b = buffer[s] /\ d = RemoveAt(b, i)
  OBVIOUS
<1>3. b \in Seq(Attempt) /\ Within(b) /\ i \in DOMAIN b
  BY <1>2 DEF BufferInv
<1>4. d \in Seq(Attempt) /\ Used(d) <= Used(b)
  BY <1>2, <1>3, UsedRemove
<1>5. Used(b) \in Nat /\ Used(d) \in Nat /\ Capacity \in Nat
  BY <1>3, <1>4, UsedFact, UsedOf, RecordAppendAssumption
<1>6. Within(d)
  <2>1. CASE Used(b) <= Capacity
    BY <1>4, <1>5, <2>1 DEF Within
  <2>2. CASE Len(b) = 1
    <3>1. d = <<>>
      <4>1. i = 1 /\ SubSeq(b, 1, 0) = <<>> /\ SubSeq(b, 2, 1) = <<>>
        BY <1>3, <2>2
      <4> QED
        BY <1>2, <2>2, <4>1 DEF RemoveAt
    <3> QED
      BY <3>1, UsedEmpty, RecordAppendAssumption DEF Within
  <2> QED
    BY <1>3, <2>1, <2>2 DEF Within
<1>7. buffer' = [buffer EXCEPT ![s] = d]
  BY <1>1, <1>2
<1>8. \A t \in Server : buffer'[t] = IF t = s THEN d ELSE buffer[t]
  BY <1>7 DEF BufferInv
<1>9. buffer' \in [Server -> Seq(Attempt)]
  BY <1>4, <1>7 DEF BufferInv
<1> QED
  BY <1>4, <1>6, <1>8, <1>9 DEF BufferInv

\* The data of a record is put into the buffers of some servers.
LEMMA PutKeeps ==
  ASSUME BufferInv, NEW id \in Attempt, NEW got,
         buffer' = [s \in Server |-> IF s \in got THEN Put(buffer[s], id) ELSE buffer[s]]
  PROVE  BufferInv'
<1>1. ASSUME NEW s \in Server
      PROVE  buffer'[s] \in Seq(Attempt) /\ Within(buffer'[s])
  <2>1. PICK b : b = buffer[s]
    OBVIOUS
  <2>2. b \in Seq(Attempt) /\ Within(b)
    BY <2>1 DEF BufferInv
  <2>3. Put(b, id) \in Seq(Attempt) /\ Within(Put(b, id))
    BY <2>2, PutFact
  <2>4. buffer'[s] = IF s \in got THEN Put(b, id) ELSE b
    BY <2>1
  <2> QED
    BY <2>2, <2>3, <2>4
<1>2. buffer' \in [Server -> Seq(Attempt)]
  BY <1>1
<1> QED
  BY <1>1, <1>2 DEF BufferInv

\* Every step keeps the buffers within bounds.
LEMMA StepBufferInv == AppendInv /\ BufferInv /\ [Next]_vars => BufferInv'
<1> SUFFICES ASSUME AppendInv, BufferInv, [Next]_vars PROVE BufferInv'
  OBVIOUS
<1>0. Types
  BY DEF AppendInv
<1>1. ASSUME UNCHANGED buffer PROVE BufferInv'
  BY <1>1 DEF BufferInv
<1>2. \A c \in Caller : Id(c) \in Attempt
  BY <1>0 DEF Types, ClientTypes, Calls, Id, Attempt
<1>3. ASSUME NEW c \in Caller, CallStep(c) \/ CallFails(c) PROVE BufferInv'
  <2>1. CASE Push(c) \/ PushFails(c)
    <3>1. PICK id \in Attempt : id = Id(c)
      BY <1>2
    <3>2. PICK got : buffer' = [s \in Server |-> IF s \in got THEN Put(buffer[s], id) ELSE buffer[s]]
      <4>1. CASE Push(c)
        BY <3>1, <4>1 DEF Push
      <4>2. CASE PushFails(c)
        BY <3>1, <4>2 DEF PushFails
      <4> QED
        BY <2>1, <4>1, <4>2
    <3> QED
      BY <3>2, PutKeeps
  <2>2. CASE ~(Push(c) \/ PushFails(c))
    <3>1. UNCHANGED buffer
      BY <1>3, <2>2
      DEF CallStep, CallFails, Open, OpenFails, NextChunk, NextChunkFails, FindCached,
          FindLease, Grant, GrantSerialized, Learn, FindLeaseFails, DeadlinePasses,
          ConnectionBreaks, servers
    <3> QED
      BY <1>1, <3>1
  <2> QED
    BY <2>1, <2>2
<1>4. ASSUME NEW r \in requests, HandleRequest(r) PROVE BufferInv'
  <2>1. UNCHANGED buffer \/ Take(r.to, r.id)
    BY <1>4, Zenon DEF HandleRequest, Refuse, DataMissing, HandleAppend, servers
  <2>2. r.to \in Server
    BY <1>0 DEF Types, ServerTypes, Request
  <2> QED
    BY <1>1, <2>1, <2>2, TakeKeeps
<1>5. ASSUME NEW m \in applies, Apply(m) \/ ForwardFails(m) PROVE BufferInv'
  <2>1. UNCHANGED buffer \/ Take(m.to, m.id)
    BY <1>5 DEF Apply, ForwardFails
  <2>2. m.to \in Server
    BY <1>0 DEF Types, ServerTypes, Mutation
  <2> QED
    BY <1>1, <2>1, <2>2, TakeKeeps
<1>6. ASSUME NEW s \in Server, NEW k \in Chunk, FinishAppend(s, k) \/ LeaseExpires(s, k)
      PROVE  BufferInv'
  BY <1>1, <1>6 DEF FinishAppend, LeaseExpires
<1>9. ASSUME NEW k \in Chunk, Regrant(k) \/ \E s \in Server : HeartBeat(s, k)
      PROVE  BufferInv'
  BY <1>1, <1>9 DEF Regrant, GrantSerialized, HeartBeat, servers
<1>7. ASSUME NEW s \in Server, Restart(s) PROVE BufferInv'
  <2>1. buffer' = [buffer EXCEPT ![s] = <<>>]
    BY <1>7 DEF Restart
  <2>2. <<>> \in Seq(Attempt) /\ Within(<<>>)
    BY UsedEmpty, RecordAppendAssumption DEF Within
  <2>3. \A t \in Server : buffer'[t] = <<>> \/ buffer'[t] = buffer[t]
    BY <2>1 DEF BufferInv
  <2>4. buffer' \in [Server -> Seq(Attempt)]
    BY <2>1, <2>2 DEF BufferInv
  <2> QED
    BY <2>2, <2>3, <2>4 DEF BufferInv
<1>8. CASE UNCHANGED vars
  BY <1>1, <1>8 DEF vars, servers
<1> QED
  BY <1>3, <1>4, <1>5, <1>6, <1>7, <1>8, <1>9 DEF Next

\* The pushed data of a server takes no more than data_buffer_capacity, unless it
\* is one record that alone is larger: DataBuffer::Put drops the oldest entries
\* first and then lets the new one in, whatever its size; what is taken out or lost
\* in a restart only makes room.
THEOREM BufferWithin == Spec => []BufferBounded
<1>1. Init => BufferInv
  <2> SUFFICES ASSUME Init PROVE BufferInv
    OBVIOUS
  <2>1. \A s \in Server : buffer[s] = <<>>
    BY DEF Init
  <2>2. buffer \in [Server -> Seq(Attempt)]
    BY UsedEmpty DEF Init
  <2> QED
    BY <2>1, <2>2, UsedEmpty, RecordAppendAssumption DEF BufferInv, Within
<1>2. BufferInv => BufferBounded
  BY DEF BufferInv, BufferBounded, Within
<1> QED
  BY <1>1, <1>2, AppendInvariant, StepBufferInv, PTL DEF Spec
=============================================================================
