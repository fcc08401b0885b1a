---------------------------- MODULE AtLeastOnce ----------------------------
(***************************************************************************)
(* What the record append of a file promises to its callers                *)
(* (src/src/client/gfs_client.cc, Client::RecordAppend): a call that       *)
(* returns OK names a place where every replica has the record, and no     *)
(* record that every replica has is ever moved, overwritten or lost.  Of   *)
(* which replicas the code can keep that promise, RecordAppend says.  A    *)
(* record may be in more than one place, and that of a call that failed    *)
(* may be there too.                                                       *)
(***************************************************************************)
EXTENDS Integers

CONSTANTS
  Caller,     \* calls of RecordAppend, each with a record of its own
  Chunk,      \* the chunks of the file
  ChunkSize,
  Size        \* Size[c]: the size of the record of caller c

VARIABLES
  records,    \* the records that all replicas have, and where
  result      \* what each call returned

vars == <<records, result>>

Record == [caller : Caller, chunk : Chunk, offset : Nat]
Nothing == [kind |-> "none"]
Failed == [kind |-> "failed"]
Ok(r) == [kind |-> "ok", at |-> r]

Overlap(r, q) ==
  /\ r.chunk = q.chunk
  /\ r.offset < q.offset + Size[q.caller]
  /\ q.offset < r.offset + Size[r.caller]

\* Records lie apart from each other, inside their chunks.
Apart(set) ==
  /\ \A r \in set : r.offset + Size[r.caller] <= ChunkSize
  /\ \A r, q \in set : r # q => ~Overlap(r, q)

Init == records = {} /\ result = [c \in Caller |-> Nothing]

\* Records reach the last of the replicas.
Grow ==
  /\ records' \in SUBSET Record /\ records \subseteq records'
  /\ Apart(records')

Place == Grow /\ UNCHANGED result

Return(c, value) ==
  /\ result[c] = Nothing
  /\ result' = [result EXCEPT ![c] = value]

Succeed(c) ==
  /\ \E r \in records : r.caller = c /\ Return(c, Ok(r))
  /\ UNCHANGED records

\* The record of a call that fails may reach them as it does.
Fail(c) == Return(c, Failed) /\ Grow

Next == Place \/ \E c \in Caller : Succeed(c) \/ Fail(c)

Spec == Init /\ [][Next]_vars
=============================================================================
