-------------------------- MODULE MCRecordAppend --------------------------
(* RecordAppend with two callers, whose records do not fit into one chunk.    *)
EXTENDS RecordAppend

CONSTANTS c1, c2
MCSize == (c1 :> 1) @@ (c2 :> 2)

\* One failure of any kind; or two changes of leases and replicas; or one change
\* and a call that fails on its way.
MCScenario ==
  {[may |-> FaultKind, faults |-> 1, losses |-> 0],
   [may |-> {}, faults |-> 0, losses |-> 2],
   [may |-> {"add", "find", "push"}, faults |-> 1, losses |-> 1]}
=============================================================================
