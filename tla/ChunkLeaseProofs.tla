-------------------------- MODULE ChunkLeaseProofs --------------------------
(***************************************************************************)
(* Proofs about the lease of a chunk: types, the uniqueness of primaries,  *)
(* the replicas that stay, and the isolation of a snapshot.                *)
(*                                                                         *)
(* GrantInv: a round's version is one above the chunk's, and of the        *)
(* versions that clients know none is higher than the chunk's, whose       *)
(* primary is that of the lease.  StayInv: a server that no round left out *)
(* is among the secondaries of every lease that any server holds, so what  *)
(* a primary acknowledges is there.  SnapInv: a server at which clients    *)
(* may write the current version holds the lease that the master has; a    *)
(* snapshot revokes that one, and until it has ended every such server is  *)
(* one that the snapshot waits for.                                        *)
(***************************************************************************)
EXTENDS ChunkLease, FiniteSetTheorems, TLAPS

\* The types of the variables.
Lease == [primary : Server \cup {None}, revoked : BOOLEAN, over : BOOLEAN]
Meta == [version : Version, granting : BOOLEAN, locs : SUBSET Server, lease : Lease]
Attempt == [pc : {"none", "prepare", "round", "giveup", "flush"},
            by : Call \cup {None}, version : 0..MaxVersion,
            primary : Server \cup {None}, group : SUBSET Server,
            waiting : SUBSET Server, failed : SUBSET Server]
Replica == [has : BOOLEAN, version : Version, held : BOOLEAN,
            over : BOOLEAN, young : BOOLEAN, mutated : BOOLEAN,
            secondaries : SUBSET Server, data : SUBSET Write]
Snapshot == [pc : {"idle", "revoking", "acked", "wait", "finish", "done"},
             primary : Server \cup {None}, before : SUBSET Server]
Mutation == [id : Write \cup {None}, version : 0..MaxVersion, todo : SUBSET Server]
Counted == [events : 0..MaxEvents, kinds : SUBSET (FailureKind \cup {"giveup"})]
Beat == [pc : {"none", "sent", "answered"}, has : BOOLEAN,
         version : 0..MaxVersion, extend : BOOLEAN, delete : BOOLEAN]

\* TypeOK by the names of the record types.
Typed ==
  /\ meta \in Meta
  /\ alive \subseteq Server /\ dying \subseteq Server /\ left \subseteq Server
  /\ logged \in Version /\ logged <= meta.version
  /\ call \in [Call -> {"idle", "want", "grant"}]
  /\ grant \in Attempt
  /\ regrant \in BOOLEAN
  /\ snap \in Snapshot
  /\ server \in [Server -> Replica]
  /\ late \subseteq Message
  /\ hb \in [Server -> Beat]
  /\ write \in [Server -> Mutation]
  /\ told \subseteq [primary : Server, version : Version]
  /\ acked \subseteq Write
  /\ count \in Counted

\* What a grant, a lease or a message has where the type allows none.
ShapeInv ==
  /\ meta.lease # NoLease => meta.lease.primary \in Server
  /\ grant.pc \in {"round", "flush"} => grant.primary \in Server /\ grant.version \in Version
  /\ grant.waiting # {} => grant.pc = "round"
  /\ snap.pc = "revoking" => snap.primary \in Server
  /\ \A s \in Server : write[s].todo # {} => write[s].id \in Write
  /\ \A m \in late : m.kind # "revoke" => m.version \in Version

TypeInv == Typed /\ ShapeInv

-----------------------------------------------------------------------------
\* What a handler does to the server that it runs on; other servers stay.
LEMMA HandledFields ==
  ASSUME NEW srv \in [Server -> Replica], NEW m \in Message,
         m.kind # "revoke" => m.version \in Version
  PROVE  /\ Handled(srv, m) \in [Server -> Replica]
         /\ \A s \in Server : s # m.to => Handled(srv, m)[s] = srv[s]
         /\ LET r == srv[m.to]
                q == Handled(srv, m)[m.to]
            IN  /\ q.has = r.has /\ q.data = r.data
                /\ m.kind = "revoke" =>
                     /\ ~q.held /\ q.version = r.version /\ q.over = r.over
                     /\ q.young = r.young
                /\ m.kind # "revoke" /\ ~r.has => q = r
                /\ m.kind = "update" /\ r.has =>
                     ~q.held /\ q.version = m.version /\ q.over = r.over /\ q.young = r.young
                /\ m.kind = "grant" /\ r.has =>
                     /\ q.held /\ ~q.over /\ q.young /\ q.version = m.version
                     /\ q.secondaries = m.secondaries
<1>0. m.to \in Server /\ m.kind \in {"grant", "update", "revoke"} /\ m.secondaries \in SUBSET Server
  BY DEF Message
<1> DEFINE r == srv[m.to]
<1>1. r \in Replica
  BY <1>0
<1>2. CASE m.kind = "revoke"
  <2> DEFINE q == [r EXCEPT !.held = FALSE, !.secondaries = {}]
  <2>1. Handled(srv, m) = [srv EXCEPT ![m.to] = q]
    BY <1>0, <1>2 DEF Handled
  <2>2. /\ q \in Replica /\ ~q.held /\ q.version = r.version /\ q.over = r.over
        /\ q.young = r.young /\ q.has = r.has /\ q.data = r.data
    BY <1>1 DEF Replica
  <2> HIDE DEF q, r
  <2> QED
    BY <1>0, <1>2, <2>1, <2>2 DEF r
<1>3. CASE m.kind # "revoke" /\ ~r.has
  <2>1. Handled(srv, m) = srv
    BY <1>0, <1>3 DEF Handled
  <2> QED
    BY <1>0, <1>3, <2>1
<1>4. CASE m.kind = "grant" /\ r.has
  <2> DEFINE q == [r EXCEPT !.version = m.version, !.held = TRUE, !.over = FALSE,
                            !.young = TRUE, !.mutated = FALSE, !.secondaries = m.secondaries]
  <2>1. Handled(srv, m) = [srv EXCEPT ![m.to] = q]
    BY <1>0, <1>4 DEF Handled
  <2>2. /\ q \in Replica /\ q.held /\ ~q.over /\ q.young /\ q.version = m.version
        /\ q.secondaries = m.secondaries /\ q.has = r.has /\ q.data = r.data
    BY <1>0, <1>1, <1>4 DEF Replica
  <2> HIDE DEF q, r
  <2> QED
    BY <1>0, <1>4, <2>1, <2>2 DEF r
<1>5. CASE m.kind = "update" /\ r.has
  <2> DEFINE q == [r EXCEPT !.version = m.version, !.held = FALSE, !.secondaries = {}]
  <2>1. Handled(srv, m) = [srv EXCEPT ![m.to] = q]
    BY <1>0, <1>5 DEF Handled
  <2>2. /\ q \in Replica /\ ~q.held /\ q.version = m.version /\ q.over = r.over
        /\ q.young = r.young /\ q.has = r.has /\ q.data = r.data
    BY <1>0, <1>1, <1>5 DEF Replica
  <2> HIDE DEF q, r
  <2> QED
    BY <1>0, <1>5, <2>1, <2>2 DEF r
<1> QED
  BY <1>0, <1>2, <1>3, <1>4, <1>5

-----------------------------------------------------------------------------
\* TypeOK with the record types named.
LEMMA TypeOKIsTyped == TypeOK <=> Typed
BY DEF TypeOK, Typed, Meta, Lease, Attempt, Snapshot, Replica, Beat, Mutation, Counted

\* The master has recovered the chunk from its log and all servers have it.
LEMMA TypeInit == Init => TypeInv
<1> SUFFICES ASSUME Init PROVE TypeInv
  OBVIOUS
<1>1. MaxVersion \in Nat \ {0} /\ MaxEvents \in Nat /\ 1 \in Version /\ 0 \in 0..MaxVersion
      /\ \A v \in Version : v \in 0..MaxVersion
  BY ChunkLeaseAssumption DEF Version
<1>2. NoLease \in Lease /\ NoGrant \in Attempt /\ NoSnap \in Snapshot
      /\ NoHeartbeat \in Beat /\ NoWrite \in Mutation
  BY <1>1 DEF Lease, Attempt, Snapshot, Beat, Mutation, NoLease, NoGrant, NoSnap,
              NoHeartbeat, NoWrite
<1>3. meta \in Meta /\ logged <= meta.version
  BY <1>1, <1>2 DEF Init, Meta
<1>4. server \in [Server -> Replica]
  BY <1>1 DEF Init, Replica
<1>5. count \in Counted
  BY <1>1 DEF Init, Counted
<1>6. Typed
  BY <1>1, <1>2, <1>3, <1>4, <1>5 DEF Init, Typed
<1>7. ShapeInv
  BY DEF Init, ShapeInv, NoGrant, NoSnap, NoWrite
<1> QED
  BY <1>6, <1>7 DEF TypeInv

\* The messages of a round and the revoke of a snapshot are messages.
LEMMA MessageType ==
  ASSUME TypeInv
  PROVE  /\ \A s \in grant.waiting :
              /\ MessageTo(s) \in Message /\ MessageTo(s).to = s
              /\ MessageTo(s).kind # "revoke" /\ MessageTo(s).version \in Version
         /\ \A s \in Server :
              RevokeTo(s) \in Message /\ RevokeTo(s).to = s /\ RevokeTo(s).kind = "revoke"
<1>1. /\ grant \in Attempt /\ 0 \in 0..MaxVersion
      /\ \A v \in Version : v \in 0..MaxVersion
  BY ChunkLeaseAssumption DEF TypeInv, Typed, Version
<1>2. ASSUME NEW s \in grant.waiting
      PROVE  /\ MessageTo(s) \in Message /\ MessageTo(s).to = s
             /\ MessageTo(s).kind # "revoke" /\ MessageTo(s).version \in Version
  <2>1. grant.version \in Version /\ s \in Server /\ grant.group \in SUBSET Server
    BY <1>1 DEF TypeInv, ShapeInv, Attempt
  <2> QED
    BY <1>1, <2>1 DEF MessageTo, Message
<1>3. ASSUME NEW s \in Server
      PROVE  RevokeTo(s) \in Message /\ RevokeTo(s).to = s /\ RevokeTo(s).kind = "revoke"
  BY <1>1 DEF RevokeTo, Message
<1> QED
  BY <1>2, <1>3

\* The parts of the records that the actions change.
LEMMA MetaChange ==
  ASSUME NEW m \in Meta, NEW v \in Version, NEW b \in BOOLEAN, NEW l \in SUBSET Server,
         NEW e \in Lease
  PROVE  /\ [m EXCEPT !.version = v] \in Meta
         /\ [m EXCEPT !.granting = b] \in Meta /\ [m EXCEPT !.granting = b].version = m.version
         /\ [m EXCEPT !.locs = l] \in Meta /\ [m EXCEPT !.locs = l].version = m.version
         /\ [m EXCEPT !.lease = e] \in Meta /\ [m EXCEPT !.lease = e].version = m.version
         /\ [m EXCEPT !.locs = l].lease = m.lease
         /\ [m EXCEPT !.granting = b].lease = m.lease
         /\ [m EXCEPT !.lease = e].lease = e
BY DEF Meta

\* Every step keeps every variable in its type.
LEMMA TypeStep == TypeInv /\ [Next]_vars => TypeInv'
<1> SUFFICES ASSUME TypeInv, [Next]_vars PROVE TypeInv'
  OBVIOUS
<1> USE DEF registry, pool, servers, history
<1>0. /\ Typed /\ ShapeInv /\ MaxVersion \in Nat /\ MaxEvents \in Nat
      /\ 1 \in Version /\ \A v \in Version : v \in Nat /\ v \in 0..MaxVersion /\ v >= 1
      /\ \A v \in 0..MaxVersion : v \in Nat /\ (v >= 1 => v \in Version)
      /\ NoLease \in Lease /\ 0 \in 0..MaxVersion
  BY ChunkLeaseAssumption DEF TypeInv, Version, NoLease, Lease
<1>1. ASSUME NEW c \in Call, FindLeaseHolder(c) PROVE TypeInv'
  <2>1. /\ meta' \in Meta /\ meta'.version = meta.version
        /\ meta'.lease # NoLease => meta'.lease = meta.lease
    <3>1. meta' = meta \/ meta' = [meta EXCEPT !.lease = NoLease]
      BY <1>1 DEF FindLeaseHolder
    <3>2. meta \in Meta
      BY <1>0 DEF Typed
    <3>3. /\ [meta EXCEPT !.lease = NoLease] \in Meta
          /\ [meta EXCEPT !.lease = NoLease].lease = NoLease
          /\ [meta EXCEPT !.lease = NoLease].version = meta.version
      BY <1>0, <3>2 DEF Meta
    <3> QED
      BY <3>1, <3>2, <3>3
  <2>2. told' \subseteq [primary : Server, version : Version]
    <3>1. IsValid(meta) => meta.lease.primary \in Server /\ meta.version \in Version
      BY <1>0 DEF IsValid, ShapeInv, Typed, Meta
    <3> QED
      BY <1>0, <1>1, <3>1 DEF FindLeaseHolder, Typed
  <2> QED
    BY <1>0, <1>1, <2>1, <2>2 DEF FindLeaseHolder, TypeInv, Typed, ShapeInv
<1>2. ASSUME NEW c \in Call, Grant(c) PROVE TypeInv'
  <2>1. grant' \in Attempt /\ grant'.pc = "prepare" /\ grant'.waiting = {}
    BY <1>0, <1>2 DEF Grant, NoGrant, Attempt
  <2> QED
    BY <1>0, <1>2, <2>1 DEF Grant, TypeInv, Typed, ShapeInv
<1>3. CASE Regrant
  <2>1. /\ grant' \in Attempt /\ (grant' = grant \/ (grant'.pc = "prepare" /\ grant'.waiting = {}))
    BY <1>0, <1>3 DEF Regrant, NoGrant, Attempt, Typed
  <2> QED
    BY <1>0, <1>3, <2>1 DEF Regrant, TypeInv, Typed, ShapeInv
<1>4. CASE PrepareLocked
  <2>1. PICK p \in Live :
          grant' = [grant EXCEPT !.pc = "round", !.primary = p, !.group = Live,
                                 !.waiting = Live, !.failed = {},
                                 !.version = meta.version + 1]
    BY <1>4 DEF PrepareLocked
  <2>2. Live \in SUBSET Server /\ meta.version + 1 \in Version
    BY <1>0, <1>4 DEF PrepareLocked, Live, Typed, Meta, Version
  <2>3. /\ grant' \in Attempt /\ grant'.pc = "round" /\ grant'.primary \in Server
        /\ grant'.version \in Version
    BY <1>0, <2>1, <2>2 DEF Typed, Attempt
  <2>4. meta' \in Meta /\ meta'.version = meta.version /\ meta'.lease = meta.lease
    BY <1>0, <1>4, MetaChange DEF PrepareLocked, Typed
  <2> QED
    BY <1>0, <1>4, <2>3, <2>4 DEF PrepareLocked, TypeInv, Typed, ShapeInv
<1>5. CASE PrepareFails
  <2>1. grant' \in Attempt /\ grant'.pc = "giveup" /\ grant'.waiting = grant.waiting
    BY <1>0, <1>5 DEF PrepareFails, Typed, Attempt
  <2>2. count' \in Counted
    BY <1>0, <1>5 DEF PrepareFails, Typed, Counted
  <2>3. grant.waiting = {}
    BY <1>0, <1>5 DEF PrepareFails, ShapeInv
  <2> QED
    BY <1>0, <1>5, <2>1, <2>2, <2>3 DEF PrepareFails, TypeInv, Typed, ShapeInv
<1>6. CASE ClearGranting
  <2>1. meta' \in Meta /\ meta'.version = meta.version /\ meta'.lease = meta.lease
    BY <1>0, <1>6, MetaChange DEF ClearGranting, Typed
  <2>2. grant' \in Attempt /\ grant'.pc = "none" /\ grant'.waiting = {}
    BY <1>0, <1>6 DEF ClearGranting, NoGrant, Attempt
  <2>3. call' \in [Call -> {"idle", "want", "grant"}]
    BY <1>0, <1>6 DEF ClearGranting, Typed
  <2> QED
    BY <1>0, <1>6, <2>1, <2>2, <2>3 DEF ClearGranting, TypeInv, Typed, ShapeInv
<1>a. ASSUME NEW m \in Message, m.kind # "revoke" => m.version \in Version
      PROVE  Handled(server, m) \in [Server -> Replica]
  BY <1>0, <1>a, HandledFields DEF Typed
<1>b. ASSUME NEW m \in Message
      PROVE  Renewed(m) \in Snapshot /\ Renewed(m).pc = snap.pc /\ Renewed(m).primary = snap.primary
  BY <1>0 DEF Renewed, Typed, Snapshot
<1>c. ASSUME NEW s \in grant.waiting, NEW f \in SUBSET Server, grant.pc = "round",
             grant' = [grant EXCEPT !.waiting = @ \ {s}, !.failed = f]
      PROVE  /\ grant' \in Attempt /\ grant'.pc = "round"
             /\ grant'.primary = grant.primary /\ grant'.version = grant.version
  BY <1>0, <1>c DEF Typed, Attempt
<1>7. ASSUME NEW s \in Server, Answer(s) PROVE TypeInv'
  <2>1. s \in grant.waiting /\ grant.pc = "round" /\ grant.failed \in SUBSET Server
    BY <1>0, <1>7 DEF Answer, Typed, Attempt
  <2>2. /\ grant' \in Attempt /\ grant'.pc = "round"
        /\ grant'.primary = grant.primary /\ grant'.version = grant.version
    <3> DEFINE f == IF server[s].has THEN grant.failed ELSE grant.failed \cup {s}
    <3>1. f \in SUBSET Server /\ grant' = [grant EXCEPT !.waiting = @ \ {s}, !.failed = f]
      BY <1>7, <2>1 DEF Answer
    <3> HIDE DEF f
    <3> QED
      BY <1>c, <2>1, <3>1
  <2>3. server' \in [Server -> Replica] /\ snap' \in Snapshot /\ snap'.pc = snap.pc
        /\ snap'.primary = snap.primary
    BY <1>7, <1>a, <1>b, <2>1, MessageType DEF Answer
  <2> QED
    BY <1>0, <1>7, <2>1, <2>2, <2>3 DEF Answer, TypeInv, Typed, ShapeInv
<1>d. ASSUME Fails("timeout") \/ Fails("refusal") \/ Fails("sweep") \/ Fails("crash")
      PROVE  count' \in Counted
  BY <1>0, <1>d DEF Fails, Typed, Counted, FailureKind
<1>8. ASSUME NEW s \in Server, Timeout(s) PROVE TypeInv'
  <2>1. s \in grant.waiting /\ grant.pc = "round" /\ grant.failed \in SUBSET Server
    BY <1>0, <1>8 DEF Timeout, Typed, Attempt
  <2>2. /\ grant' \in Attempt /\ grant'.pc = "round"
        /\ grant'.primary = grant.primary /\ grant'.version = grant.version
    BY <1>8, <1>c, <2>1 DEF Timeout
  <2>3. server' \in [Server -> Replica] /\ snap' \in Snapshot /\ snap'.pc = snap.pc
        /\ snap'.primary = snap.primary
    BY <1>0, <1>8, <1>a, <1>b, <2>1, MessageType DEF Timeout, Unanswered, Typed
  <2>4. late' \subseteq Message /\ \A m \in late' : m.kind # "revoke" => m.version \in Version
    BY <1>0, <1>8, <2>1, MessageType DEF Timeout, Unanswered, Typed, ShapeInv
  <2>5. count' \in Counted
    BY <1>8, <1>d DEF Timeout
  <2> QED
    BY <1>0, <1>8, <2>1, <2>2, <2>3, <2>4, <2>5 DEF Timeout, TypeInv, Typed, ShapeInv
<1>9. ASSUME NEW m \in late, LateMessage(m) PROVE TypeInv'
  <2>1. m \in Message /\ (m.kind # "revoke" => m.version \in Version)
    BY <1>0 DEF Typed, ShapeInv
  <2>2. server' \in [Server -> Replica] /\ snap' \in Snapshot /\ snap'.pc = snap.pc
        /\ snap'.primary = snap.primary
    BY <1>9, <1>a, <1>b, <2>1 DEF LateMessage
  <2> QED
    BY <1>0, <1>9, <2>2 DEF LateMessage, TypeInv, Typed, ShapeInv
<1>10. CASE NextRound
  <2>1. meta' \in Meta /\ meta'.version = meta.version /\ meta'.lease = meta.lease
    <3>1. meta.locs \ grant.failed \in SUBSET Server
      BY <1>0 DEF Typed, Meta
    <3> QED
      BY <1>0, <1>10, <3>1, MetaChange DEF NextRound, Typed
  <2>2. /\ grant' \in Attempt /\ grant'.pc = "prepare" /\ grant'.waiting = {}
        /\ grant.failed \subseteq Server
    BY <1>0, <1>10 DEF NextRound, Typed, Attempt
  <2> QED
    BY <1>0, <1>10, <2>1, <2>2 DEF NextRound, TypeInv, Typed, ShapeInv
<1>e. AllOld(server) \in [Server -> Replica]
  <2>1. \A s \in Server : [server[s] EXCEPT !.young = FALSE] \in Replica
    <3>1. \A s \in Server : server[s] \in Replica
      BY <1>0 DEF Typed
    <3>2. ASSUME NEW r \in Replica PROVE [r EXCEPT !.young = FALSE] \in Replica
      BY DEF Replica
    <3> QED
      BY <3>1, <3>2
  <2> QED
    BY <2>1 DEF AllOld
<1>11. CASE GrantFinish
  <2> DEFINE v == IF meta.version > grant.version THEN meta.version ELSE grant.version
             e == [primary |-> grant.primary, revoked |-> FALSE, over |-> FALSE]
  <2>1. grant.primary \in Server /\ grant.version \in Version /\ meta.version \in Version
    BY <1>0, <1>11 DEF GrantFinish, ShapeInv, Typed, Meta
  <2>2. v \in Version /\ v >= meta.version /\ e \in Lease /\ e.primary \in Server
    BY <1>0, <2>1 DEF Lease
  <2>3. meta' = [meta EXCEPT !.version = v, !.granting = FALSE, !.lease = e]
    BY <1>11 DEF GrantFinish
  <2> HIDE DEF v, e
  <2>4. meta' \in Meta /\ meta'.version >= meta.version /\ meta'.lease = e
    BY <1>0, <2>2, <2>3 DEF Typed, Meta
  <2>5. /\ grant' \in Attempt /\ grant'.primary = grant.primary /\ grant'.version = grant.version
        /\ grant'.waiting = {}
    BY <1>0, <1>11 DEF GrantFinish, Typed, Attempt
  <2>6. logged \in Nat /\ meta.version \in Nat /\ meta'.version \in Nat /\ logged <= meta'.version
    BY <1>0, <2>1, <2>4 DEF Typed, Meta
  <2> QED
    BY <1>0, <1>11, <1>e, <2>1, <2>2, <2>4, <2>5, <2>6 DEF GrantFinish, TypeInv, Typed, ShapeInv
<1>12. CASE GrantReturn
  <2>1. told' \subseteq [primary : Server, version : Version]
    BY <1>0, <1>12 DEF GrantReturn, Typed, ShapeInv
  <2>2. grant' \in Attempt /\ grant'.pc = "none" /\ grant'.waiting = {}
    BY <1>0, <1>12 DEF GrantReturn, NoGrant, Attempt
  <2>3. call' \in [Call -> {"idle", "want", "grant"}]
    BY <1>0, <1>12 DEF GrantReturn, Typed
  <2> QED
    BY <1>0, <1>12, <2>1, <2>2, <2>3 DEF GrantReturn, TypeInv, Typed, ShapeInv
<1>13. CASE Flush
  <2>1. logged' \in Version /\ logged' <= meta.version
    BY <1>0, <1>13 DEF Flush, Typed, Meta
  <2> QED
    BY <1>0, <1>13, <2>1 DEF Flush, TypeInv, Typed, ShapeInv
<1>14. CASE Revoke
  <2>1. CASE meta.lease = NoLease \/ meta.lease.over
    <3>1. meta' \in Meta /\ meta'.version = meta.version /\ meta'.lease = NoLease
      BY <1>0, <1>14, <2>1 DEF Revoke, Typed, Meta
    <3>2. snap' \in Snapshot /\ snap'.pc = "finish"
      BY <1>0, <1>14, <2>1 DEF Revoke, Typed, Snapshot
    <3> QED
      BY <1>0, <1>14, <3>1, <3>2 DEF Revoke, TypeInv, Typed, ShapeInv
  <2>2. CASE ~(meta.lease = NoLease \/ meta.lease.over)
    <3>1. /\ meta' \in Meta /\ meta'.version = meta.version
          /\ meta'.lease.primary = meta.lease.primary
      <4>1. meta' = [meta EXCEPT !.lease.revoked = TRUE] /\ meta \in Meta
        BY <1>0, <1>14, <2>2 DEF Revoke, Typed
      <4> QED
        BY <4>1 DEF Meta, Lease
    <3>2. snap' \in Snapshot /\ snap'.primary = meta.lease.primary
      BY <1>0, <1>14, <2>2 DEF Revoke, Typed, Snapshot, ShapeInv
    <3> QED
      BY <1>0, <1>14, <2>2, <3>1, <3>2 DEF Revoke, TypeInv, Typed, ShapeInv
  <2> QED
    BY <2>1, <2>2
<1>15. CASE RevokeAnswer
  <2>1. RevokeTo(snap.primary) \in Message /\ RevokeTo(snap.primary).kind = "revoke"
    BY <1>0, <1>15, MessageType DEF RevokeAnswer, ShapeInv
  <2>2. server' \in [Server -> Replica]
    BY <1>15, <1>a, <2>1 DEF RevokeAnswer
  <2>3. snap' \in Snapshot /\ snap'.pc = "acked"
    BY <1>0, <1>15 DEF RevokeAnswer, Typed, Snapshot
  <2> QED
    BY <1>0, <1>15, <2>2, <2>3 DEF RevokeAnswer, TypeInv, Typed, ShapeInv
<1>16. CASE RevokeAcked
  <2>1. /\ meta' \in Meta /\ meta'.version = meta.version
        /\ meta'.lease = meta.lease \/ meta'.lease = NoLease
    BY <1>0, <1>16 DEF RevokeAcked, Typed, Meta
  <2>2. snap' \in Snapshot /\ snap'.pc \in {"finish", "wait"}
    BY <1>0, <1>16 DEF RevokeAcked, Typed, Snapshot
  <2> QED
    BY <1>0, <1>16, <2>1, <2>2 DEF RevokeAcked, TypeInv, Typed, ShapeInv
<1>17. CASE RevokeTimeout
  <2>1. RevokeTo(snap.primary) \in Message /\ RevokeTo(snap.primary).kind = "revoke"
    BY <1>0, <1>17, MessageType DEF RevokeTimeout, ShapeInv
  <2>2. server' \in [Server -> Replica]
    BY <1>0, <1>17, <1>a, <2>1 DEF RevokeTimeout, Typed
  <2>3. late' \subseteq Message /\ \A m \in late' : m.kind # "revoke" => m.version \in Version
    BY <1>0, <1>17, <2>1 DEF RevokeTimeout, Typed, ShapeInv
  <2>4. snap' \in Snapshot /\ snap'.pc = "wait"
    BY <1>0, <1>17 DEF RevokeTimeout, Typed, Snapshot
  <2>5. count' \in Counted
    BY <1>17, <1>d DEF RevokeTimeout
  <2> QED
    BY <1>0, <1>17, <2>2, <2>3, <2>4, <2>5 DEF RevokeTimeout, TypeInv, Typed, ShapeInv
<1>18. CASE SnapshotFinish
  <2>1. /\ meta' \in Meta /\ meta'.version = meta.version
        /\ meta'.lease = meta.lease \/ meta'.lease = NoLease
    BY <1>0, <1>18 DEF SnapshotFinish, Typed, Meta
  <2>2. snap' \in Snapshot /\ snap'.pc = "done"
    BY <1>0, <1>18 DEF SnapshotFinish, NoSnap, Snapshot
  <2> QED
    BY <1>0, <1>18, <2>1, <2>2 DEF SnapshotFinish, TypeInv, Typed, ShapeInv
<1>19. CASE LeaseOver
  <2>1. /\ meta' \in Meta /\ meta'.version = meta.version
        /\ meta'.lease.primary = meta.lease.primary
    BY <1>0, <1>19 DEF LeaseOver, Typed, Meta, Lease
  <2> QED
    BY <1>0, <1>19, <2>1 DEF LeaseOver, TypeInv, Typed, ShapeInv
<1>f. ASSUME NEW s \in Server, NEW r \in Replica, server' = [server EXCEPT ![s] = r]
      PROVE  server' \in [Server -> Replica]
  BY <1>0, <1>f DEF Typed
<1>20. ASSUME NEW s \in Server, ServerLeaseOver(s) PROVE TypeInv'
  <2>1. server[s] \in Replica
    BY <1>0 DEF Typed
  <2>2. [server[s] EXCEPT !.over = TRUE] \in Replica
    BY <2>1 DEF Replica
  <2>3. server' \in [Server -> Replica]
    BY <1>20, <1>f, <2>2 DEF ServerLeaseOver
  <2> QED
    BY <1>0, <1>20, <2>3 DEF ServerLeaseOver, TypeInv, Typed, ShapeInv
<1>21. ASSUME NEW s \in Server, SendHeartbeat(s) PROVE TypeInv'
  <2>1. count' \in Counted
    BY <1>0, <1>21 DEF SendHeartbeat, Typed, Counted
  <2>2. hb' \in [Server -> Beat]
    <3>1. server[s] \in Replica
      BY <1>0 DEF Typed
    <3>2. server[s].has \in BOOLEAN /\ server[s].version \in 0..MaxVersion
          /\ (Check(s) /\ server[s].mutated) \in BOOLEAN
      BY <1>0, <3>1 DEF Replica
    <3> QED
      BY <1>0, <1>21, <3>2 DEF SendHeartbeat, Typed, Beat
  <2> QED
    BY <1>0, <1>21, <2>1, <2>2 DEF SendHeartbeat, TypeInv, Typed, ShapeInv
<1>22. ASSUME NEW s \in Server, HeartBeat(s) PROVE TypeInv'
  <2>0. meta \in Meta /\ hb[s] \in Beat /\ hb \in [Server -> Beat]
    BY <1>0 DEF Typed
  <2>1. ASSUME NEW m \in Meta, NEW d \in BOOLEAN, m.version >= meta.version,
               m.lease = meta.lease, Done(s, m, d), left' \subseteq Server
        PROVE  TypeInv'
    <3>1. server' \in [Server -> Replica]
      BY <1>0, <1>e, <2>1 DEF Done, Typed
    <3>2. hb' \in [Server -> Beat]
      BY <2>0, <2>1 DEF Done, Beat
    <3>3. regrant' \in BOOLEAN /\ meta' = m
      BY <1>0, <2>1 DEF Done, Typed
    <3>4. logged \in Nat /\ meta.version \in Nat /\ m.version \in Nat /\ logged <= m.version
      BY <1>0, <2>0, <2>1 DEF Typed, Meta
    <3> QED
      BY <1>0, <1>22, <2>1, <3>1, <3>2, <3>3, <3>4 DEF HeartBeat, TypeInv, Typed, ShapeInv
  <2>2. /\ Without(s) \in Meta /\ Without(s).version = meta.version
        /\ Without(s).lease = meta.lease
    BY <2>0 DEF Without, Meta
  <2>3. meta.version \in Nat
    BY <1>0, <2>0 DEF Meta
  <2>4. CASE TellStale(s)
    <3>1. Without(s).version >= meta.version
      BY <2>2, <2>3
    <3>2. Done(s, Without(s), TRUE) /\ left' \subseteq Server
      BY <1>0, <2>4 DEF TellStale, Typed
    <3> QED
      BY <2>1, <2>2, <3>1, <3>2
  <2>5. CASE TakeIn(s)
    <3> DEFINE v == IF ~meta.granting /\ hb[s].version > meta.version
                    THEN hb[s].version ELSE meta.version
               m == [meta EXCEPT !.locs = @ \cup {s}, !.version = v]
    <3>1. v \in Version /\ v >= meta.version
      BY <1>0, <2>0, <2>3 DEF Meta, Beat
    <3>2. Done(s, m, FALSE)
      BY <2>5 DEF TakeIn
    <3>3. m \in Meta /\ m.version = v /\ m.lease = meta.lease
      <4> HIDE DEF v
      <4> QED
        BY <2>0, <3>1 DEF Meta
    <3>4. left' \subseteq Server
      BY <1>0, <2>5 DEF TakeIn, Typed
    <3> HIDE DEF m, v
    <3> QED
      BY <2>1, <3>1, <3>2, <3>3, <3>4
  <2>6. CASE NotReported(s)
    <3>1. CASE Done(s, meta, FALSE) /\ UNCHANGED left
      <4>1. meta.version >= meta.version /\ left' \subseteq Server
        BY <1>0, <2>3, <3>1 DEF Typed
      <4> QED
        BY <2>0, <2>1, <3>1, <4>1
    <3>2. CASE /\ meta' = Without(s) /\ left' = left \cup {s}
               /\ regrant' = (regrant \/ IsValid(Without(s)))
               /\ hb' = [hb EXCEPT ![s].pc = "answered", ![s].extend = FALSE]
               /\ UNCHANGED server
      <4>1. hb' \in [Server -> Beat]
        BY <2>0, <3>2 DEF Beat
      <4>2. regrant' \in BOOLEAN
        BY <1>0, <3>2 DEF Typed
      <4> QED
        BY <1>0, <1>22, <2>2, <3>2, <4>1, <4>2 DEF HeartBeat, TypeInv, Typed, ShapeInv
    <3> QED
      BY <2>6, <3>1, <3>2 DEF NotReported
  <2> QED
    BY <1>22, <2>4, <2>5, <2>6 DEF HeartBeat
<1>23. ASSUME NEW s \in Server, HeartbeatAnswer(s) PROVE TypeInv'
  <2>1. hb' \in [Server -> Beat]
    BY <1>0, <1>23 DEF HeartbeatAnswer, Typed, NoHeartbeat, Beat
  <2>2. server[s] \in Replica
    BY <1>0 DEF Typed
  <2>3. /\ [server[s] EXCEPT !.has = FALSE, !.held = FALSE, !.secondaries = {},
                            !.data = {}] \in Replica
        /\ [server[s] EXCEPT !.over = FALSE, !.mutated = FALSE] \in Replica
    BY <2>2 DEF Replica
  <2>4. PICK r \in Replica : server' = [server EXCEPT ![s] = r]
    BY <1>23, <2>2, <2>3 DEF HeartbeatAnswer
  <2>5. server' \in [Server -> Replica]
    BY <1>f, <2>4
  <2> QED
    BY <1>0, <1>23, <2>1, <2>5 DEF HeartbeatAnswer, TypeInv, Typed, ShapeInv
<1>24. ASSUME NEW s \in Server, Sweep(s) PROVE TypeInv'
  <2>1. count' \in Counted
    BY <1>24, <1>d DEF Sweep
  <2> QED
    BY <1>0, <1>24, <2>1 DEF Sweep, TypeInv, Typed, ShapeInv
<1>25. ASSUME NEW s \in Server, SweepDead(s) PROVE TypeInv'
  <2>1. /\ meta' \in Meta /\ meta'.version = meta.version /\ meta'.lease = meta.lease
    BY <1>0, <1>25 DEF SweepDead, Without, Typed, Meta
  <2>2. regrant' \in BOOLEAN
    BY <1>0, <1>25 DEF SweepDead, Typed
  <2> QED
    BY <1>0, <1>25, <2>1, <2>2 DEF SweepDead, TypeInv, Typed, ShapeInv
<1>26. CASE Crash
  <2>1. meta' \in Meta /\ meta'.version = logged /\ meta'.lease = NoLease
    BY <1>0, <1>26 DEF Crash, Typed, Meta
  <2>2. grant' \in Attempt /\ grant'.pc = "none" /\ grant'.waiting = {}
    BY <1>0, <1>26 DEF Crash, NoGrant, Attempt
  <2>3. snap' \in Snapshot /\ snap'.pc # "revoking"
    BY <1>0, <1>26 DEF Crash, NoSnap, Snapshot, Typed
  <2>4. hb' \in [Server -> Beat]
    BY <1>0, <1>26 DEF Crash, NoHeartbeat, Beat
  <2>5. late' \subseteq Message /\ \A m \in late' : m.kind # "revoke" => m.version \in Version
    <3>1. snap.primary \in Server \cup {None}
      BY <1>0 DEF Typed, Snapshot
    <3>2. \A s \in {snap.primary} \ {None} : s \in Server
      BY <3>1
    <3> QED
      BY <1>0, <1>26, <3>2, MessageType DEF Crash, Typed, ShapeInv
  <2>6. count' \in Counted
    BY <1>26, <1>d DEF Crash
  <2>7. logged \in Version /\ logged <= logged
    BY <1>0 DEF Typed
  <2>8. call' \in [Call -> {"idle", "want", "grant"}] /\ regrant' \in BOOLEAN
    BY <1>26 DEF Crash
  <2> QED
    BY <1>0, <1>26, <2>1, <2>2, <2>3, <2>4, <2>5, <2>6, <2>7, <2>8
       DEF Crash, TypeInv, Typed, ShapeInv
<1>27. ASSUME NEW s \in Server, NEW w \in Write, BeginWrite(s, w) PROVE TypeInv'
  <2>1. server[s] \in Replica
    BY <1>0 DEF Typed
  <2>2. /\ write' \in [Server -> Mutation]
        /\ \A p \in Server : p # s => write'[p] = write[p]
        /\ write'[s].id = w
    BY <1>0, <1>27, <2>1 DEF BeginWrite, Typed, Mutation, Replica
  <2>3. [server[s] EXCEPT !.data = @ \cup {w}, !.mutated = TRUE] \in Replica
    BY <2>1 DEF Replica
  <2>4. server' = [server EXCEPT ![s] = [server[s] EXCEPT !.data = @ \cup {w}, !.mutated = TRUE]]
    BY <1>0, <1>27 DEF BeginWrite, Typed
  <2>5. server' \in [Server -> Replica]
    BY <1>f, <2>3, <2>4
  <2> QED
    BY <1>0, <1>27, <2>2, <2>5 DEF BeginWrite, TypeInv, Typed, ShapeInv
<1>28. ASSUME NEW s \in Server, NEW t \in Server, ApplyMutation(s, t) PROVE TypeInv'
  <2>1. server[t] \in Replica /\ write[s] \in Mutation
    BY <1>0 DEF Typed
  <2>2. /\ write' \in [Server -> Mutation]
        /\ \A p \in Server : write'[p].id = write[p].id /\ write'[p].todo \subseteq write[p].todo
    BY <1>0, <1>28, <2>1 DEF ApplyMutation, Typed, Mutation
  <2>3. write[s].id \in Write
    BY <1>0, <1>28 DEF ApplyMutation, ShapeInv
  <2>4. [server[t] EXCEPT !.data = @ \cup {write[s].id}] \in Replica
    BY <2>1, <2>3 DEF Replica
  <2>5. server' = [server EXCEPT ![t] = [server[t] EXCEPT !.data = @ \cup {write[s].id}]]
    BY <1>0, <1>28 DEF ApplyMutation, Typed
  <2>6. server' \in [Server -> Replica]
    BY <1>f, <2>4, <2>5
  <2>7. \A p \in Server : write'[p].todo # {} => write'[p].id \in Write
    BY <1>0, <2>2 DEF ShapeInv
  <2> QED
    BY <1>0, <1>28, <2>2, <2>6, <2>7 DEF ApplyMutation, TypeInv, Typed, ShapeInv
<1>29. ASSUME NEW s \in Server, WriteFails(s) \/ WriteDone(s) PROVE TypeInv'
  <2>1. /\ write' \in [Server -> Mutation]
        /\ \A p \in Server : write'[p].todo # {} => write'[p] = write[p]
    <3>1. PICK u : write' = [write EXCEPT ![s] = u] /\ u \in Mutation /\ u.todo = {}
      <4>1. NoWrite \in Mutation /\ NoWrite.todo = {}
        BY ChunkLeaseAssumption DEF NoWrite, Mutation
      <4>2. write' = [write EXCEPT ![s] = NoWrite]
        BY <1>29 DEF WriteFails, WriteDone
      <4> QED
        BY <4>1, <4>2
    <3> QED
      BY <1>0, <3>1 DEF Typed
  <2>2. acked' \subseteq Write
    <3>1. write[s] \in Mutation
      BY <1>0 DEF Typed
    <3> QED
      BY <1>0, <1>29, <3>1 DEF WriteFails, WriteDone, Typed, Mutation
  <2> QED
    BY <1>0, <1>29, <2>1, <2>2 DEF WriteFails, WriteDone, TypeInv, Typed, ShapeInv
<1>30. CASE UNCHANGED vars
  BY <1>0, <1>30 DEF vars, TypeInv, Typed, ShapeInv
<1> QED
  BY <1>1, <1>2, <1>3, <1>4, <1>5, <1>6, <1>7, <1>8, <1>9, <1>10, <1>11, <1>12, <1>13,
     <1>14, <1>15, <1>16, <1>17, <1>18, <1>19, <1>20, <1>21, <1>22, <1>23, <1>24, <1>25,
     <1>26, <1>27, <1>28, <1>29, <1>30
     DEF Next, GrantStep, SnapshotStep, ServerStep

\* Grants, snapshots, heartbeats and writes keep every variable in its type.
THEOREM TypeCorrect == Spec => []TypeOK
<1>1. Spec => []TypeInv
  BY TypeInit, TypeStep, PTL DEF Spec
<1>2. TypeInv => TypeOK
  BY TypeOKIsTyped DEF TypeInv
<1> QED
  BY <1>1, <1>2, PTL

-----------------------------------------------------------------------------
\* While a round is made, no version is adopted; and of the versions that
\* clients know, the newest is the one of the lease, if there is one.
GrantInv ==
  /\ grant.pc = "round" => meta.granting /\ grant.version = meta.version + 1
  /\ "crash" \notin count.kinds =>
       /\ \A t \in told : t.version <= meta.version
       /\ meta.lease # NoLease =>
            \A t \in told : t.version = meta.version => t.primary = meta.lease.primary
       /\ grant.pc = "flush" =>
            /\ grant.version <= meta.version
            /\ meta.lease # NoLease => meta.lease.primary = grant.primary
            /\ \A t \in told : t.version >= grant.version => t.primary = grant.primary
       /\ \A a, b \in told : a.version = b.version => a.primary = b.primary

\* A server that no round left out, and that was never dropped: its chunk, the
\* messages that name it, and the writes that reach it.
StayInv ==
  \A s \in Server \ left :
    /\ server[s].has /\ ~hb[s].delete
    /\ grant.pc = "round" => s \in grant.group
    /\ \A m \in late : m.kind = "grant" /\ m.to # s => s \in m.secondaries
    /\ \A p \in Server :
         /\ server[p].held /\ p # s => s \in server[p].secondaries
         /\ write[p].id # None => s \in write[p].todo \/ write[p].id \in server[s].data
    /\ acked \subseteq server[s].data

\* Steps that start and end no grant, set no lease and tell nobody.
LEMMA GrantFrame ==
  ASSUME GrantInv, meta'.version = meta.version,
         meta'.lease # NoLease =>
           meta.lease # NoLease /\ meta'.lease.primary = meta.lease.primary,
         grant'.pc = "round" =>
           /\ grant.pc = "round" /\ grant'.version = grant.version
           /\ meta'.granting = meta.granting,
         grant'.pc = "flush" =>
           /\ grant.pc = "flush" /\ grant'.version = grant.version
           /\ grant'.primary = grant.primary,
         told' = told, "crash" \in count.kinds => "crash" \in count'.kinds
  PROVE  GrantInv'
BY DEF GrantInv

\* A grant that finishes has a version no client knows; one adopted from a
\* heartbeat is higher than any that a client knows.
LEMMA GrantStepKeeps == TypeInv /\ GrantInv /\ [Next]_vars => GrantInv'
<1> SUFFICES ASSUME TypeInv, GrantInv, [Next]_vars PROVE GrantInv'
  OBVIOUS
<1> USE DEF registry, pool, servers, history
<1>0. /\ meta \in Meta /\ grant \in Attempt /\ meta.version \in Nat /\ meta.lease \in Lease
      /\ \A v \in 0..MaxVersion : v \in Nat
      /\ hb \in [Server -> Beat] /\ count \in Counted
      /\ \A t \in told : t.version \in Nat
  BY ChunkLeaseAssumption DEF TypeInv, Typed, Version, Meta
<1>k. ASSUME NEW k, Fails(k) PROVE "crash" \in count.kinds => "crash" \in count'.kinds
  BY <1>0, <1>k DEF Fails, Counted
<1>1. ASSUME NEW c \in Call, FindLeaseHolder(c) PROVE GrantInv'
  <2>1. CASE IsValid(meta) /\ told' = told \cup {[primary |-> meta.lease.primary,
                                                  version |-> meta.version]}
             /\ UNCHANGED <<meta, call>>
    <3>1. UNCHANGED <<meta, grant, count>> /\ meta.lease # NoLease
      BY <1>1, <2>1 DEF FindLeaseHolder, IsValid
    <3>2. \A t \in told' :
            \/ t \in told
            \/ t.primary = meta.lease.primary /\ t.version = meta.version
      BY <2>1
    <3>3. meta.version <= meta.version
      BY <1>0
    <3> QED
      BY <3>1, <3>2, <3>3 DEF GrantInv
  <2>2. CASE meta' = [meta EXCEPT !.lease = NoLease] /\ UNCHANGED told
    <3>1. meta'.version = meta.version /\ meta'.lease = NoLease /\ meta'.granting = meta.granting
      BY <1>0, <2>2 DEF Meta
    <3>2. UNCHANGED <<grant, count, told>>
      BY <1>1, <2>2 DEF FindLeaseHolder
    <3> QED
      BY <3>1, <3>2, GrantFrame
  <2> QED
    BY <1>1, <2>1, <2>2 DEF FindLeaseHolder
<1>2. ASSUME NEW c \in Call, Grant(c) PROVE GrantInv'
  <2>1. grant'.pc = "prepare" /\ UNCHANGED <<meta, told, count>>
    BY <1>2 DEF Grant, NoGrant
  <2> QED
    BY <2>1, GrantFrame
<1>3. CASE Regrant
  <2>1. (grant' = grant \/ grant'.pc = "prepare") /\ UNCHANGED <<meta, told, count>>
    BY <1>3 DEF Regrant, NoGrant
  <2> QED
    BY <2>1, GrantFrame
<1>4. CASE PrepareLocked
  <2>1. grant'.pc = "round" /\ grant'.version = meta.version + 1
    BY <1>0, <1>4 DEF PrepareLocked, Attempt
  <2>2. meta'.granting /\ meta'.version = meta.version /\ meta'.lease = meta.lease
    BY <1>0, <1>4 DEF PrepareLocked, Meta
  <2> QED
    BY <1>4, <2>1, <2>2 DEF PrepareLocked, GrantInv
<1>5. CASE PrepareFails
  <2>1. grant'.pc = "giveup" /\ UNCHANGED <<meta, told>>
    BY <1>0, <1>5 DEF PrepareFails, Attempt
  <2>2. "crash" \in count.kinds => "crash" \in count'.kinds
    BY <1>0, <1>5 DEF PrepareFails, Counted
  <2> QED
    BY <2>1, <2>2, GrantFrame
<1>6. CASE ClearGranting
  <2>1. grant'.pc = "none" /\ UNCHANGED <<told, count>>
    BY <1>6 DEF ClearGranting, NoGrant
  <2>2. meta'.version = meta.version /\ meta'.lease = meta.lease
    BY <1>0, <1>6 DEF ClearGranting, Meta
  <2> QED
    BY <2>1, <2>2, GrantFrame
<1>7. ASSUME NEW s \in Server, Answer(s) \/ Timeout(s) PROVE GrantInv'
  <2>1. UNCHANGED <<meta, told>> /\ grant.pc = "round"
    BY <1>7 DEF Answer, Timeout
  <2>2. grant'.pc = "round" /\ grant'.version = grant.version
    BY <1>0, <1>7 DEF Answer, Timeout, Attempt
  <2>3. "crash" \in count.kinds => "crash" \in count'.kinds
    BY <1>7, <1>k DEF Answer, Timeout
  <2> QED
    BY <2>1, <2>2, <2>3, GrantFrame
<1>8. ASSUME NEW m \in late, LateMessage(m) PROVE GrantInv'
  BY <1>8, GrantFrame DEF LateMessage
<1>9. CASE NextRound
  <2>1. meta'.version = meta.version /\ meta'.lease = meta.lease
    BY <1>0, <1>9 DEF NextRound, Meta
  <2>2. grant'.pc = "prepare" /\ UNCHANGED <<told, count>>
    BY <1>0, <1>9 DEF NextRound, Attempt
  <2> QED
    BY <2>1, <2>2, GrantFrame
<1>10. CASE GrantFinish
  <2>1. grant.version = meta.version + 1 /\ grant.version \in Nat
    BY <1>0, <1>10 DEF GrantFinish, GrantInv
  <2>2. meta'.version = grant.version /\ meta'.lease.primary = grant.primary
    BY <1>0, <1>10, <2>1 DEF GrantFinish, Meta, Lease
  <2>3. grant'.pc = "flush" /\ grant'.version = grant.version /\ grant'.primary = grant.primary
    BY <1>0, <1>10 DEF GrantFinish, Attempt
  <2>4. UNCHANGED <<told, count>>
    BY <1>10 DEF GrantFinish
  <2>5. "crash" \notin count.kinds =>
          \A t \in told : t.version <= grant.version /\ ~(t.version >= grant.version)
                          /\ t.version # grant.version
    BY <1>0, <2>1 DEF GrantInv
  <2>6. grant.version <= grant.version
    BY <2>1
  <2> QED
    BY <2>2, <2>3, <2>4, <2>5, <2>6 DEF GrantInv
<1>11. CASE GrantReturn
  <2>1. grant'.pc = "none" /\ UNCHANGED <<meta, count>> /\ grant.pc = "flush"
    BY <1>11 DEF GrantReturn, NoGrant
  <2>2. \A t \in told' : t \in told \/ (t.primary = grant.primary /\ t.version = grant.version)
    BY <1>11 DEF GrantReturn
  <2>3. grant.version \in Nat /\ grant.version >= grant.version
    BY <1>0 DEF Attempt
  <2> QED
    BY <2>1, <2>2, <2>3 DEF GrantInv
<1>12. CASE Flush
  BY <1>12, GrantFrame DEF Flush
<1>13. CASE LeaseOver
  <2>1. meta'.version = meta.version /\ meta'.granting = meta.granting
        /\ meta'.lease.primary = meta.lease.primary /\ meta.lease # NoLease
    BY <1>0, <1>13 DEF LeaseOver, Meta, Lease
  <2> QED
    BY <1>13, <2>1, GrantFrame DEF LeaseOver
<1>14. CASE Revoke
  <2>1. meta'.version = meta.version /\ meta'.granting = meta.granting
    BY <1>0, <1>14 DEF Revoke, Meta
  <2>2. meta'.lease # NoLease =>
          meta.lease # NoLease /\ meta'.lease.primary = meta.lease.primary
    BY <1>0, <1>14 DEF Revoke, Meta, Lease
  <2> QED
    BY <1>14, <2>1, <2>2, GrantFrame DEF Revoke
<1>15. CASE RevokeAnswer
  BY <1>15, GrantFrame DEF RevokeAnswer
<1>16. CASE RevokeAcked \/ SnapshotFinish
  <2>1. /\ meta'.version = meta.version /\ meta'.granting = meta.granting
        /\ meta'.lease = meta.lease \/ meta'.lease = NoLease
    BY <1>0, <1>16 DEF RevokeAcked, SnapshotFinish, Meta
  <2>2. UNCHANGED <<told, grant, count>>
    BY <1>16 DEF RevokeAcked, SnapshotFinish
  <2> QED
    BY <2>1, <2>2, GrantFrame
<1>17. CASE RevokeTimeout
  <2>1. "crash" \in count.kinds => "crash" \in count'.kinds
    BY <1>17, <1>k DEF RevokeTimeout
  <2> QED
    BY <1>17, <2>1, GrantFrame DEF RevokeTimeout
<1>18. ASSUME NEW s \in Server, HeartBeat(s) PROVE GrantInv'
  <2>1. UNCHANGED <<told, grant, count>>
    BY <1>18 DEF HeartBeat
  <2>2. /\ meta'.lease = meta.lease /\ meta'.granting = meta.granting
        /\ meta'.version \in Nat /\ meta'.version >= meta.version
        /\ meta.granting => meta'.version = meta.version
    <3>1. Without(s).version = meta.version /\ Without(s).lease = meta.lease
          /\ Without(s).granting = meta.granting
      BY <1>0 DEF Without, Meta
    <3>2. CASE meta' = Without(s) \/ meta' = meta
      <4>1. meta.version >= meta.version
        BY <1>0
      <4> QED
        BY <1>0, <3>1, <3>2, <4>1
    <3>3. CASE TakeIn(s)
      <4> DEFINE v == IF ~meta.granting /\ hb[s].version > meta.version
                      THEN hb[s].version ELSE meta.version
      <4>1. v \in Nat /\ v >= meta.version /\ (meta.granting => v = meta.version)
        BY <1>0 DEF Beat
      <4>2. meta' = [meta EXCEPT !.locs = @ \cup {s}, !.version = v]
        BY <3>3 DEF TakeIn, Done
      <4> HIDE DEF v
      <4> QED
        BY <1>0, <4>1, <4>2 DEF Meta
    <3> QED
      BY <1>18, <3>2, <3>3 DEF HeartBeat, TellStale, NotReported, Done
  <2>3. grant.pc = "round" => meta'.version = meta.version
    BY <2>2 DEF GrantInv
  <2>4. grant.version \in Nat
    BY <1>0 DEF Attempt
  <2>5. CASE meta'.version = meta.version
    BY <2>1, <2>2, <2>5, GrantFrame
  <2>6. CASE meta'.version > meta.version
    <3>1. grant.pc # "round"
      BY <1>0, <2>2, <2>3, <2>6
    <3>2. "crash" \notin count.kinds =>
            \A t \in told : t.version <= meta'.version /\ t.version # meta'.version
      BY <1>0, <2>2, <2>6 DEF GrantInv
    <3>3. grant.version <= meta.version => grant.version <= meta'.version
      BY <1>0, <2>2, <2>4
    <3> QED
      BY <2>1, <2>2, <3>1, <3>2, <3>3 DEF GrantInv
  <2> QED
    BY <1>0, <2>2, <2>5, <2>6
<1>19. ASSUME NEW s \in Server,
              \/ SendHeartbeat(s) \/ HeartbeatAnswer(s) \/ ServerLeaseOver(s)
              \/ Sweep(s) \/ WriteFails(s) \/ WriteDone(s)
              \/ (\E w \in Write : BeginWrite(s, w)) \/ (\E t \in Server : ApplyMutation(s, t))
       PROVE  GrantInv'
  <2>1. UNCHANGED <<meta, told, grant>>
    BY <1>19 DEF SendHeartbeat, HeartbeatAnswer, ServerLeaseOver, Sweep, WriteFails,
                 WriteDone, BeginWrite, ApplyMutation
  <2>2. "crash" \in count.kinds => "crash" \in count'.kinds
    <3>1. CASE SendHeartbeat(s)
      BY <1>0, <3>1 DEF SendHeartbeat, Counted
    <3> QED
      BY <1>19, <1>k, <3>1 DEF HeartbeatAnswer, ServerLeaseOver, Sweep, WriteFails,
                 WriteDone, BeginWrite, ApplyMutation
  <2> QED
    BY <2>1, <2>2, GrantFrame
<1>20. ASSUME NEW s \in Server, SweepDead(s) PROVE GrantInv'
  <2>1. Without(s).version = meta.version /\ Without(s).lease = meta.lease
        /\ Without(s).granting = meta.granting
    BY <1>0 DEF Without, Meta
  <2> QED
    BY <1>20, <2>1, GrantFrame DEF SweepDead
<1>21. CASE Crash
  <2>1. "crash" \in count'.kinds
    BY <1>0, <1>21 DEF Crash, Fails, Counted
  <2>2. grant'.pc = "none"
    BY <1>21 DEF Crash, NoGrant
  <2> QED
    BY <2>1, <2>2 DEF GrantInv
<1>22. CASE UNCHANGED vars
  BY <1>22, GrantFrame DEF vars
<1> QED
  BY <1>1, <1>2, <1>3, <1>4, <1>5, <1>6, <1>7, <1>8, <1>9, <1>10, <1>11, <1>12, <1>13,
     <1>14, <1>15, <1>16, <1>17, <1>18, <1>19, <1>20, <1>21, <1>22
     DEF Next, GrantStep, SnapshotStep, ServerStep

\* Clients are never told two primaries for one version until the master
\* crashes: PrepareMutation and ApplyMutation tell old primaries from new ones
\* by the version alone.
THEOREM UniqueGrants == Spec => []GrantsUnique
<1>1. Init => GrantInv
  BY DEF Init, GrantInv, NoGrant
<1>2. GrantInv => GrantsUnique
  BY DEF GrantInv, GrantsUnique
<1> QED
  BY <1>1, <1>2, TypeInit, TypeStep, GrantStepKeeps, PTL DEF Spec

-----------------------------------------------------------------------------
\* Steps that hand out no list of secondaries and begin no write.
LEMMA StayFrame ==
  ASSUME StayInv, left \subseteq left',
         \A s \in Server \ left' :
           /\ server[s].has => server'[s].has
           /\ server[s].data \subseteq server'[s].data
           /\ hb'[s].delete => hb[s].delete,
         grant'.pc = "round" => grant.pc = "round" /\ grant'.group = grant.group,
         \A m \in late' : m \in late \/ m.kind # "grant",
         \A p \in Server :
           /\ server'[p].held =>
                server[p].held /\ server'[p].secondaries = server[p].secondaries
           /\ write'[p].id # None => write'[p] = write[p],
         acked' = acked
  PROVE  StayInv'
<1> SUFFICES ASSUME NEW s \in Server \ left'
             PROVE  /\ server'[s].has /\ ~hb'[s].delete
                    /\ grant'.pc = "round" => s \in grant'.group
                    /\ \A m \in late' : m.kind = "grant" /\ m.to # s => s \in m.secondaries
                    /\ \A p \in Server :
                         /\ server'[p].held /\ p # s => s \in server'[p].secondaries
                         /\ write'[p].id # None =>
                              s \in write'[p].todo \/ write'[p].id \in server'[s].data
                    /\ acked' \subseteq server'[s].data
  BY DEF StayInv
<1>1. s \in Server \ left /\ server[s].data \subseteq server'[s].data
  OBVIOUS
<1>2. /\ server[s].has /\ ~hb[s].delete
      /\ grant.pc = "round" => s \in grant.group
      /\ \A m \in late : m.kind = "grant" /\ m.to # s => s \in m.secondaries
      /\ \A p \in Server :
           /\ server[p].held /\ p # s => s \in server[p].secondaries
           /\ write[p].id # None => s \in write[p].todo \/ write[p].id \in server[s].data
      /\ acked \subseteq server[s].data
  BY <1>1 DEF StayInv
<1> QED
  BY <1>1, <1>2

\* A message is handled, or not: who stays is among the secondaries of every
\* grant, so the server that gets it sends its writes to all of them.
LEMMA StayMessage ==
  ASSUME TypeInv, StayInv, NEW m \in Message,
         m.kind # "revoke" => m.version \in Version,
         m.kind = "grant" => Server \ left \subseteq m.secondaries \cup {m.to},
         server' = Handled(server, m) \/ server' = server,
         late' \subseteq late \cup {m},
         grant'.pc = "round" => grant.pc = "round" /\ grant'.group = grant.group,
         UNCHANGED <<hb, write, acked, left>>
  PROVE  StayInv'
<1>1. /\ \A s \in Server : server'[s].has = server[s].has /\ server'[s].data = server[s].data
      /\ \A p \in Server : server'[p].held =>
           \/ server[p].held /\ server'[p].secondaries = server[p].secondaries
           \/ m.kind = "grant" /\ m.to = p /\ server'[p].secondaries = m.secondaries
  <2>1. CASE server' = server
    BY <2>1
  <2>2. CASE server' = Handled(server, m)
    <3>1. server \in [Server -> Replica] /\ m.to \in Server
          /\ m.kind \in {"grant", "update", "revoke"}
      BY DEF TypeInv, Typed, Message
    <3>2. \A s \in Server : s # m.to => server'[s] = server[s]
      BY <2>2, <3>1, HandledFields
    <3>3. LET r == server[m.to]
              q == server'[m.to]
          IN  /\ q.has = r.has /\ q.data = r.data
              /\ m.kind = "revoke" => ~q.held
              /\ m.kind # "revoke" /\ ~r.has => q = r
              /\ m.kind = "update" /\ r.has => ~q.held
              /\ m.kind = "grant" /\ r.has => q.secondaries = m.secondaries
      BY <2>2, <3>1, HandledFields
    <3> QED
      BY <3>1, <3>2, <3>3
  <2> QED
    BY <2>1, <2>2
<1> SUFFICES ASSUME NEW s \in Server \ left
             PROVE  /\ server'[s].has /\ ~hb[s].delete
                    /\ grant'.pc = "round" => s \in grant'.group
                    /\ \A n \in late' : n.kind = "grant" /\ n.to # s => s \in n.secondaries
                    /\ \A p \in Server :
                         /\ server'[p].held /\ p # s => s \in server'[p].secondaries
                         /\ write[p].id # None =>
                              s \in write[p].todo \/ write[p].id \in server'[s].data
                    /\ acked \subseteq server'[s].data
  BY DEF StayInv
<1>2. /\ server[s].has /\ ~hb[s].delete
      /\ grant.pc = "round" => s \in grant.group
      /\ \A n \in late : n.kind = "grant" /\ n.to # s => s \in n.secondaries
      /\ \A p \in Server :
           /\ server[p].held /\ p # s => s \in server[p].secondaries
           /\ write[p].id # None => s \in write[p].todo \/ write[p].id \in server[s].data
      /\ acked \subseteq server[s].data
  BY DEF StayInv
<1>3. m.kind = "grant" /\ m.to # s => s \in m.secondaries
  OBVIOUS
<1> QED
  BY <1>1, <1>2, <1>3

\* Every step keeps the servers that stay up to date.
LEMMA StayStepKeeps == TypeInv /\ StayInv /\ [Next]_vars => StayInv'
<1> SUFFICES ASSUME TypeInv, StayInv, [Next]_vars PROVE StayInv'
  OBVIOUS
<1> USE DEF registry, pool, servers, history
<1>0. /\ meta \in Meta /\ grant \in Attempt /\ hb \in [Server -> Beat]
      /\ server \in [Server -> Replica] /\ write \in [Server -> Mutation]
      /\ snap \in Snapshot /\ left \subseteq Server
  BY DEF TypeInv, Typed
\* What the steps that start, end or abandon a grant leave alone.
<1>a. ASSUME UNCHANGED <<server, late, hb, write, acked>>, left \subseteq left',
             grant'.pc = "round" => grant.pc = "round" /\ grant'.group = grant.group
      PROVE  StayInv'
  BY <1>a, StayFrame
<1>1. ASSUME NEW c \in Call, FindLeaseHolder(c) \/ Grant(c) PROVE StayInv'
  <2>1. grant' = grant \/ grant'.pc = "prepare"
    BY <1>1 DEF FindLeaseHolder, Grant, NoGrant
  <2> QED
    BY <1>1, <1>a, <2>1 DEF FindLeaseHolder, Grant
<1>2. CASE Regrant \/ PrepareFails \/ ClearGranting \/ NextRound \/ GrantReturn
  <2>1. grant' = grant \/ grant'.pc # "round"
    BY <1>0, <1>2 DEF Regrant, PrepareFails, ClearGranting, NextRound, GrantReturn,
                      NoGrant, Attempt
  <2>2. UNCHANGED <<server, late, hb, write, acked>> /\ left \subseteq left'
    BY <1>2 DEF Regrant, PrepareFails, ClearGranting, NextRound, GrantReturn
  <2> QED
    BY <1>a, <2>1, <2>2
<1>3. CASE PrepareLocked
  <2>1. grant'.group = Live /\ left' = left \cup (Server \ Live)
    BY <1>0, <1>3 DEF PrepareLocked, Attempt
  <2>2. UNCHANGED <<server, late, hb, write, acked>>
    BY <1>3 DEF PrepareLocked
  <2>3. \A s \in Server \ left' : s \in grant'.group
    BY <2>1
  <2>4. Server \ left' \subseteq Server \ left
    BY <2>1
  <2> QED
    BY <2>2, <2>3, <2>4 DEF StayInv
<1>4. ASSUME NEW s \in Server, Answer(s) \/ Timeout(s) PROVE StayInv'
  <2>1. s \in grant.waiting /\ grant.pc = "round"
        /\ grant'.group = grant.group
    BY <1>0, <1>4 DEF Answer, Timeout, Attempt
  <2>2. MessageTo(s) \in Message /\ MessageTo(s).to = s /\ MessageTo(s).kind # "revoke"
        /\ MessageTo(s).version \in Version
    BY <2>1, MessageType
  <2>3. MessageTo(s).kind = "grant" => MessageTo(s).secondaries = grant.group \ {s}
    BY DEF MessageTo
  <2>4. Server \ left \subseteq grant.group
    BY <2>1 DEF StayInv
  <2>5. /\ server' = Handled(server, MessageTo(s)) \/ server' = server
        /\ late' \subseteq late \cup {MessageTo(s)}
        /\ UNCHANGED <<hb, write, acked, left>>
    BY <1>4 DEF Answer, Timeout, Unanswered
  <2> QED
    BY <2>1, <2>2, <2>3, <2>4, <2>5, StayMessage
<1>5. ASSUME NEW m \in late, LateMessage(m) PROVE StayInv'
  <2>1. m \in Message /\ (m.kind # "revoke" => m.version \in Version)
    BY DEF TypeInv, Typed, ShapeInv
  <2>2. m.kind = "grant" => Server \ left \subseteq m.secondaries \cup {m.to}
    BY DEF StayInv
  <2> QED
    BY <1>5, <2>1, <2>2, StayMessage DEF LateMessage
<1>6. CASE GrantFinish
  <2>1. grant'.pc = "flush" /\ UNCHANGED <<late, hb, write, acked, left>>
    BY <1>0, <1>6 DEF GrantFinish, Attempt
  <2>2. \A s \in Server :
          /\ server'[s].has = server[s].has /\ server'[s].data = server[s].data
          /\ server'[s].held = server[s].held
          /\ server'[s].secondaries = server[s].secondaries
    BY <1>0, <1>6 DEF GrantFinish, AllOld, Replica
  <2> QED
    BY <2>1, <2>2, StayFrame
<1>7. CASE Flush \/ LeaseOver \/ Revoke \/ RevokeAcked \/ SnapshotFinish
  BY <1>7, <1>a DEF Flush, LeaseOver, Revoke, RevokeAcked, SnapshotFinish
<1>8. CASE RevokeAnswer \/ RevokeTimeout
  <2>1. snap.primary \in Server
    BY <1>8 DEF RevokeAnswer, RevokeTimeout, TypeInv, ShapeInv
  <2> DEFINE m == RevokeTo(snap.primary)
  <2>2. m \in Message /\ m.kind = "revoke"
    BY <2>1, MessageType
  <2>3. /\ server' = Handled(server, m) \/ server' = server
        /\ late' \subseteq late \cup {m}
        /\ UNCHANGED <<hb, write, acked, left, grant>>
    BY <1>8 DEF RevokeAnswer, RevokeTimeout
  <2> HIDE DEF m
  <2> QED
    BY <2>2, <2>3, StayMessage
<1>9. ASSUME NEW s \in Server, SendHeartbeat(s) PROVE StayInv'
  <2>1. \A t \in Server : hb'[t].delete => hb[t].delete
    BY <1>0, <1>9 DEF SendHeartbeat, Beat
  <2> QED
    BY <1>9, <2>1, StayFrame DEF SendHeartbeat
<1>10. ASSUME NEW s \in Server, HeartBeat(s) PROVE StayInv'
  <2>1. left \subseteq left' /\ UNCHANGED <<grant, late, write, acked>>
    BY <1>10 DEF HeartBeat, TellStale, TakeIn, NotReported
  <2>2. \A t \in Server :
          /\ server'[t].has = server[t].has /\ server'[t].data = server[t].data
          /\ server'[t].held = server[t].held
          /\ server'[t].secondaries = server[t].secondaries
    <3>1. server' = server \/ server' = AllOld(server)
      BY <1>10 DEF HeartBeat, TellStale, TakeIn, NotReported, Done
    <3> QED
      BY <1>0, <3>1 DEF AllOld, Replica
  <2>3. \A t \in Server \ left' : hb'[t].delete => hb[t].delete
    <3>1. CASE TellStale(s)
      BY <1>0, <3>1 DEF TellStale, Done
    <3>2. CASE TakeIn(s)
      BY <1>0, <3>2 DEF TakeIn, Done, Beat
    <3>3. CASE NotReported(s)
      BY <1>0, <3>3 DEF NotReported, Done, Beat
    <3> QED
      BY <1>10, <3>1, <3>2, <3>3 DEF HeartBeat
  <2> QED
    BY <2>1, <2>2, <2>3, StayFrame
<1>11. ASSUME NEW s \in Server, HeartbeatAnswer(s) PROVE StayInv'
  <2>1. /\ \A t \in Server : t # s => server'[t] = server[t] /\ hb'[t] = hb[t]
        /\ ~hb'[s].delete
    BY <1>0, <1>11 DEF HeartbeatAnswer, NoHeartbeat
  <2>2. CASE hb[s].delete
    <3>1. ~server'[s].held
      BY <1>0, <1>11, <2>2 DEF HeartbeatAnswer, Replica
    <3>2. s \in left
      BY <2>2 DEF StayInv
    <3>3. UNCHANGED <<grant, late, write, acked, left>>
      BY <1>11 DEF HeartbeatAnswer
    <3> QED
      BY <2>1, <3>1, <3>2, <3>3, StayFrame
  <2>3. CASE ~hb[s].delete
    <3>1. /\ server'[s].has = server[s].has /\ server'[s].data = server[s].data
          /\ server'[s].held = server[s].held
          /\ server'[s].secondaries = server[s].secondaries
      BY <1>0, <1>11, <2>3 DEF HeartbeatAnswer, Replica
    <3>2. UNCHANGED <<grant, late, write, acked, left>>
      BY <1>11 DEF HeartbeatAnswer
    <3> QED
      BY <2>1, <3>1, <3>2, StayFrame
  <2> QED
    BY <2>2, <2>3
<1>12. ASSUME NEW s \in Server, Sweep(s) \/ SweepDead(s) PROVE StayInv'
  BY <1>12, <1>a DEF Sweep, SweepDead
<1>13. ASSUME NEW s \in Server, ServerLeaseOver(s) PROVE StayInv'
  <2>1. \A t \in Server :
          /\ server'[t].has = server[t].has /\ server'[t].data = server[t].data
          /\ server'[t].held = server[t].held
          /\ server'[t].secondaries = server[t].secondaries
    BY <1>0, <1>13 DEF ServerLeaseOver, Replica
  <2> QED
    BY <1>13, <2>1, StayFrame DEF ServerLeaseOver
<1>14. ASSUME NEW s \in Server, NEW w \in Write, BeginWrite(s, w) PROVE StayInv'
  <2>1. server[s] \in Replica /\ server[s].held
    BY <1>0, <1>14 DEF BeginWrite, Writable, Check
  <2> DEFINE q == [server[s] EXCEPT !.data = @ \cup {w}, !.mutated = TRUE]
  <2>2. /\ q.has = server[s].has /\ q.held = server[s].held
        /\ q.secondaries = server[s].secondaries /\ q.data = server[s].data \cup {w}
    BY <2>1 DEF Replica
  <2>3. server' = [server EXCEPT ![s] = q]
    BY <1>0, <1>14 DEF BeginWrite
  <2> HIDE DEF q
  <2>4. \A t \in Server :
          /\ server'[t].has = server[t].has /\ server[t].data \subseteq server'[t].data
          /\ server'[t].held = server[t].held
          /\ server'[t].secondaries = server[t].secondaries
          /\ t = s => w \in server'[t].data
    BY <1>0, <2>2, <2>3
  <2>5. /\ \A p \in Server : p # s => write'[p] = write[p]
        /\ write'[s].id = w /\ write'[s].todo = server[s].secondaries
    BY <1>0, <1>14 DEF BeginWrite
  <2>6. UNCHANGED <<grant, late, hb, acked, left>>
    BY <1>14 DEF BeginWrite
  <2> QED
    BY <2>1, <2>4, <2>5, <2>6 DEF StayInv
<1>15. ASSUME NEW s \in Server, NEW t \in Server, ApplyMutation(s, t) PROVE StayInv'
  <2>1. server[t] \in Replica /\ write[s] \in Mutation
    BY <1>0
  <2> DEFINE q == [server[t] EXCEPT !.data = @ \cup {write[s].id}]
             x == [write[s] EXCEPT !.todo = @ \ {t}]
  <2>2. /\ q.has = server[t].has /\ q.held = server[t].held
        /\ q.secondaries = server[t].secondaries
        /\ q.data = server[t].data \cup {write[s].id}
        /\ x.id = write[s].id /\ x.todo = write[s].todo \ {t}
    BY <2>1 DEF Replica, Mutation
  <2>3. server' = [server EXCEPT ![t] = q] /\ write' = [write EXCEPT ![s] = x]
    BY <1>0, <1>15 DEF ApplyMutation
  <2> HIDE DEF q, x
  <2>4. \A u \in Server :
          /\ server'[u].has = server[u].has /\ server[u].data \subseteq server'[u].data
          /\ server'[u].held = server[u].held
          /\ server'[u].secondaries = server[u].secondaries
          /\ u = t => write[s].id \in server'[u].data
    BY <1>0, <2>2, <2>3
  <2>5. /\ \A p \in Server : p # s => write'[p] = write[p]
        /\ write'[s].id = write[s].id /\ write'[s].todo = write[s].todo \ {t}
    BY <1>0, <2>2, <2>3
  <2>6. UNCHANGED <<grant, late, hb, acked, left>>
    BY <1>15 DEF ApplyMutation
  <2> QED
    BY <2>4, <2>5, <2>6 DEF StayInv
<1>16. ASSUME NEW s \in Server, WriteFails(s) PROVE StayInv'
  <2>1. \A p \in Server : write'[p].id # None => write'[p] = write[p]
    BY <1>0, <1>16 DEF WriteFails, NoWrite
  <2> QED
    BY <1>16, <2>1, StayFrame DEF WriteFails
<1>17. ASSUME NEW s \in Server, WriteDone(s) PROVE StayInv'
  <2>1. \A p \in Server : write'[p].id # None => write'[p] = write[p]
    BY <1>0, <1>17 DEF WriteDone, NoWrite
  <2>2. \A t \in Server \ left : write[s].id \in server[t].data
    BY <1>17 DEF WriteDone, StayInv
  <2>3. acked' = acked \cup {write[s].id}
        /\ UNCHANGED <<grant, late, hb, server, left>>
    BY <1>17 DEF WriteDone
  <2> QED
    BY <2>1, <2>2, <2>3 DEF StayInv
<1>18. CASE Crash
  <2>1. left' = Server
    BY <1>18 DEF Crash
  <2> QED
    BY <2>1 DEF StayInv
<1>19. CASE UNCHANGED vars
  BY <1>19, <1>a DEF vars
<1> QED
  BY <1>1, <1>2, <1>3, <1>4, <1>5, <1>6, <1>7, <1>8, <1>9, <1>10, <1>11, <1>12, <1>13,
     <1>14, <1>15, <1>16, <1>17, <1>18, <1>19
     DEF Next, GrantStep, SnapshotStep, ServerStep

\* A location that was in every round of every grant, and was never dropped,
\* has every acknowledged write, whoever was primary when it was written.
THEOREM CurrentStayers == Spec => []StayersCurrent
<1>1. Init => StayInv
  <2> SUFFICES ASSUME Init PROVE StayInv
    OBVIOUS
  <2>1. \A s \in Server : server[s].has /\ ~server[s].held /\ ~hb[s].delete
                          /\ write[s].id = None
    BY DEF Init, NoHeartbeat, NoWrite
  <2>2. grant.pc = "none" /\ late = {} /\ acked = {}
    BY DEF Init, NoGrant
  <2> QED
    BY <2>1, <2>2 DEF StayInv
<1>2. TypeInv /\ StayInv => StayersCurrent
  BY DEF TypeInv, Typed, Meta, StayInv, StayersCurrent
<1> QED
  BY <1>1, <1>2, TypeInit, TypeStep, StayStepKeeps, PTL DEF Spec

-----------------------------------------------------------------------------
\* The master has the answer of every grant and ends each one that it began.
Quiet == count.kinds \cap {"timeout", "crash", "giveup"} = {}

\* A round of the grant was made, and its version is not the chunk's yet.
Trying ==
  /\ grant.pc \in {"prepare", "round"} /\ meta.granting
  /\ grant.version = meta.version + 1

\* A version that is the chunk's, or that a round has told to servers.
Known(v) == v <= meta.version \/ (Trying /\ v = meta.version + 1)

\* The lease of s lasts, or does so again with an answer that is under way.
Lasting(s) ==
  /\ server[s].held
  /\ ~server[s].over \/ (hb[s].pc = "answered" /\ hb[s].extend)

\* Clients know s as the primary of the current version, or are about to.
Promised(s) ==
  \/ [primary |-> s, version |-> meta.version] \in told
  \/ /\ grant.pc = "flush" /\ grant.by # None
     /\ grant.primary = s /\ grant.version = meta.version

\* A client may write the current version at s.
Exposed(s) == Promised(s) /\ Lasting(s) /\ server[s].version = meta.version

\* Where the calls are: a grant that a client waits for, or a snapshot.
CallInv ==
  /\ grant.pc # "none" /\ grant.by # None => call[grant.by] = "grant"
  /\ snap.pc # "idle" => \A c \in Call : call[c] = "idle"

\* No version comes from anywhere but a grant that sets its lease.
VersionInv ==
  /\ \A m \in late : m.kind = "revoke"
  /\ grant.pc = "prepare" /\ grant.version # 0 => Trying
  /\ \A s \in Server :
       /\ Known(server[s].version) /\ Known(hb[s].version)
       /\ server[s].young => Trying /\ server[s].version = meta.version + 1

\* Where clients may write the current version: before a snapshot only under
\* the lease, and after its revocation only where the snapshot still waits.
ExposedInv ==
  \A s \in Server :
    /\ snap.pc = "idle" /\ Exposed(s) =>
         meta.lease # NoLease /\ ~meta.lease.over /\ meta.lease.primary = s
    /\ snap.pc # "idle" /\ Promised(s) => meta.lease = NoLease \/ meta.lease.revoked
    /\ snap.pc \in {"revoking", "wait"} /\ Exposed(s) => s \in snap.before
    /\ snap.pc = "revoking" /\ Exposed(s) => s = snap.primary
    /\ snap.pc \in {"acked", "finish", "done"} => ~Exposed(s)

SnapInv == Quiet => VersionInv /\ ExposedInv

\* The path lock keeps FindLeaseHolder and Snapshot apart.
LEMMA CallStepKeeps == TypeInv /\ CallInv /\ [Next]_vars => CallInv'
<1> SUFFICES ASSUME TypeInv, CallInv, [Next]_vars PROVE CallInv'
  OBVIOUS
<1> USE DEF registry, pool, servers, history
<1>0. /\ grant \in Attempt /\ call \in [Call -> {"idle", "want", "grant"}]
      /\ snap \in Snapshot
  BY DEF TypeInv, Typed
<1>a. ASSUME UNCHANGED <<call, snap>>,
             grant' = grant \/ (grant'.pc # "none" => grant.pc # "none" /\ grant'.by = grant.by)
      PROVE  CallInv'
  BY <1>a DEF CallInv
<1>1. ASSUME NEW c \in Call, FindLeaseHolder(c) PROVE CallInv'
  <2>1. snap' = snap /\ snap.pc = "idle" /\ grant' = grant /\ call[c] = "idle"
    BY <1>1 DEF FindLeaseHolder
  <2>2. call' = call \/ call' = [call EXCEPT ![c] = "want"]
    BY <1>1 DEF FindLeaseHolder
  <2>3. \A d \in Call : call[d] = "grant" => call'[d] = "grant"
    BY <1>0, <2>1, <2>2
  <2>4. grant.by # None => grant.by \in Call
    BY <1>0 DEF Attempt
  <2> QED
    BY <2>1, <2>3, <2>4 DEF CallInv
<1>2. ASSUME NEW c \in Call, Grant(c) PROVE CallInv'
  <2>1. /\ call' = [call EXCEPT ![c] = "grant"] /\ snap' = snap
        /\ grant'.by = c /\ call[c] = "want"
    BY <1>2 DEF Grant, NoGrant
  <2> QED
    BY <1>0, <2>1 DEF CallInv
<1>3. CASE Regrant
  <2>1. grant' = grant \/ grant'.by = None
    BY <1>3 DEF Regrant, NoGrant
  <2> QED
    BY <1>3, <2>1 DEF Regrant, CallInv
<1>4. CASE PrepareLocked \/ PrepareFails \/ NextRound \/ GrantFinish
  <2>1. grant'.by = grant.by /\ grant.pc # "none" /\ UNCHANGED <<call, snap>>
    BY <1>0, <1>4 DEF PrepareLocked, PrepareFails, NextRound, GrantFinish, Attempt
  <2> QED
    BY <1>a, <2>1
<1>5. CASE ClearGranting \/ GrantReturn
  <2>1. /\ call' = [c \in Call |-> IF c = grant.by THEN "idle" ELSE call[c]]
        /\ grant' = NoGrant /\ snap' = snap
    BY <1>5 DEF ClearGranting, GrantReturn
  <2>2. grant'.pc = "none"
    BY <2>1 DEF NoGrant
  <2>3. \A c \in Call : call[c] = "idle" => call'[c] = "idle"
    BY <2>1
  <2> QED
    BY <2>1, <2>2, <2>3 DEF CallInv
<1>b. ASSUME NEW m PROVE Renewed(m).pc = snap.pc
  BY <1>0 DEF Renewed, Snapshot
<1>6. ASSUME NEW s \in Server, Answer(s) \/ Timeout(s) PROVE CallInv'
  <2>1. grant'.by = grant.by /\ grant.pc # "none" /\ call' = call
    BY <1>0, <1>6 DEF Answer, Timeout, Attempt
  <2>2. snap'.pc = snap.pc
    BY <1>6, <1>b DEF Answer, Timeout, Unanswered
  <2> QED
    BY <2>1, <2>2 DEF CallInv
<1>7. ASSUME NEW m \in late, LateMessage(m) PROVE CallInv'
  <2>1. snap'.pc = snap.pc /\ UNCHANGED <<grant, call>>
    BY <1>7, <1>b DEF LateMessage
  <2> QED
    BY <2>1 DEF CallInv
<1>8. CASE Revoke \/ RevokeAnswer \/ RevokeAcked \/ RevokeTimeout \/ SnapshotFinish
  <2>1. UNCHANGED <<grant, call>> /\ \A c \in Call : call[c] = "idle"
    BY <1>8 DEF Revoke, RevokeAnswer, RevokeAcked, RevokeTimeout, SnapshotFinish, Expired,
                CallInv
  <2> QED
    BY <2>1 DEF CallInv
<1>9. CASE Flush \/ LeaseOver \/ UNCHANGED vars
  BY <1>9, <1>a DEF Flush, LeaseOver, vars
<1>10. ASSUME NEW s \in Server, ServerStep(s) PROVE CallInv'
  BY <1>10, <1>a DEF ServerStep, SendHeartbeat, HeartBeat, HeartbeatAnswer, Sweep, SweepDead,
     ServerLeaseOver, BeginWrite, ApplyMutation, WriteFails, WriteDone
<1>11. CASE Crash
  <2>1. grant'.pc = "none" /\ \A c \in Call : call'[c] = "idle"
    BY <1>11 DEF Crash, NoGrant
  <2> QED
    BY <2>1 DEF CallInv
<1> QED
  BY <1>1, <1>2, <1>3, <1>4, <1>5, <1>6, <1>7, <1>8, <1>9, <1>10, <1>11
     DEF Next, GrantStep, SnapshotStep

\* Steps that bring no version to a server.
LEMMA VersionFrame ==
  ASSUME VersionInv, meta.version \in Nat, meta'.version = meta.version,
         Trying => Trying',
         grant'.pc = "prepare" /\ grant'.version # 0 => Trying',
         \A m \in late' : m \in late \/ m.kind = "revoke",
         \A s \in Server :
           /\ server'[s].version = server[s].version
           /\ server'[s].young => server[s].young
           /\ hb'[s].version \in {hb[s].version, server[s].version, 0}
  PROVE  VersionInv'
<1>1. \A v : Known(v) => Known(v)'
  BY DEF Known
<1>2. Known(0)
  BY DEF Known
<1>3. \A s \in Server : Known(server[s].version)' /\ Known(hb[s].version)'
  <2> SUFFICES ASSUME NEW s \in Server
               PROVE  Known(server[s].version)' /\ Known(hb[s].version)'
    OBVIOUS
  <2>1. \A v : Known(v) => v <= meta'.version \/ (Trying' /\ v = meta'.version + 1)
    BY DEF Known
  <2>2. Known(server[s].version) /\ Known(hb[s].version)
    BY DEF VersionInv
  <2>3. server'[s].version <= meta'.version \/ (Trying' /\ server'[s].version = meta'.version + 1)
    BY <2>1, <2>2
  <2>4. hb'[s].version <= meta'.version \/ (Trying' /\ hb'[s].version = meta'.version + 1)
    BY <1>2, <2>1, <2>2
  <2> QED
    BY <2>3, <2>4 DEF Known
<1> QED
  BY <1>3 DEF VersionInv

\* What has failed is remembered.
LEMMA QuietBefore == TypeInv /\ [Next]_vars /\ Quiet' => Quiet
<1> SUFFICES ASSUME TypeInv, [Next]_vars PROVE count.kinds \subseteq count'.kinds
  BY DEF Quiet
<1> USE DEF registry, pool, servers, history
<1>0. count \in Counted
  BY DEF TypeInv, Typed
<1>1. ASSUME NEW k, Fails(k) PROVE count.kinds \subseteq count'.kinds
  BY <1>0, <1>1 DEF Fails, Counted
<1>2. CASE PrepareFails
  BY <1>0, <1>2 DEF PrepareFails, Counted
<1>3. ASSUME NEW s \in Server, SendHeartbeat(s) PROVE count.kinds \subseteq count'.kinds
  BY <1>0, <1>3 DEF SendHeartbeat, Counted
<1>4. CASE GrantStep
  BY <1>1, <1>2, <1>4 DEF GrantStep, FindLeaseHolder, Grant, Regrant, PrepareLocked,
     ClearGranting, Answer, Timeout, NextRound, GrantFinish, GrantReturn
<1>5. CASE SnapshotStep
  BY <1>1, <1>5 DEF SnapshotStep, Revoke, RevokeAnswer, RevokeAcked, RevokeTimeout,
     SnapshotFinish
<1>6. ASSUME NEW s \in Server, ServerStep(s) PROVE count.kinds \subseteq count'.kinds
  BY <1>1, <1>3, <1>6 DEF ServerStep, HeartBeat, HeartbeatAnswer, Sweep, SweepDead,
     ServerLeaseOver, BeginWrite, ApplyMutation, WriteFails, WriteDone
<1>7. CASE Crash
  BY <1>1, <1>7 DEF Crash
<1>8. ASSUME NEW m \in late, LateMessage(m) PROVE count.kinds \subseteq count'.kinds
  BY <1>8 DEF LateMessage
<1> QED
  BY <1>4, <1>5, <1>6, <1>7, <1>8 DEF Next, LeaseOver, Flush, vars

\* A version reaches a server from a round, and the chunk from its last one.
LEMMA VersionStepKeeps ==
  TypeInv /\ GrantInv /\ VersionInv /\ Quiet' /\ [Next]_vars => VersionInv'
<1> SUFFICES ASSUME TypeInv, GrantInv, VersionInv, Quiet', [Next]_vars PROVE VersionInv'
  OBVIOUS
<1> USE DEF registry, pool, servers, history
<1>0. /\ meta \in Meta /\ grant \in Attempt /\ server \in [Server -> Replica]
      /\ hb \in [Server -> Beat] /\ meta.version \in Nat /\ grant.version \in Nat
      /\ 0 # meta.version + 1 /\ count \in Counted
      /\ \A s \in Server : server[s].version \in Nat /\ hb[s].version \in Nat
  BY ChunkLeaseAssumption DEF TypeInv, Typed, Version, Meta, Attempt, Replica, Beat
<1>a. ASSUME UNCHANGED <<server, late, hb>>, meta'.version = meta.version,
             Trying => Trying',
             grant'.pc = "prepare" /\ grant'.version # 0 => Trying'
      PROVE  VersionInv'
  <2>1. \A s \in Server : hb'[s].version \in {hb[s].version, server[s].version, 0}
    BY <1>a
  <2> QED
    BY <1>0, <1>a, <2>1, VersionFrame
<1>b. ASSUME UNCHANGED grant, meta'.version = meta.version,
             meta'.granting = meta.granting
      PROVE  /\ Trying => Trying'
             /\ grant'.pc = "prepare" /\ grant'.version # 0 => Trying'
  <2>1. Trying <=> Trying'
    BY <1>b DEF Trying
  <2> QED
    BY <1>b, <2>1 DEF VersionInv
<1>1. ASSUME NEW c \in Call, FindLeaseHolder(c) PROVE VersionInv'
  <2>1. meta'.version = meta.version /\ meta'.granting = meta.granting
    BY <1>0, <1>1 DEF FindLeaseHolder, Meta
  <2> QED
    BY <1>1, <1>a, <1>b, <2>1 DEF FindLeaseHolder
<1>2. ASSUME NEW c \in Call, Grant(c) PROVE VersionInv'
  <2>1. ~Trying /\ grant'.version = 0
    BY <1>2 DEF Grant, BeginHandle, NoGrant, Trying
  <2> QED
    BY <1>2, <1>a, <2>1 DEF Grant
<1>3. CASE Regrant
  <2>1. ~Trying /\ (grant' = grant \/ grant'.version = 0)
    BY <1>3 DEF Regrant, BeginHandle, NoGrant, Trying
  <2>2. ~(grant'.pc = "prepare" /\ grant'.version # 0)
    BY <1>3, <2>1 DEF Regrant, BeginHandle
  <2> QED
    BY <1>3, <1>a, <2>1, <2>2 DEF Regrant
<1>4. CASE PrepareLocked
  <2>1. /\ meta'.version = meta.version /\ meta'.granting /\ grant'.pc = "round"
        /\ grant'.version = meta.version + 1
    BY <1>0, <1>4 DEF PrepareLocked, Meta, Attempt
  <2>2. Trying'
    BY <2>1 DEF Trying
  <2> QED
    BY <1>4, <1>a, <2>1, <2>2 DEF PrepareLocked
<1>5. CASE PrepareFails
  <2>1. grant.version = 0
    <3>1. grant.version # 0 => "giveup" \in count'.kinds
      BY <1>0, <1>5 DEF PrepareFails, Counted
    <3> QED
      BY <3>1 DEF Quiet
  <2>2. ~Trying /\ grant'.pc = "giveup"
    BY <1>0, <1>5, <2>1 DEF PrepareFails, Trying, Attempt
  <2> QED
    BY <1>5, <1>a, <2>2 DEF PrepareFails
<1>6. CASE ClearGranting
  <2>1. ~Trying /\ grant'.pc = "none" /\ meta'.version = meta.version
    BY <1>0, <1>6 DEF ClearGranting, NoGrant, Trying, Meta
  <2> QED
    BY <1>6, <1>a, <2>1 DEF ClearGranting
<1>7. ASSUME NEW s \in Server, Answer(s) PROVE VersionInv'
  <2>1. s \in grant.waiting /\ grant.pc = "round" /\ UNCHANGED <<meta, late, hb>>
    BY <1>7 DEF Answer
  <2>2. Trying /\ Trying'
    <3>1. grant'.pc = grant.pc /\ grant'.version = grant.version
      BY <1>0, <1>7 DEF Answer, Attempt
    <3> QED
      BY <2>1, <3>1 DEF GrantInv, Trying
  <2> DEFINE m == MessageTo(s)
  <2>3. /\ m \in Message /\ m.to = s /\ m.kind # "revoke" /\ m.version \in Version
        /\ m.kind \in {"grant", "update", "revoke"} /\ m.version = grant.version
    <3>1. m \in Message /\ m.to = s /\ m.kind # "revoke" /\ m.version \in Version
      BY <2>1, MessageType
    <3> QED
      BY <3>1 DEF MessageTo, Message
  <2>4. server' = Handled(server, m)
    BY <1>7 DEF Answer
  <2> HIDE DEF m
  <2>5. \A t \in Server : t # s => server'[t] = server[t]
    BY <1>0, <2>3, <2>4, HandledFields
  <2>6. server'[s] = server[s] \/ server'[s].version = grant.version
    <3>1. LET r == server[m.to]
              q == server'[m.to]
          IN  /\ ~r.has => q = r
              /\ m.kind = "update" /\ r.has => q.version = m.version
              /\ m.kind = "grant" /\ r.has => q.version = m.version
      BY <1>0, <2>3, <2>4, HandledFields
    <3> QED
      BY <2>3, <3>1
  <2>7. grant.version = meta.version + 1
    BY <2>2 DEF Trying
  <2>8. \A v : Known(v) => Known(v)'
    BY <2>1, <2>2 DEF Known
  <2>9. Known(meta.version + 1)'
    BY <2>1, <2>2 DEF Known
  <2>10. \A t \in Server : \/ server'[t] = server[t]
                           \/ server'[t].version = meta.version + 1
    BY <2>5, <2>6, <2>7
  <2>11. \A t \in Server : Known(server[t].version)' /\ Known(hb[t].version)'
    <3>1. \A t \in Server : Known(server[t].version) /\ Known(hb[t].version)
      BY DEF VersionInv
    <3>2. \A v : Known(v) => v <= meta'.version \/ (Trying' /\ v = meta'.version + 1)
      BY <2>1, <2>2 DEF Known
    <3>3. meta' = meta /\ hb' = hb
      BY <2>1
    <3> QED
      BY <2>2, <2>10, <3>1, <3>2, <3>3 DEF Known
  <2>12. \A t \in Server : server'[t].young => server'[t].version = meta'.version + 1
    BY <2>1, <2>10 DEF VersionInv
  <2> QED
    BY <2>1, <2>2, <2>11, <2>12 DEF VersionInv
<1>8. ASSUME NEW s \in Server, Timeout(s) PROVE FALSE
  <2>1. "timeout" \in count'.kinds
    BY <1>0, <1>8 DEF Timeout, Fails, Counted
  <2> QED
    BY <2>1 DEF Quiet
<1>c. ASSUME NEW m \in Message, m.kind = "revoke", server' = Handled(server, m)
      PROVE  \A s \in Server : /\ server'[s].version = server[s].version
                               /\ server'[s].young => server[s].young
  <2>1. \A s \in Server : s # m.to => server'[s] = server[s]
    BY <1>0, <1>c, HandledFields
  <2>2. LET r == server[m.to]
            q == server'[m.to]
        IN  q.version = r.version /\ q.young = r.young
    BY <1>0, <1>c, HandledFields
  <2> QED
    BY <2>1, <2>2
<1>d. ASSUME UNCHANGED <<grant, hb>>, meta'.version = meta.version,
             meta'.granting = meta.granting,
             \A m \in late' : m \in late \/ m.kind = "revoke",
             \A s \in Server : /\ server'[s].version = server[s].version
                               /\ server'[s].young => server[s].young
      PROVE  VersionInv'
  <2>1. \A s \in Server : hb'[s].version \in {hb[s].version, server[s].version, 0}
    BY <1>d
  <2> QED
    BY <1>0, <1>b, <1>d, <2>1, VersionFrame
<1>9. ASSUME NEW m \in late, LateMessage(m) PROVE VersionInv'
  <2>1. m \in Message /\ m.kind = "revoke"
    BY DEF TypeInv, Typed, VersionInv
  <2> QED
    BY <1>9, <1>c, <1>d, <2>1 DEF LateMessage
<1>10. CASE NextRound
  <2>1. /\ meta'.version = meta.version /\ meta'.granting = meta.granting
        /\ grant'.pc = "prepare" /\ grant'.version = grant.version
    BY <1>0, <1>10 DEF NextRound, Meta, Attempt
  <2>2. Trying'
    BY <1>10, <2>1 DEF NextRound, GrantInv, Trying
  <2> QED
    BY <1>10, <1>a, <2>1, <2>2 DEF NextRound
<1>11. CASE GrantFinish
  <2>1. grant.version = meta.version + 1
    BY <1>11 DEF GrantFinish, GrantInv
  <2>2. meta'.version = meta.version + 1
    BY <1>0, <1>11, <2>1 DEF GrantFinish, Meta
  <2>3. \A s \in Server : server'[s].version = server[s].version /\ ~server'[s].young
    BY <1>0, <1>11 DEF GrantFinish, AllOld, Replica
  <2>4. grant'.pc = "flush" /\ UNCHANGED <<late, hb>>
    BY <1>0, <1>11 DEF GrantFinish, Attempt
  <2>5. \A v \in Nat : Known(v) => v <= meta'.version
    BY <1>0, <2>2 DEF Known
  <2>6. \A s \in Server : server'[s].version <= meta'.version /\ hb'[s].version <= meta'.version
    BY <1>0, <2>3, <2>4, <2>5 DEF VersionInv
  <2> QED
    BY <2>3, <2>4, <2>6 DEF VersionInv, Known
<1>12. CASE GrantReturn
  <2>1. ~Trying /\ grant'.pc = "none"
    BY <1>12 DEF GrantReturn, NoGrant, Trying
  <2> QED
    BY <1>12, <1>a, <2>1 DEF GrantReturn
<1>13. CASE Flush \/ UNCHANGED vars
  BY <1>13, <1>a, <1>b DEF Flush, vars
<1>14. CASE LeaseOver \/ Revoke \/ RevokeAcked \/ SnapshotFinish
  <2>1. meta'.version = meta.version /\ meta'.granting = meta.granting
    BY <1>0, <1>14 DEF LeaseOver, Revoke, RevokeAcked, SnapshotFinish, Meta
  <2> QED
    BY <1>14, <1>a, <1>b, <2>1 DEF LeaseOver, Revoke, RevokeAcked, SnapshotFinish
<1>15. CASE RevokeAnswer \/ RevokeTimeout
  <2>1. snap.primary \in Server
    BY <1>15 DEF RevokeAnswer, RevokeTimeout, TypeInv, ShapeInv
  <2> DEFINE m == RevokeTo(snap.primary)
  <2>2. m \in Message /\ m.kind = "revoke"
    BY <2>1, MessageType
  <2>3. /\ server' = Handled(server, m) \/ server' = server
        /\ late' \subseteq late \cup {m}
        /\ UNCHANGED <<hb, meta, grant>>
    BY <1>15 DEF RevokeAnswer, RevokeTimeout
  <2> HIDE DEF m
  <2>4. \A s \in Server : /\ server'[s].version = server[s].version
                          /\ server'[s].young => server[s].young
    BY <1>c, <2>2, <2>3
  <2> QED
    BY <1>d, <2>2, <2>3, <2>4
<1>16. ASSUME NEW s \in Server, SendHeartbeat(s) PROVE VersionInv'
  <2>1. UNCHANGED <<meta, grant, server, late>>
    BY <1>16 DEF SendHeartbeat
  <2>2. \A t \in Server : hb'[t].version \in {hb[t].version, server[t].version, 0}
    BY <1>0, <1>16 DEF SendHeartbeat
  <2> QED
    BY <1>0, <1>b, <2>1, <2>2, VersionFrame
<1>17. ASSUME NEW s \in Server, HeartBeat(s) PROVE VersionInv'
  <2>1. UNCHANGED <<grant, late>>
    BY <1>17 DEF HeartBeat
  <2>2. meta'.version = meta.version /\ meta'.granting = meta.granting
    <3>1. Without(s).version = meta.version /\ Without(s).granting = meta.granting
      BY <1>0 DEF Without, Meta
    <3>2. meta.granting \/ ~(hb[s].version > meta.version)
      BY <1>0 DEF VersionInv, Known, Trying
    <3>3. CASE TakeIn(s)
      <4>1. meta' = [meta EXCEPT !.locs = @ \cup {s}, !.version = meta.version]
        BY <3>2, <3>3 DEF TakeIn, Done
      <4> QED
        BY <1>0, <4>1 DEF Meta
    <3> QED
      BY <1>17, <3>1, <3>3 DEF HeartBeat, TellStale, NotReported, Done
  <2>3. \A t \in Server : /\ server'[t].version = server[t].version
                          /\ server'[t].young => server[t].young
    <3>1. server' = server \/ server' = AllOld(server)
      BY <1>17 DEF HeartBeat, TellStale, TakeIn, NotReported, Done
    <3> QED
      BY <1>0, <3>1 DEF AllOld, Replica
  <2>4. \A t \in Server : hb'[t].version \in {hb[t].version, server[t].version, 0}
    <3>1. ASSUME NEW m, NEW d, Done(s, m, d), NEW t \in Server
          PROVE  hb'[t].version = hb[t].version
      <4>1. PICK e : hb' = [hb EXCEPT ![s].pc = "answered", ![s].delete = d, ![s].extend = e]
        BY <3>1 DEF Done
      <4> QED
        BY <1>0, <4>1 DEF Beat
    <3>2. CASE TellStale(s)
      BY <3>1, <3>2 DEF TellStale
    <3>3. CASE TakeIn(s)
      BY <3>1, <3>3 DEF TakeIn
    <3>4. CASE NotReported(s)
      <4>1. CASE hb' = [hb EXCEPT ![s].pc = "answered", ![s].extend = FALSE]
        BY <1>0, <4>1 DEF Beat
      <4> QED
        BY <3>1, <3>4, <4>1 DEF NotReported
    <3> QED
      BY <1>17, <3>2, <3>3, <3>4 DEF HeartBeat
  <2> QED
    BY <1>0, <1>b, <2>1, <2>2, <2>3, <2>4, VersionFrame
<1>18. ASSUME NEW s \in Server, HeartbeatAnswer(s) PROVE VersionInv'
  <2>1. UNCHANGED <<meta, grant, late>>
    BY <1>18 DEF HeartbeatAnswer
  <2>2. \A t \in Server : /\ server'[t].version = server[t].version
                          /\ server'[t].young => server[t].young
    BY <1>0, <1>18 DEF HeartbeatAnswer, Replica
  <2>3. \A t \in Server : hb'[t].version \in {hb[t].version, server[t].version, 0}
    BY <1>0, <1>18 DEF HeartbeatAnswer, NoHeartbeat
  <2> QED
    BY <1>0, <1>b, <2>1, <2>2, <2>3, VersionFrame
<1>19. ASSUME NEW s \in Server, Sweep(s) \/ SweepDead(s) PROVE VersionInv'
  <2>1. meta'.version = meta.version /\ meta'.granting = meta.granting
    BY <1>0, <1>19 DEF Sweep, SweepDead, Without, Meta
  <2> QED
    BY <1>19, <1>a, <1>b, <2>1 DEF Sweep, SweepDead
<1>20. ASSUME NEW s \in Server,
              \/ ServerLeaseOver(s) \/ WriteFails(s) \/ WriteDone(s)
              \/ (\E w \in Write : BeginWrite(s, w)) \/ (\E t \in Server : ApplyMutation(s, t))
       PROVE  VersionInv'
  <2>1. UNCHANGED <<meta, grant, late, hb>>
    BY <1>20 DEF ServerLeaseOver, WriteFails, WriteDone, BeginWrite, ApplyMutation
  <2>2. \A t \in Server : server'[t].version = server[t].version
                          /\ server'[t].young = server[t].young
    <3>1. CASE ServerLeaseOver(s)
      BY <1>0, <3>1 DEF ServerLeaseOver, Replica
    <3>2. ASSUME NEW w \in Write, BeginWrite(s, w)
          PROVE  \A t \in Server : server'[t].version = server[t].version
                                   /\ server'[t].young = server[t].young
      BY <1>0, <3>2 DEF BeginWrite, Replica
    <3>3. ASSUME NEW u \in Server, ApplyMutation(s, u)
          PROVE  \A t \in Server : server'[t].version = server[t].version
                                   /\ server'[t].young = server[t].young
      BY <1>0, <3>3 DEF ApplyMutation, Replica
    <3> QED
      BY <1>20, <3>1, <3>2, <3>3 DEF WriteFails, WriteDone
  <2> QED
    BY <1>d, <2>1, <2>2
<1>21. CASE Crash
  <2>1. "crash" \in count'.kinds
    BY <1>0, <1>21 DEF Crash, Fails, Counted
  <2> QED
    BY <2>1 DEF Quiet
<1> QED
  BY <1>1, <1>2, <1>3, <1>4, <1>5, <1>6, <1>7, <1>8, <1>9, <1>10, <1>11, <1>12, <1>13,
     <1>14, <1>15, <1>16, <1>17, <1>18, <1>19, <1>20, <1>21
     DEF Next, GrantStep, SnapshotStep, ServerStep

\* Steps of a server or of a grant that expose the chunk at no other server.
LEMMA ExposedFrame ==
  ASSUME ExposedInv, meta'.lease = meta.lease, snap'.pc = snap.pc,
         snap'.primary = snap.primary,
         \A s \in Server :
           /\ Promised(s)' => Promised(s)
           /\ Exposed(s)' => Exposed(s) /\ (s \in snap.before => s \in snap'.before)
  PROVE  ExposedInv'
BY DEF ExposedInv

\* A heartbeat extends no lease but the master's, and not one that is revoked;
\* the master's is not over before the server's, unless a round is under way.
LEMMA ExposedStepKeeps ==
  TypeInv /\ GrantInv /\ CallInv /\ VersionInv /\ ExposedInv /\ Quiet' /\ [Next]_vars
    => ExposedInv'
<1> SUFFICES ASSUME TypeInv, GrantInv, CallInv, VersionInv, ExposedInv, Quiet', [Next]_vars
             PROVE  ExposedInv'
  OBVIOUS
<1> USE DEF registry, pool, servers, history
<1>0. /\ meta \in Meta /\ grant \in Attempt /\ server \in [Server -> Replica]
      /\ hb \in [Server -> Beat] /\ meta.version \in Nat /\ grant.version \in Nat
      /\ count \in Counted /\ snap \in Snapshot /\ meta.lease \in Lease
      /\ meta.version # meta.version + 1
      /\ \A s \in Server : server[s] \in Replica /\ server[s].version \in Nat
  BY ChunkLeaseAssumption DEF TypeInv, Typed, Version, Meta, Attempt, Replica
\* What servers hold, and what is promised, in steps that leave them alone.
<1>a. ASSUME meta'.version = meta.version, UNCHANGED told,
             grant' = grant \/ grant'.pc # "flush"
      PROVE  \A s \in Server : Promised(s)' => Promised(s)
  BY <1>a DEF Promised
<1>b. ASSUME meta'.version = meta.version,
             \A s \in Server : Promised(s)' => Promised(s),
             \A s \in Server :
               \/ ~server'[s].held \/ server'[s].version # meta.version
               \/ /\ server'[s].version = server[s].version
                  /\ Lasting(s)' => Lasting(s)
      PROVE  \A s \in Server : Exposed(s)' => Exposed(s)
  BY <1>b DEF Exposed, Lasting
<1>c. ASSUME UNCHANGED <<server, hb, snap>>, meta'.version = meta.version,
             meta'.lease = meta.lease,
             \A s \in Server : Promised(s)' => Promised(s)
      PROVE  ExposedInv'
  <2>1. \A s \in Server : Exposed(s)' => Exposed(s)
    BY <1>c DEF Exposed, Lasting
  <2> QED
    BY <1>c, <2>1, ExposedFrame
<1>1. ASSUME NEW c \in Call, FindLeaseHolder(c) PROVE ExposedInv'
  <2>0. snap.pc = "idle" /\ UNCHANGED <<server, hb, snap, grant>>
    BY <1>1 DEF FindLeaseHolder
  <2>1. CASE IsValid(meta) /\ told' = told \cup {[primary |-> meta.lease.primary,
                                                  version |-> meta.version]}
             /\ UNCHANGED <<meta, call>>
    <3>1. \A s \in Server : Promised(s)' => Promised(s) \/ s = meta.lease.primary
      BY <2>0, <2>1 DEF Promised
    <3>2. \A s \in Server : Exposed(s)' => Exposed(s) \/ s = meta.lease.primary
      BY <2>0, <2>1, <3>1 DEF Exposed, Lasting
    <3> QED
      BY <2>0, <2>1, <3>2 DEF ExposedInv, IsValid
  <2>2. CASE ~IsValid(meta) /\ ~IsPendingExpiry(meta)
             /\ meta' = [meta EXCEPT !.lease = NoLease] /\ UNCHANGED told
    <3>1. meta.lease = NoLease \/ meta.lease.over
      BY <2>2 DEF IsValid, IsPendingExpiry
    <3>2. \A s \in Server : ~Exposed(s)
      BY <2>0, <3>1 DEF ExposedInv
    <3>3. meta'.version = meta.version
      BY <1>0, <2>2 DEF Meta
    <3>4. \A s \in Server : ~Exposed(s)'
      BY <2>0, <2>2, <3>2, <3>3 DEF Exposed, Promised, Lasting
    <3> QED
      BY <2>0, <3>4 DEF ExposedInv
  <2> QED
    BY <1>1, <2>1, <2>2 DEF FindLeaseHolder
<1>2. ASSUME NEW c \in Call, Grant(c) PROVE ExposedInv'
  <2>1. grant'.pc = "prepare"
    BY <1>2 DEF Grant, NoGrant
  <2> QED
    BY <1>2, <1>a, <1>c, <2>1 DEF Grant
<1>3. CASE Regrant
  <2>1. grant' = grant \/ grant'.pc = "prepare"
    BY <1>3 DEF Regrant, NoGrant
  <2> QED
    BY <1>3, <1>a, <1>c, <2>1 DEF Regrant
<1>4. CASE PrepareLocked \/ PrepareFails \/ ClearGranting \/ NextRound
  <2>1. grant'.pc # "flush"
    <3>1. CASE PrepareLocked
      BY <1>0, <3>1 DEF PrepareLocked, Attempt
    <3>2. CASE PrepareFails \/ NextRound
      BY <1>0, <3>2 DEF PrepareFails, NextRound, Attempt
    <3> QED
      BY <1>4, <3>1, <3>2 DEF ClearGranting, NoGrant
  <2>2. meta'.version = meta.version /\ meta'.lease = meta.lease
    BY <1>0, <1>4 DEF PrepareLocked, PrepareFails, ClearGranting, NextRound, Meta
  <2>3. UNCHANGED <<server, hb, snap, told>>
    BY <1>4 DEF PrepareLocked, PrepareFails, ClearGranting, NextRound
  <2> QED
    BY <1>a, <1>c, <2>1, <2>2, <2>3
<1>5. ASSUME NEW s \in Server, Answer(s) PROVE ExposedInv'
  <2>1. /\ s \in grant.waiting /\ grant.pc = "round" /\ UNCHANGED <<meta, hb, told>>
        /\ grant'.pc = "round"
    BY <1>0, <1>5 DEF Answer, Attempt
  <2> DEFINE m == MessageTo(s)
  <2>2. /\ m \in Message /\ m.to = s /\ m.kind # "revoke" /\ m.version \in Version
        /\ m.kind \in {"grant", "update", "revoke"} /\ m.version = meta.version + 1
    <3>1. m \in Message /\ m.to = s /\ m.kind # "revoke" /\ m.version \in Version
      BY <2>1, MessageType
    <3>2. m.version = grant.version
      BY DEF MessageTo
    <3> QED
      BY <2>1, <3>1, <3>2 DEF Message, GrantInv
  <2>3. server' = Handled(server, m) /\ snap' = Renewed(m)
    BY <1>5 DEF Answer
  <2> HIDE DEF m
  <2>4. \A t \in Server : t # s => server'[t] = server[t]
    BY <1>0, <2>2, <2>3, HandledFields
  <2>5. server'[s] = server[s] \/ server'[s].version # meta.version
    <3>1. LET r == server[m.to]
              q == server'[m.to]
          IN  /\ ~r.has => q = r
              /\ m.kind = "update" /\ r.has => q.version = m.version
              /\ m.kind = "grant" /\ r.has => q.version = m.version
      BY <1>0, <2>2, <2>3, HandledFields
    <3> QED
      BY <1>0, <2>2, <3>1
  <2>6. \A t \in Server : Promised(t)' => Promised(t)
    BY <1>a, <2>1
  <2>7. \A t \in Server : Exposed(t)' => Exposed(t)
    BY <2>1, <2>4, <2>5, <2>6 DEF Exposed, Lasting
  <2>8. /\ snap'.pc = snap.pc /\ snap'.primary = snap.primary
        /\ \A t \in Server : t \in snap.before /\ t \notin snap'.before =>
             t = s /\ m.kind = "grant" /\ server[s].has
    BY <1>0, <2>2, <2>3 DEF Renewed, Snapshot
  <2>9. m.kind = "grant" /\ server[s].has => server'[s].version # meta.version
    <3>1. LET r == server[m.to]
              q == server'[m.to]
          IN  m.kind = "grant" /\ r.has => q.version = m.version
      BY <1>0, <2>2, <2>3, HandledFields
    <3> QED
      BY <1>0, <2>2, <3>1
  <2>10. \A t \in Server : Exposed(t)' /\ t \in snap.before => t \in snap'.before
    BY <2>1, <2>8, <2>9 DEF Exposed
  <2> QED
    BY <2>1, <2>6, <2>7, <2>8, <2>10, ExposedFrame
<1>6. ASSUME NEW s \in Server, Timeout(s) PROVE FALSE
  <2>1. "timeout" \in count'.kinds
    BY <1>0, <1>6 DEF Timeout, Fails, Counted
  <2> QED
    BY <2>1 DEF Quiet
\* A revoke takes a lease away.
<1>d. ASSUME NEW m \in Message, m.kind = "revoke", server' = Handled(server, m), hb' = hb
      PROVE  /\ \A s \in Server : server'[s].version = server[s].version
                                  /\ (Lasting(s)' => Lasting(s))
             /\ ~Lasting(m.to)'
  <2>1. \A s \in Server : s # m.to => server'[s] = server[s]
    BY <1>0, <1>d, HandledFields
  <2>2. LET r == server[m.to]
            q == server'[m.to]
        IN  q.version = r.version /\ ~q.held
    BY <1>0, <1>d, HandledFields
  <2> QED
    BY <1>d, <2>1, <2>2 DEF Lasting
<1>7. ASSUME NEW m \in late, LateMessage(m) PROVE ExposedInv'
  <2>1. m \in Message /\ m.kind = "revoke"
    BY DEF TypeInv, Typed, VersionInv
  <2>2. UNCHANGED <<meta, hb, told, grant, snap>> /\ server' = Handled(server, m)
    BY <1>7, <2>1 DEF LateMessage, Renewed
  <2>3. \A s \in Server : Promised(s)' => Promised(s)
    BY <1>a, <2>2
  <2>4. \A s \in Server : Exposed(s)' => Exposed(s)
    BY <1>d, <2>1, <2>2, <2>3 DEF Exposed
  <2> QED
    BY <2>2, <2>3, <2>4, ExposedFrame
<1>8. CASE GrantFinish
  <2>1. grant.version = meta.version + 1
    BY <1>8 DEF GrantFinish, GrantInv
  <2>2. /\ meta'.version = meta.version + 1
        /\ meta'.lease = [primary |-> grant.primary, revoked |-> FALSE, over |-> FALSE]
    BY <1>0, <1>8, <2>1 DEF GrantFinish, Meta
  <2>3. grant.primary \in Server /\ None \notin Server
    BY <1>8, ChunkLeaseAssumption DEF GrantFinish, TypeInv, ShapeInv
  <2>4. meta'.lease # NoLease /\ ~meta'.lease.over /\ meta'.lease.primary = grant.primary
    BY <2>2, <2>3 DEF NoLease
  <2>5. "crash" \notin count.kinds
    BY QuietBefore DEF Quiet
  <2>6. \A t \in told : t.version # meta.version + 1
    <3>1. \A t \in told : t.version \in Nat /\ t.version <= meta.version
      BY <1>0, <2>5 DEF GrantInv, TypeInv, Typed, Version
    <3> QED
      BY <1>0, <3>1
  <2>7. UNCHANGED <<told, snap>> /\ grant'.by = grant.by /\ grant'.primary = grant.primary
    BY <1>0, <1>8 DEF GrantFinish, Attempt
  <2>8. \A s \in Server : Promised(s)' => s = grant.primary /\ grant.by # None
    BY <2>2, <2>6, <2>7 DEF Promised
  <2>9. grant.by # None => snap.pc = "idle"
    <3>1. grant.by # None => grant.by \in Call /\ call[grant.by] = "grant"
      BY <1>0, <1>8 DEF CallInv, GrantFinish, Attempt
    <3> QED
      BY <3>1 DEF CallInv
  <2> QED
    BY <2>4, <2>7, <2>8, <2>9 DEF ExposedInv, Exposed
<1>9. CASE GrantReturn
  <2>1. /\ UNCHANGED <<meta, server, hb, snap>> /\ grant.pc = "flush" /\ grant'.pc = "none"
        /\ \A t \in told' : \/ t \in told
                            \/ /\ grant.by # None
                               /\ t = [primary |-> grant.primary, version |-> grant.version]
    BY <1>9 DEF GrantReturn, NoGrant
  <2>2. \A s \in Server : Promised(s)' => Promised(s)
    BY <2>1 DEF Promised
  <2> QED
    BY <1>c, <2>1, <2>2
<1>10. CASE Flush \/ UNCHANGED vars
  BY <1>10, <1>a, <1>c DEF Flush, vars
<1>11. CASE LeaseOver
  <2>1. /\ UNCHANGED <<server, hb, snap, grant, told>> /\ meta.lease # NoLease
        /\ meta'.version = meta.version /\ meta'.lease.revoked = meta.lease.revoked
        /\ meta' = [meta EXCEPT !.lease.over = TRUE]
    BY <1>0, <1>11 DEF LeaseOver, Meta, Lease
  <2>2. \A s \in Server : Promised(s)' => Promised(s)
    BY <1>a, <2>1
  <2>3. \A s \in Server : Exposed(s)' => Exposed(s)
    BY <2>1, <2>2 DEF Exposed, Lasting
  <2>4. ASSUME NEW s \in Server PROVE ~Exposed(s)
    <3>1. CASE server[s].young
      BY <1>0, <3>1 DEF VersionInv, Exposed
    <3>2. CASE Ended(s)
      BY <3>2 DEF Ended, Check, Exposed, Lasting
    <3> QED
      BY <1>11, <3>1, <3>2 DEF LeaseOver
  <2>5. \A s \in Server : Promised(s) /\ snap.pc # "idle" => meta.lease.revoked
    BY <2>1 DEF ExposedInv
  <2> QED
    BY <2>1, <2>2, <2>3, <2>4, <2>5 DEF ExposedInv
<1>12. CASE Revoke
  <2>0. UNCHANGED <<server, hb, grant, told>> /\ snap.pc = "idle"
    BY <1>12 DEF Revoke
  <2>1. CASE /\ meta.lease = NoLease \/ meta.lease.over
             /\ meta' = [meta EXCEPT !.lease = NoLease]
             /\ snap' = [snap EXCEPT !.pc = "finish"]
    <3>1. meta'.version = meta.version /\ meta'.lease = NoLease /\ snap'.pc = "finish"
      BY <1>0, <2>1 DEF Meta, Snapshot
    <3>2. \A s \in Server : ~Exposed(s)
      BY <2>0, <2>1 DEF ExposedInv
    <3>3. \A s \in Server : ~Exposed(s)'
      BY <2>0, <3>1, <3>2 DEF Exposed, Promised, Lasting
    <3> QED
      BY <3>1, <3>3 DEF ExposedInv
  <2>2. CASE /\ ~(meta.lease = NoLease \/ meta.lease.over)
             /\ meta' = [meta EXCEPT !.lease.revoked = TRUE]
             /\ snap' = [pc |-> "revoking", primary |-> meta.lease.primary,
                         before |-> {s \in Server : ~Ended(s)}]
    <3>1. meta'.version = meta.version /\ meta'.lease.revoked
      BY <1>0, <2>2 DEF Meta, Lease
    <3>2. \A s \in Server : Exposed(s) => s = meta.lease.primary /\ s \in snap'.before
      BY <2>0, <2>2 DEF ExposedInv, Exposed, Lasting, Ended, Check
    <3>3. \A s \in Server : Exposed(s)' => Exposed(s)
      BY <2>0, <3>1 DEF Exposed, Promised, Lasting
    <3> QED
      BY <2>2, <3>1, <3>2, <3>3 DEF ExposedInv
  <2> QED
    BY <1>12, <2>1, <2>2 DEF Revoke
<1>13. CASE RevokeAnswer
  <2>1. snap.primary \in Server /\ snap.pc = "revoking"
    BY <1>13 DEF RevokeAnswer, TypeInv, ShapeInv
  <2> DEFINE m == RevokeTo(snap.primary)
  <2>2. m \in Message /\ m.kind = "revoke" /\ m.to = snap.primary
    BY <2>1, MessageType
  <2>3. /\ server' = Handled(server, m) /\ UNCHANGED <<hb, meta, grant, told>>
        /\ snap'.pc = "acked"
    BY <1>0, <1>13 DEF RevokeAnswer, Snapshot
  <2> HIDE DEF m
  <2>4. \A s \in Server : Promised(s)' => Promised(s)
    BY <1>a, <2>3
  <2>5. \A s \in Server : Exposed(s)' => Exposed(s) /\ s # snap.primary
    BY <1>d, <2>2, <2>3, <2>4 DEF Exposed
  <2>6. \A s \in Server : ~Exposed(s)'
    BY <2>1, <2>5 DEF ExposedInv
  <2> QED
    BY <2>1, <2>3, <2>4, <2>6 DEF ExposedInv
<1>14. CASE RevokeAcked
  <2>1. /\ UNCHANGED <<server, hb, grant, told>> /\ snap.pc = "acked"
        /\ meta'.version = meta.version /\ snap'.pc \in {"finish", "wait"}
        /\ meta'.lease = meta.lease \/ meta'.lease = NoLease
    BY <1>0, <1>14 DEF RevokeAcked, Meta, Snapshot
  <2>2. \A s \in Server : Promised(s)' => Promised(s)
    BY <1>a, <2>1
  <2>3. \A s \in Server : ~Exposed(s)'
    BY <2>1, <2>2 DEF ExposedInv, Exposed, Lasting
  <2> QED
    BY <2>1, <2>2, <2>3 DEF ExposedInv
<1>15. CASE RevokeTimeout
  <2>1. snap.primary \in Server /\ snap.pc = "revoking"
    BY <1>15 DEF RevokeTimeout, TypeInv, ShapeInv
  <2> DEFINE m == RevokeTo(snap.primary)
  <2>2. m \in Message /\ m.kind = "revoke"
    BY <2>1, MessageType
  <2>3. /\ server' = Handled(server, m) \/ server' = server
        /\ UNCHANGED <<hb, meta, grant, told>>
        /\ snap'.pc = "wait" /\ snap'.before = snap.before
    BY <1>0, <1>15 DEF RevokeTimeout, Snapshot
  <2> HIDE DEF m
  <2>4. \A s \in Server : Promised(s)' => Promised(s)
    BY <1>a, <2>3
  <2>5. \A s \in Server : Exposed(s)' => Exposed(s)
    BY <1>d, <2>2, <2>3, <2>4 DEF Exposed, Lasting
  <2> QED
    BY <2>1, <2>3, <2>4, <2>5 DEF ExposedInv
<1>16. CASE SnapshotFinish
  <2>1. /\ UNCHANGED <<server, hb, grant, told>> /\ snap'.pc = "done"
        /\ meta'.version = meta.version
        /\ (meta' = meta /\ IsValid(meta)) \/ meta'.lease = NoLease
    BY <1>0, <1>16 DEF SnapshotFinish, Meta, NoSnap
  <2>2. \A s \in Server : ~Exposed(s)
    <3>1. CASE snap.pc = "finish"
      BY <3>1 DEF ExposedInv
    <3>2. CASE Expired
      BY <3>2 DEF Expired, ExposedInv, Exposed, Lasting, Ended, Check
    <3> QED
      BY <1>16, <3>1, <3>2 DEF SnapshotFinish
  <2>3. \A s \in Server : Promised(s)' => Promised(s)
    BY <1>a, <2>1
  <2>4. \A s \in Server : ~Exposed(s)'
    BY <2>1, <2>2, <2>3 DEF Exposed, Lasting
  <2>5. snap.pc # "idle"
    BY <1>16 DEF SnapshotFinish, Expired
  <2>6. \A s \in Server : Promised(s) => ~IsValid(meta)
    BY <2>5 DEF ExposedInv, IsValid
  <2> QED
    BY <2>1, <2>3, <2>4, <2>6 DEF ExposedInv
<1>17. ASSUME NEW s \in Server, HeartBeat(s) PROVE ExposedInv'
  <2>1. UNCHANGED <<grant, snap, told>>
    BY <1>17 DEF HeartBeat
  <2>2. meta'.version = meta.version /\ meta'.lease = meta.lease
    <3>1. Without(s).version = meta.version /\ Without(s).lease = meta.lease
      BY <1>0 DEF Without, Meta
    <3>2. meta.granting \/ ~(hb[s].version > meta.version)
      <4>1. hb[s].version \in Nat
        BY <1>0, ChunkLeaseAssumption DEF Beat
      <4> QED
        BY <1>0, <4>1 DEF VersionInv, Known, Trying
    <3>3. CASE TakeIn(s)
      <4>1. meta' = [meta EXCEPT !.locs = @ \cup {s}, !.version = meta.version]
        BY <3>2, <3>3 DEF TakeIn, Done
      <4> QED
        BY <1>0, <4>1 DEF Meta
    <3> QED
      BY <1>17, <3>1, <3>3 DEF HeartBeat, TellStale, NotReported, Done
  <2>3. \A t \in Server : /\ server'[t].version = server[t].version
                          /\ server'[t].held = server[t].held
                          /\ server'[t].over = server[t].over
    <3>1. server' = server \/ server' = AllOld(server)
      BY <1>17 DEF HeartBeat, TellStale, TakeIn, NotReported, Done
    <3> QED
      BY <1>0, <3>1 DEF AllOld, Replica
  <2>4. /\ \A t \in Server : t # s => hb'[t] = hb[t]
        /\ hb'[s].extend => IsValid(meta') /\ meta'.lease.primary = s
    <3>1. ASSUME NEW m, NEW d, Done(s, m, d)
          PROVE  /\ \A t \in Server : t # s => hb'[t] = hb[t]
                 /\ hb'[s].extend => IsValid(meta') /\ meta'.lease.primary = s
      <4>1. hb[s] \in Beat
        BY <1>0
      <4> QED
        BY <1>0, <3>1, <4>1 DEF Done, Beat
    <3>2. CASE hb' = [hb EXCEPT ![s].pc = "answered", ![s].extend = FALSE]
      BY <1>0, <3>2 DEF Beat
    <3> QED
      BY <1>17, <3>1, <3>2 DEF HeartBeat, TellStale, TakeIn, NotReported
  <2>5. \A t \in Server : Promised(t)' => Promised(t)
    BY <1>a, <2>1, <2>2
  <2>6. \A t \in Server : Lasting(t)' =>
          Lasting(t) \/ (t = s /\ IsValid(meta') /\ meta'.lease.primary = s)
    BY <2>3, <2>4 DEF Lasting
  <2>7. \A t \in Server : Exposed(t)' =>
          \/ Exposed(t)
          \/ Promised(t) /\ t = s /\ IsValid(meta') /\ meta'.lease.primary = s
    BY <2>2, <2>3, <2>5, <2>6 DEF Exposed
  <2>8. IsValid(meta') => meta.lease # NoLease /\ ~meta.lease.over /\ ~meta.lease.revoked
    BY <2>2 DEF IsValid
  <2> QED
    BY <2>1, <2>2, <2>5, <2>7, <2>8 DEF ExposedInv
<1>18. ASSUME NEW s \in Server, HeartbeatAnswer(s) PROVE ExposedInv'
  <2>1. UNCHANGED <<grant, snap, told, meta>>
    BY <1>18 DEF HeartbeatAnswer
  <2>2. \A t \in Server : t # s => server'[t] = server[t] /\ hb'[t] = hb[t]
    BY <1>0, <1>18 DEF HeartbeatAnswer
  <2>3. server'[s].version = server[s].version /\ (Lasting(s)' => Lasting(s))
    <3>1. hb'[s].pc = "none" /\ hb[s].pc = "answered"
      BY <1>0, <1>18 DEF HeartbeatAnswer, NoHeartbeat
    <3>2. /\ server'[s].version = server[s].version
          /\ server'[s].held => server[s].held
          /\ server'[s].held /\ ~server'[s].over => ~server[s].over \/ hb[s].extend
      BY <1>0, <1>18 DEF HeartbeatAnswer, Replica
    <3> QED
      BY <3>1, <3>2 DEF Lasting
  <2>4. \A t \in Server : Promised(t)' => Promised(t)
    BY <1>a, <2>1
  <2>5. \A t \in Server : Exposed(t)' => Exposed(t)
    BY <2>1, <2>2, <2>3, <2>4 DEF Exposed, Lasting
  <2> QED
    BY <2>1, <2>4, <2>5, ExposedFrame
<1>19. ASSUME NEW s \in Server,
              \/ SendHeartbeat(s) \/ Sweep(s) \/ SweepDead(s)
              \/ ServerLeaseOver(s) \/ WriteFails(s) \/ WriteDone(s)
              \/ (\E w \in Write : BeginWrite(s, w)) \/ (\E t \in Server : ApplyMutation(s, t))
       PROVE  ExposedInv'
  <2>1. UNCHANGED <<grant, snap, told>>
    BY <1>19 DEF SendHeartbeat, Sweep, SweepDead, ServerLeaseOver, WriteFails, WriteDone,
                 BeginWrite, ApplyMutation
  <2>2. meta'.version = meta.version /\ meta'.lease = meta.lease
    <3>1. Without(s).version = meta.version /\ Without(s).lease = meta.lease
      BY <1>0 DEF Without, Meta
    <3> QED
      BY <1>19, <3>1 DEF SendHeartbeat, Sweep, SweepDead, ServerLeaseOver, WriteFails,
                 WriteDone, BeginWrite, ApplyMutation
  <2>3. \A t \in Server : server'[t].version = server[t].version
                          /\ server'[t].held = server[t].held
                          /\ (~server'[t].over => ~server[t].over)
    <3>1. CASE ServerLeaseOver(s)
      BY <1>0, <3>1 DEF ServerLeaseOver, Replica
    <3>2. ASSUME NEW w \in Write, BeginWrite(s, w)
          PROVE  \A t \in Server : server'[t].version = server[t].version
                                   /\ server'[t].held = server[t].held
                                   /\ server'[t].over = server[t].over
      BY <1>0, <3>2 DEF BeginWrite, Replica
    <3>3. ASSUME NEW u \in Server, ApplyMutation(s, u)
          PROVE  \A t \in Server : server'[t].version = server[t].version
                                   /\ server'[t].held = server[t].held
                                   /\ server'[t].over = server[t].over
      BY <1>0, <3>3 DEF ApplyMutation, Replica
    <3> QED
      BY <1>19, <3>1, <3>2, <3>3 DEF SendHeartbeat, Sweep, SweepDead, WriteFails, WriteDone
  <2>4. \A t \in Server : hb'[t] = hb[t] \/ hb'[t].pc = "sent"
    <3>1. CASE SendHeartbeat(s)
      BY <1>0, <3>1 DEF SendHeartbeat
    <3>2. CASE ~SendHeartbeat(s)
      BY <1>19, <3>2 DEF Sweep, SweepDead, ServerLeaseOver, WriteFails, WriteDone,
                         BeginWrite, ApplyMutation
    <3> QED
      BY <3>1, <3>2
  <2>5. \A t \in Server : Promised(t)' => Promised(t)
    BY <1>a, <2>1, <2>2
  <2>6. \A t \in Server : Exposed(t)' => Exposed(t)
    BY <2>2, <2>3, <2>4, <2>5 DEF Exposed, Lasting
  <2> QED
    BY <2>1, <2>2, <2>5, <2>6, ExposedFrame
<1>20. CASE Crash
  <2>1. "crash" \in count'.kinds
    BY <1>0, <1>20 DEF Crash, Fails, Counted
  <2> QED
    BY <2>1 DEF Quiet
<1> QED
  BY <1>1, <1>2, <1>3, <1>4, <1>5, <1>6, <1>7, <1>8, <1>9, <1>10, <1>11, <1>12, <1>13,
     <1>14, <1>15, <1>16, <1>17, <1>18, <1>19, <1>20
     DEF Next, GrantStep, SnapshotStep, ServerStep

\* As long as the master lives, has the answer of every grant and gives up none
\* after a round, the chunk that a snapshot shares can be written nowhere at
\* the version that readers of the copy are served.
THEOREM IsolatedSnapshot == Spec => []SnapshotIsolated
<1>1. Init => GrantInv /\ CallInv /\ SnapInv
  <2> SUFFICES ASSUME Init PROVE GrantInv /\ CallInv /\ VersionInv /\ ExposedInv
    BY DEF SnapInv
  <2>1. /\ grant.pc = "none" /\ snap.pc = "idle" /\ late = {} /\ told = {}
        /\ meta.version = 1
        /\ \A s \in Server : /\ server[s].version = 1 /\ ~server[s].young
                             /\ hb[s].version = 0
    BY DEF Init, NoGrant, NoSnap, NoHeartbeat
  <2>2. Known(0) /\ Known(1)
    BY <2>1 DEF Known
  <2> QED
    BY <2>1, <2>2 DEF GrantInv, CallInv, VersionInv, ExposedInv, Exposed, Promised
<1>2. TypeInv /\ GrantInv /\ CallInv /\ SnapInv /\ [Next]_vars => SnapInv'
  BY QuietBefore, VersionStepKeeps, ExposedStepKeeps DEF SnapInv
<1>3. TypeInv /\ GrantInv /\ SnapInv => SnapshotIsolated
  <2> SUFFICES ASSUME TypeInv, GrantInv, SnapInv, Quiet, snap.pc = "done",
                      NEW s \in Server, Writable(s)
               PROVE  server[s].version < meta.version
    BY DEF SnapshotIsolated, SharedNotWritable, Quiet
  <2>1. server[s].version \in Nat /\ meta.version \in Nat
    BY ChunkLeaseAssumption DEF TypeInv, Typed, Meta, Replica, Version
  <2>2. [primary |-> s, version |-> server[s].version] \in told
    BY DEF Writable
  <2>3. server[s].version <= meta.version
    BY <2>2 DEF GrantInv, Quiet
  <2>4. server[s].version # meta.version
    BY <2>2 DEF SnapInv, ExposedInv, Exposed, Promised, Lasting, Writable, Check
  <2> QED
    BY <2>1, <2>3, <2>4
<1> QED
  BY <1>1, <1>2, <1>3, TypeInit, TypeStep, GrantStepKeeps, CallStepKeeps, PTL DEF Spec

====
