----------------------------- MODULE ChunkLease -----------------------------
(***************************************************************************)
(* The lease and the version of one chunk: grants and regrants, revocation *)
(* by a snapshot, heartbeats, the death of servers and of the master, and  *)
(* the writes that clients send to the primary                             *)
(* (src/src/master/lease_manager.cc, master.cc, chunkserver_registry.cc,   *)
(* src/src/chunkserver/chunkserver.cc, lease_table.cc).                    *)
(*                                                                         *)
(* One critical section of the master's state mutex, and one handler of a  *)
(* chunkserver, is one action.  Time has no value.  A lease ends with a    *)
(* step of its own, and the steps of the master that wait for the end of a *)
(* lease come after the steps that the margins put before it: see Ended.   *)
(***************************************************************************)
EXTENDS Naturals, FiniteSets

CONSTANTS
  Server,         \* the chunkservers, which all have the chunk at first
  None,           \* no server
  Call,           \* calls of FindLeaseHolder
  Write,          \* writes that clients send
  MinReplicas,    \* min_replicas_for_write
  Late,           \* whether a call that timed out may be executed later
  MaxVersion,     \* a bound: versions,
  Failure,        \* what may fail: see FailureKind
  MaxEvents       \* failures and heartbeats together

\* An answer to a grant or to a revoke that does not come, a server declared
\* dead, a crash of the master.
FailureKind == {"timeout", "refusal", "sweep", "crash"}

ASSUME ChunkLeaseAssumption ==
  /\ IsFiniteSet(Server) /\ None \notin Server
  /\ MinReplicas \in Nat \ {0} /\ Late \in BOOLEAN
  /\ Failure \subseteq FailureKind
  /\ MaxVersion \in Nat \ {0} /\ MaxEvents \in Nat

VARIABLES
  meta,      \* ChunkMeta: version, granting, locations, lease
  alive,     \* servers the registry takes for alive
  dying,     \* servers declared dead whose locations SweepDead has yet to remove
  logged,    \* the version in the log on disk
  call,      \* FindLeaseHolder: "idle", "want" (about to grant), "grant"
  grant,     \* the grant that holds the chunk (BeginHandle), and its round
  regrant,   \* regrant_pending_
  snap,      \* a Snapshot of the file
  server,    \* the chunkservers
  late,      \* messages that the master no longer waits for
  hb,        \* the heartbeat of each server that is under way
  write,     \* the mutation that each server is the primary of
  told,      \* the primaries and versions that clients were told
  acked,     \* the writes that were acknowledged
  left,      \* servers that were once dropped or left out of a round
  count      \* how much of what is bounded has happened

registry == <<alive, dying>>
pool == <<call, grant, regrant, snap>>
servers == <<server, late, hb, write>>
history == <<told, acked, left>>
vars == <<meta, registry, logged, pool, servers, history, count>>

Version == 1..MaxVersion
NoLease == [primary |-> None, revoked |-> FALSE, over |-> FALSE]
NoGrant == [pc |-> "none", by |-> None, version |-> 0, primary |-> None,
            group |-> {}, waiting |-> {}, failed |-> {}]
NoSnap == [pc |-> "idle", primary |-> None, before |-> {}]
NoHeartbeat == [pc |-> "none", has |-> FALSE, version |-> 0, extend |-> FALSE,
                delete |-> FALSE]
NoWrite == [id |-> None, version |-> 0, todo |-> {}]
Message == [kind : {"grant", "update", "revoke"}, to : Server,
            version : 0..MaxVersion, secondaries : SUBSET Server]

TypeOK ==
  /\ meta \in [version : Version, granting : BOOLEAN, locs : SUBSET Server,
               lease : [primary : Server \cup {None}, revoked : BOOLEAN,
                        over : BOOLEAN]]
  /\ alive \subseteq Server /\ dying \subseteq Server /\ left \subseteq Server
  /\ logged \in Version /\ logged <= meta.version
  /\ call \in [Call -> {"idle", "want", "grant"}]
  /\ grant \in [pc : {"none", "prepare", "round", "giveup", "flush"},
                by : Call \cup {None}, version : 0..MaxVersion,
                primary : Server \cup {None}, group : SUBSET Server,
                waiting : SUBSET Server, failed : SUBSET Server]
  /\ regrant \in BOOLEAN
  /\ snap \in [pc : {"idle", "revoking", "acked", "wait", "finish", "done"},
               primary : Server \cup {None}, before : SUBSET Server]
  /\ server \in [Server -> [has : BOOLEAN, version : Version, held : BOOLEAN,
                            over : BOOLEAN, young : BOOLEAN, mutated : BOOLEAN,
                            secondaries : SUBSET Server, data : SUBSET Write]]
  /\ late \subseteq Message
  /\ hb \in [Server -> [pc : {"none", "sent", "answered"}, has : BOOLEAN,
                        version : 0..MaxVersion, extend : BOOLEAN,
                        delete : BOOLEAN]]
  /\ write \in [Server -> [id : Write \cup {None}, version : 0..MaxVersion,
                           todo : SUBSET Server]]
  /\ told \subseteq [primary : Server, version : Version]
  /\ acked \subseteq Write
  /\ count \in [events : 0..MaxEvents, kinds : SUBSET (FailureKind \cup {"giveup"})]

Init ==
  /\ meta = [version |-> 1, granting |-> FALSE, locs |-> Server, lease |-> NoLease]
  /\ alive = Server /\ dying = {} /\ logged = 1
  /\ call = [c \in Call |-> "idle"] /\ grant = NoGrant /\ regrant = FALSE
  /\ snap = NoSnap
  /\ server = [s \in Server |->
       [has |-> TRUE, version |-> 1, held |-> FALSE, over |-> FALSE,
        young |-> FALSE, mutated |-> FALSE, secondaries |-> {}, data |-> {}]]
  /\ late = {} /\ hb = [s \in Server |-> NoHeartbeat]
  /\ write = [s \in Server |-> NoWrite]
  /\ told = {} /\ acked = {} /\ left = {}
  /\ count = [events |-> 0, kinds |-> {}]

-----------------------------------------------------------------------------
(* Leases and their end.                                                   *)

IsValid(m) ==
  /\ m.lease # NoLease
  /\ ~m.lease.revoked /\ ~m.lease.over
  /\ m.lease.primary \in m.locs

IsPendingExpiry(m) ==
  /\ m.lease # NoLease
  /\ ~m.lease.over
  /\ m.lease.revoked \/ m.lease.primary \notin m.locs

\* LeaseTable::Check finds the server to be primary.
Check(s) == server[s].held /\ ~server[s].over

\* A lease that s got before the master set a lease's expiry has ended, and so
\* has a write that it let through: the server ends it lease_clock_skew_margin
\* early, the master takes it as long again, and both exceed rpc_deadline.
Ended(s) == ~Check(s) /\ write[s].id = None /\ ~(hb[s].pc = "answered" /\ hb[s].extend)

\* Nothing that a server got before the master set its lease lasts as long.
LeaseOver ==
  /\ meta.lease # NoLease /\ ~meta.lease.over
  /\ \A s \in Server : server[s].young \/ Ended(s)
  /\ meta' = [meta EXCEPT !.lease.over = TRUE]
  /\ UNCHANGED <<registry, logged, pool, servers, history, count>>

ServerLeaseOver(s) ==
  /\ Check(s)
  /\ server' = [server EXCEPT ![s].over = TRUE]
  /\ UNCHANGED <<meta, registry, logged, pool, late, hb, write, history,
                 count>>

\* The master sets an expiry: all that servers have now will end before it.
AllOld(srv) == [s \in Server |-> [srv[s] EXCEPT !.young = FALSE]]

\* Something fails; that it was a lost answer or a crash is remembered.
Fails(k) ==
  /\ k \in Failure
  /\ count.events < MaxEvents
  /\ count' = [events |-> count.events + 1,
               kinds |-> count.kinds \cup ({k} \cap {"timeout", "crash"})]

-----------------------------------------------------------------------------
(* FindLeaseHolder, Grant, Regrant.                                        *)

\* A path lock keeps FindLeaseHolder and Snapshot apart.  After the snapshot
\* the chunk is shared and the call goes on with a copy of it.  A lease that
\* is pending expiry defers the call.
FindLeaseHolder(c) ==
  /\ call[c] = "idle"
  /\ snap.pc = "idle"
  /\ \/ /\ IsValid(meta)
        /\ told' = told \cup {[primary |-> meta.lease.primary,
                               version |-> meta.version]}
        /\ UNCHANGED <<meta, call>>
     \/ /\ ~IsValid(meta) /\ ~IsPendingExpiry(meta)
        /\ meta' = [meta EXCEPT !.lease = NoLease]
        /\ call' = [call EXCEPT ![c] = "want"]
        /\ UNCHANGED told
  /\ UNCHANGED <<registry, logged, grant, regrant, snap, servers, acked,
                 left, count>>

\* BeginHandle returns.
BeginHandle == grant.pc = "none"

Grant(c) ==
  /\ call[c] = "want"
  /\ BeginHandle
  /\ call' = [call EXCEPT ![c] = "grant"]
  /\ grant' = [NoGrant EXCEPT !.pc = "prepare", !.by = c]
  /\ UNCHANGED <<meta, registry, logged, regrant, snap, servers, history,
                 count>>

Regrant ==
  /\ regrant
  /\ BeginHandle
  /\ regrant' = FALSE
  /\ grant' = IF IsValid(meta) THEN [NoGrant EXCEPT !.pc = "prepare"] ELSE grant
  /\ UNCHANGED <<meta, registry, logged, call, snap, servers, history, count>>

Live == meta.locs \cap alive
Enough == Cardinality(Live) >= MinReplicas

\* Mutant of PrepareLocked: a grant keeps the version.
PrepareLocked_SameVersion ==
  /\ grant.pc = "prepare"
  /\ Enough
  /\ \E p \in Live :
       /\ meta.lease.primary \in Live => p = meta.lease.primary
       /\ grant' = [grant EXCEPT !.pc = "round", !.primary = p, !.group = Live,
                                 !.waiting = Live, !.failed = {},
                                 !.version = meta.version]
  /\ meta' = [meta EXCEPT !.granting = TRUE]
  /\ left' = left \cup (Server \ Live)
  /\ UNCHANGED <<registry, logged, call, regrant, snap, servers, told, acked,
                 count>>

\* PrepareLocked: the primary stays if it can.
PrepareLocked ==
  /\ grant.pc = "prepare"
  /\ Enough
  /\ meta.version < MaxVersion
  /\ \E p \in Live :
       /\ meta.lease.primary \in Live => p = meta.lease.primary
       /\ grant' = [grant EXCEPT !.pc = "round", !.primary = p, !.group = Live,
                                 !.waiting = Live, !.failed = {},
                                 !.version = meta.version + 1]
  /\ meta' = [meta EXCEPT !.granting = TRUE]
  /\ left' = left \cup (Server \ Live)
  /\ UNCHANGED <<registry, logged, call, regrant, snap, servers, told, acked,
                 count>>

\* Too few replicas: NO_REPLICAS.  That a round had been made is remembered.
PrepareFails ==
  /\ grant.pc = "prepare"
  /\ ~Enough
  /\ grant' = [grant EXCEPT !.pc = "giveup"]
  /\ count' = IF grant.version = 0 THEN count
              ELSE [count EXCEPT !.kinds = @ \cup {"giveup"}]
  /\ UNCHANGED <<meta, registry, logged, call, regrant, snap, servers, history>>

ClearGranting ==
  /\ grant.pc = "giveup"
  /\ meta' = [meta EXCEPT !.granting = FALSE]
  /\ grant' = NoGrant
  /\ call' = [c \in Call |-> IF c = grant.by THEN "idle" ELSE call[c]]
  /\ UNCHANGED <<registry, logged, regrant, snap, servers, history, count>>

\* What the round sends to s.
MessageTo(s) ==
  IF s = grant.primary
  THEN [kind |-> "grant", to |-> s, version |-> grant.version,
        secondaries |-> grant.group \ {s}]
  ELSE [kind |-> "update", to |-> s, version |-> grant.version, secondaries |-> {}]
RevokeTo(s) == [kind |-> "revoke", to |-> s, version |-> 0, secondaries |-> {}]

\* A handler of a chunkserver; a chunk that is not there is left alone, but a
\* revoke is answered OK all the same.
Handled(srv, m) ==
  LET s == m.to IN
  CASE m.kind = "revoke" ->
         [srv EXCEPT ![s] = [@ EXCEPT !.held = FALSE, !.secondaries = {}]]
    [] m.kind = "grant" /\ srv[s].has ->
         [srv EXCEPT ![s] = [@ EXCEPT !.version = m.version, !.held = TRUE,
            !.over = FALSE, !.young = TRUE, !.mutated = FALSE,
            !.secondaries = m.secondaries]]
    [] m.kind = "update" /\ srv[s].has ->
         [srv EXCEPT ![s] = [@ EXCEPT !.version = m.version, !.held = FALSE,
            !.secondaries = {}]]
    [] OTHER -> srv

\* A lease that s gets now does not end with the one that a snapshot revoked.
Renewed(m) ==
  IF m.kind = "grant" /\ server[m.to].has
  THEN [snap EXCEPT !.before = @ \ {m.to}] ELSE snap

\* GrantLease or UpdateVersion is executed and the answer arrives.
Answer(s) ==
  /\ grant.pc = "round"
  /\ s \in grant.waiting
  /\ server' = Handled(server, MessageTo(s))
  /\ snap' = Renewed(MessageTo(s))
  /\ grant' = [grant EXCEPT !.waiting = @ \ {s},
                            !.failed = IF server[s].has THEN @ ELSE @ \cup {s}]
  /\ UNCHANGED <<meta, registry, logged, call, regrant, late, hb, write, history,
                 count>>

\* What becomes of a message whose answer does not come: it was executed, or
\* it was not, or that is still to come.
Unanswered(m) ==
  \/ server' = Handled(server, m) /\ snap' = Renewed(m) /\ UNCHANGED late
  \/ late' = (IF Late THEN late \cup {m} ELSE late) /\ UNCHANGED <<server, snap>>

Timeout(s) ==
  /\ grant.pc = "round"
  /\ s \in grant.waiting
  /\ Fails("timeout")
  /\ Unanswered(MessageTo(s))
  /\ grant' = [grant EXCEPT !.waiting = @ \ {s}, !.failed = @ \cup {s}]
  /\ UNCHANGED <<meta, registry, logged, call, regrant, hb, write, history>>

LateMessage(m) ==
  /\ server' = Handled(server, m)
  /\ snap' = Renewed(m)
  /\ late' = late \ {m}
  /\ UNCHANGED <<meta, registry, logged, call, grant, regrant, hb, write, history,
                 count>>

\* Who did not answer is dropped, and the round is repeated.
NextRound ==
  /\ grant.pc = "round" /\ grant.waiting = {} /\ grant.failed # {}
  /\ meta' = [meta EXCEPT !.locs = @ \ grant.failed]
  /\ left' = left \cup grant.failed
  /\ grant' = [grant EXCEPT !.pc = "prepare"]
  /\ UNCHANGED <<registry, logged, call, regrant, snap, servers, told, acked, count>>

\* All answered: the version is logged and the lease is set.
GrantFinish ==
  /\ grant.pc = "round" /\ grant.waiting = {} /\ grant.failed = {}
  /\ meta' = [meta EXCEPT
       !.version = IF @ > grant.version THEN @ ELSE grant.version,
       !.granting = FALSE,
       !.lease = [primary |-> grant.primary, revoked |-> FALSE, over |-> FALSE]]
  /\ server' = AllOld(server)
  /\ grant' = [grant EXCEPT !.pc = "flush"]
  /\ UNCHANGED <<registry, logged, call, regrant, snap, late, hb, write, history,
                 count>>

\* The record is flushed; a call tells its client, a regrant nobody.
GrantReturn ==
  /\ grant.pc = "flush"
  /\ logged >= grant.version
  /\ told' = IF grant.by = None THEN told
             ELSE told \cup {[primary |-> grant.primary, version |-> grant.version]}
  /\ call' = [c \in Call |-> IF c = grant.by THEN "idle" ELSE call[c]]
  /\ grant' = NoGrant
  /\ UNCHANGED <<meta, registry, logged, regrant, snap, servers, acked, left, count>>

Flush ==
  /\ logged < meta.version
  /\ logged' = meta.version
  /\ UNCHANGED <<meta, registry, pool, servers, history, count>>

-----------------------------------------------------------------------------
(* Snapshot, as far as it revokes.                                         *)

\* Revoke, up to its message.
Revoke ==
  /\ snap.pc = "idle"
  /\ \A c \in Call : call[c] = "idle"
  /\ IF meta.lease = NoLease \/ meta.lease.over
     THEN /\ meta' = [meta EXCEPT !.lease = NoLease]
          /\ snap' = [snap EXCEPT !.pc = "finish"]
     ELSE /\ meta' = [meta EXCEPT !.lease.revoked = TRUE]
          /\ snap' = [pc |-> "revoking", primary |-> meta.lease.primary,
                      before |-> {s \in Server : ~Ended(s)}]
  /\ UNCHANGED <<registry, logged, call, grant, regrant, servers, history, count>>

RevokeAnswer ==
  /\ snap.pc = "revoking"
  /\ server' = Handled(server, RevokeTo(snap.primary))
  /\ snap' = [snap EXCEPT !.pc = "acked"]
  /\ UNCHANGED <<meta, registry, logged, call, grant, regrant, late, hb, write,
                 history, count>>

\* The last part of Revoke: the lease is forgotten if it is that primary's;
\* otherwise the revoke does not count as acknowledged.
RevokeAcked ==
  /\ snap.pc = "acked"
  /\ IF meta.lease.primary = snap.primary
     THEN /\ meta' = [meta EXCEPT !.lease = NoLease]
          /\ snap' = [snap EXCEPT !.pc = "finish"]
     ELSE /\ snap' = [snap EXCEPT !.pc = "wait"]
          /\ UNCHANGED meta
  /\ UNCHANGED <<registry, logged, call, grant, regrant, servers, history, count>>

\* Not acknowledged: the snapshot waits for the expiry that Revoke read.
RevokeTimeout ==
  /\ snap.pc = "revoking"
  /\ Fails("refusal")
  /\ LET m == RevokeTo(snap.primary) IN
       \/ server' = Handled(server, m) /\ UNCHANGED late
       \/ late' = (IF Late THEN late \cup {m} ELSE late) /\ UNCHANGED server
  /\ snap' = [snap EXCEPT !.pc = "wait"]
  /\ UNCHANGED <<meta, registry, logged, call, grant, regrant, hb, write, history>>

\* Mutant of Expired: the deferred snapshot does not wait.
Expired_NoWait == snap.pc = "wait"

\* The timer fires when the leases of that time have ended.
Expired == snap.pc = "wait" /\ \A s \in snap.before : Ended(s)

\* The file's chunk is shared from here on; the record is flushed.
SnapshotFinish ==
  /\ snap.pc = "finish" \/ Expired
  /\ meta' = IF IsValid(meta) THEN meta ELSE [meta EXCEPT !.lease = NoLease]
  /\ snap' = [NoSnap EXCEPT !.pc = "done"]
  /\ UNCHANGED <<registry, logged, call, grant, regrant, servers, history, count>>

-----------------------------------------------------------------------------
(* Heartbeats and SweepDead.                                               *)

SendHeartbeat(s) ==
  /\ hb[s].pc = "none"
  /\ count.events < MaxEvents
  /\ count' = [count EXCEPT !.events = @ + 1]
  /\ hb' = [hb EXCEPT ![s] =
       [pc |-> "sent", has |-> server[s].has, version |-> server[s].version,
        extend |-> Check(s) /\ server[s].mutated, delete |-> FALSE]]
  /\ UNCHANGED <<meta, registry, logged, pool, server, late, write, history>>

\* RemoveLocation.
Without(s) == [meta EXCEPT !.locs = @ \ {s}]

\* Master::HeartBeat, once the registry knows that s is alive.
Stale(s) ==
  IF meta.granting THEN hb[s].version + 1 < meta.version
                   ELSE hb[s].version < meta.version

\* The heartbeat leaves the chunk in state m; a change to the locations of a
\* leased chunk asks for a regrant, but a new location does not during a grant; s
\* may get more time.
Done(s, m, delete) ==
  LET extended == hb[s].extend /\ IsValid(m) /\ m.lease.primary = s IN
  /\ meta' = m
  /\ regrant' = (regrant \/ (m.locs # meta.locs /\ IsValid(m) /\ (delete \/ ~meta.granting)))
  /\ server' = IF extended THEN AllOld(server) ELSE server
  /\ hb' = [hb EXCEPT ![s].pc = "answered", ![s].delete = delete,
                      ![s].extend = extended]

\* A replica that is behind is told to delete the chunk.
TellStale(s) ==
  /\ hb[s].has /\ Stale(s)
  /\ Done(s, Without(s), TRUE)
  /\ left' = left \cup {s}

\* Mutant of TakeIn: the version is the one reported, higher or not.
TakeIn_AnyVersion(s) ==
  /\ hb[s].has /\ ~Stale(s)
  /\ Done(s, [meta EXCEPT !.locs = @ \cup {s}, !.version = hb[s].version], FALSE)
  /\ UNCHANGED left

\* Another one is a location; a higher version than the master's is adopted.
TakeIn(s) ==
  /\ hb[s].has /\ ~Stale(s)
  /\ Done(s, [meta EXCEPT !.locs = @ \cup {s},
                !.version = IF ~meta.granting /\ hb[s].version > @
                            THEN hb[s].version ELSE @], FALSE)
  /\ UNCHANGED left

\* A server that does not report the chunk is no location, unless it became
\* one a moment ago.  During a grant this may ask for a regrant too.
NotReported(s) ==
  /\ ~hb[s].has
  /\ \/ Done(s, meta, FALSE) /\ UNCHANGED left
     \/ /\ s \in meta.locs
        /\ meta' = Without(s)
        /\ left' = left \cup {s}
        /\ regrant' = (regrant \/ IsValid(Without(s)))
        /\ hb' = [hb EXCEPT ![s].pc = "answered", ![s].extend = FALSE]
        /\ UNCHANGED server

HeartBeat(s) ==
  /\ hb[s].pc = "sent"
  /\ alive' = alive \cup {s}
  /\ TellStale(s) \/ TakeIn(s) \/ NotReported(s)
  /\ UNCHANGED <<dying, logged, call, grant, snap, late, write, told, acked, count>>

\* The answer: the chunk is deleted, or the lease extended if it is still held.
HeartbeatAnswer(s) ==
  /\ hb[s].pc = "answered"
  /\ hb' = [hb EXCEPT ![s] = NoHeartbeat]
  /\ server' = [server EXCEPT ![s] =
       IF hb[s].delete
       THEN [@ EXCEPT !.has = FALSE, !.held = FALSE, !.secondaries = {},
                      !.data = {}]
       ELSE IF hb[s].extend /\ @.held
       THEN [@ EXCEPT !.over = FALSE, !.mutated = FALSE]
       ELSE @]
  /\ UNCHANGED <<meta, registry, logged, pool, late, write, history, count>>

\* The registry declares s dead, and only then its locations are removed.
Sweep(s) ==
  /\ s \in alive
  /\ Fails("sweep")
  /\ alive' = alive \ {s}
  /\ dying' = dying \cup {s}
  /\ UNCHANGED <<meta, logged, pool, servers, history>>

SweepDead(s) ==
  /\ s \in dying
  /\ dying' = dying \ {s}
  /\ meta' = Without(s)
  /\ left' = left \cup {s}
  /\ regrant' = (regrant \/ (s \in meta.locs /\ IsValid(Without(s))))
  /\ UNCHANGED <<alive, logged, call, grant, snap, servers, told, acked, count>>

-----------------------------------------------------------------------------
(* A crash of the master.                                                  *)

\* The master starts again from its log: the leases and the locations are not
\* in it.  What it sent may still be executed.
Crash ==
  /\ Fails("crash")
  /\ meta' = [version |-> logged, granting |-> FALSE, locs |-> {}, lease |-> NoLease]
  /\ alive' = {} /\ dying' = {} /\ left' = Server
  /\ call' = [c \in Call |-> "idle"] /\ grant' = NoGrant /\ regrant' = FALSE
  /\ snap' = IF snap.pc = "done" THEN snap ELSE NoSnap
  /\ late' = IF ~Late THEN late
             ELSE late \cup {MessageTo(s) : s \in grant.waiting}
                       \cup {RevokeTo(s) : s \in {snap.primary} \ {None}}
  /\ hb' = [s \in Server |-> NoHeartbeat]
  /\ UNCHANGED <<logged, server, write, told, acked>>

-----------------------------------------------------------------------------
(* Mutations.                                                              *)

\* PrepareMutation finds nothing wrong with a request of a client that was
\* told of s.
Writable(s) ==
  /\ server[s].has
  /\ Check(s)
  /\ [primary |-> s, version |-> server[s].version] \in told

\* Write (or RecordAppend), up to the forwarding: the chunk is locked, the
\* lease's list of secondaries taken, and the data written at the primary.  A
\* grant between the looks at the version and at the lease is left out: the
\* secondaries of its lease have its version, and refuse the older one.
BeginWrite(s, w) ==
  /\ write[s].id = None
  /\ Writable(s)
  /\ \A t \in Server : w \notin server[t].data
  /\ write' = [write EXCEPT ![s] = [id |-> w, version |-> server[s].version,
                                    todo |-> server[s].secondaries]]
  /\ server' = [server EXCEPT ![s].data = @ \cup {w}, ![s].mutated = TRUE]
  /\ UNCHANGED <<meta, registry, logged, pool, late, hb, history, count>>

\* Mutant of ApplyMutation: the primary takes a refusal for an answer.
ApplyMutation_RefusalIgnored(s, t) ==
  /\ t \in write[s].todo /\ write[t].id = None
  /\ server' = [server EXCEPT ![t].data =
       IF server[t].has /\ server[t].version = write[s].version
       THEN @ \cup {write[s].id} ELSE @]
  /\ write' = [write EXCEPT ![s].todo = @ \ {t}]
  /\ UNCHANGED <<meta, registry, logged, pool, late, hb, history, count>>

\* ApplyMutation on a secondary that has the version; a mutation of which it
\* is itself the primary holds the chunk's lock.
ApplyMutation(s, t) ==
  /\ t \in write[s].todo /\ write[t].id = None
  /\ server[t].has /\ server[t].version = write[s].version
  /\ server' = [server EXCEPT ![t].data = @ \cup {write[s].id}]
  /\ write' = [write EXCEPT ![s].todo = @ \ {t}]
  /\ UNCHANGED <<meta, registry, logged, pool, late, hb, history, count>>

\* A secondary refuses, or does not answer.
WriteFails(s) ==
  /\ write[s].todo # {}
  /\ write' = [write EXCEPT ![s] = NoWrite]
  /\ UNCHANGED <<meta, registry, logged, pool, server, late, hb, history, count>>

WriteDone(s) ==
  /\ write[s].id # None /\ write[s].todo = {}
  /\ acked' = acked \cup {write[s].id}
  /\ write' = [write EXCEPT ![s] = NoWrite]
  /\ UNCHANGED <<meta, registry, logged, pool, server, late, hb, told, left, count>>

-----------------------------------------------------------------------------
GrantStep ==
  \/ \E c \in Call : FindLeaseHolder(c) \/ Grant(c)
  \/ Regrant \/ PrepareLocked \/ PrepareFails \/ ClearGranting
  \/ \E s \in Server : Answer(s) \/ Timeout(s)
  \/ NextRound \/ GrantFinish \/ GrantReturn

SnapshotStep == Revoke \/ RevokeAnswer \/ RevokeAcked \/ RevokeTimeout \/ SnapshotFinish

ServerStep(s) ==
  \/ SendHeartbeat(s) \/ HeartBeat(s) \/ HeartbeatAnswer(s)
  \/ Sweep(s) \/ SweepDead(s) \/ ServerLeaseOver(s)
  \/ \E w \in Write : BeginWrite(s, w)
  \/ \E t \in Server : ApplyMutation(s, t)
  \/ WriteFails(s) \/ WriteDone(s)

Next ==
  \/ GrantStep \/ SnapshotStep \/ LeaseOver \/ Flush \/ Crash
  \/ \E s \in Server : ServerStep(s)
  \/ \E m \in late : LateMessage(m)

Spec == Init /\ [][Next]_vars

-----------------------------------------------------------------------------
(* Properties.                                                             *)

\* Until the master crashes, clients are never told two primaries for the same
\* version: the version of a grant tells old primaries from new ones, which
\* PrepareMutation and ApplyMutation rely on.
GrantsUnique ==
  "crash" \notin count.kinds =>
    \A a, b \in told : a.version = b.version => a.primary = b.primary

\* A location that was in every round of every grant, and was never dropped,
\* has every acknowledged write, whoever was primary meanwhile.
StayersCurrent ==
  \A s \in meta.locs \ left : acked \subseteq server[s].data

\* A location that the readers of the current version are sent to, and that
\* serves them, has every acknowledged write.
LocationsCurrent ==
  \A s \in meta.locs :
    server[s].has /\ server[s].version >= meta.version => acked \subseteq server[s].data

\* Once a snapshot shares the chunk, no replica that serves the readers of the
\* copy lets a client write it.
SharedNotWritable ==
  snap.pc = "done" => \A s \in Server : Writable(s) => server[s].version < meta.version

\* The same as long as the master lives, has the answer of every grant, and
\* gives up none after a round of it.
SnapshotIsolated ==
  count.kinds \cap {"timeout", "crash", "giveup"} = {} => SharedNotWritable
=============================================================================
