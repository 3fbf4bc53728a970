------------------------------ MODULE GroupWork ------------------------------
(***************************************************************************)
(* The consumer-group scheduler of one broker, for one topic: the key      *)
(* lanes of group_work.go, the pending deliveries and their deadlines, the *)
(* completion checkpoints, the subscription handler that opens a group     *)
(* stream, and draining.                                                   *)
(*                                                                         *)
(* Concurrency.  Two mutexes matter: cache.mu, taken first, and Broker.mu. *)
(* A step here is one critical section of Broker.mu.  The two handlers     *)
(* that hold cache.mu across several such sections, acceptance and         *)
(* subscription, are split at the places where they let Broker.mu go;      *)
(* while one of them is between its sections CacheFree is FALSE, and only  *)
(* the handlers that need no cache.mu can run.                             *)
(*                                                                         *)
(* Time.  Every expiry of this component is a copy of the message's        *)
(* ExpiresAt, so time is the set of messages whose ExpiresAt has passed;   *)
(* a delivery whose deadline has passed is a member of "due".              *)
(*                                                                         *)
(* Sizes.  Messages have the same size and group entries the same charge;  *)
(* the limits are counted in those units.                                  *)
(***************************************************************************)
EXTENDS Integers, FiniteSets

CONSTANTS
  Messages,           \* message identities
  Keys,               \* delivery affinities: the lanes of a group
  Key,                \* deliveryAffinity: the lane of each message
  Groups,             \* consumer group names
  Subs,               \* names for group streams, recycled after use
  SubGroup,           \* the group each stream asks for
  Affinities,         \* subscriber affinity identities
  Affinity,           \* subscriberAffinity of each stream
  Score,              \* hashValue of a key and an affinity (rendezvous hashing)
  Tokens,             \* delivery identities, fresh per group and message
  NoToken,            \* "": no delivery outstanding
  CacheEntries,       \* CacheBytes, in messages
  MaxInflight,        \* MaxInflightBytes, in messages
  MaxSubInflight,     \* MaxSubscriberInflightBytes, in messages
  ChanCap,            \* capacity of subscriber.ch
  CheckpointEntries,  \* bound on retained checkpoints
  StreamMemory,       \* StreamMemoryBytes
  Reservation,        \* streamMemoryReservation
  GroupCharge,        \* charge of a registered group
  WorkCharge,         \* workCharge of one queued message
  MaxStreams,         \* bound on registered groups
  MaxBatch,           \* bound of the model: messages per accepted batch
  MayDrain            \* whether BeginDrain is called in the run

ASSUME ConstantsTyped ==
  /\ Key \in [Messages -> Keys]
  /\ SubGroup \in [Subs -> Groups]
  /\ Affinity \in [Subs -> Affinities]
  /\ Score \in [Keys -> [Affinities -> Nat]]
  /\ NoToken \notin Tokens
ASSUME FiniteInstance ==
  IsFiniteSet(Messages) /\ IsFiniteSet(Groups) /\ IsFiniteSet(Subs) /\ IsFiniteSet(Tokens)
ASSUME LimitsTyped ==
  /\ {CacheEntries, MaxInflight, MaxSubInflight, ChanCap, MaxBatch} \subseteq Nat
  /\ {CheckpointEntries, MaxStreams, GroupCharge, WorkCharge} \subseteq Nat \ {0}
  /\ StreamMemory \in Nat /\ Reservation \in 1..StreamMemory
  /\ MayDrain \in BOOLEAN

VARIABLES
  ordinal,      \* Message.repairOrdinal: acceptance order, 0 before acceptance
  lastOrdinal,  \* cache.nextRepairOrdinal
  expired,      \* messages whose ExpiresAt has passed
  cached,       \* cache.items
  accepting,    \* messages inserted by a handler that holds cache.mu, not yet delivered
  indexed,      \* deliver has called prepareGroupWork for the first of them
  groups,       \* keys of groupWork
  work,         \* groupWorkState.work: the queued messages of each group
  ahead,        \* the queued messages in front of a message in its lane (w.prev ...)
  delivery,     \* groupWork.delivery
  pending,      \* Broker.pending, the grouped entries
  due,          \* pending deliveries whose deadline has passed
  seen,         \* pending deliveries whose frame the client has
  popped,       \* maintenance's retry slice: removed from pending, retryGroup to come
  ckpt,         \* Broker.checkpoints
  stream,       \* state of each stream handler
  cancelled,    \* streams whose context is cancelled
  inflight,     \* subscriber.inflightBytes
  chan,         \* subscriber.ch: deliveries not yet written to the client
  pendingBytes, \* Broker.pendingBytes
  streamMem,    \* Broker.streamMemoryBytes
  groupMem,     \* Broker.groupMemoryBytes
  draining,     \* Broker.draining
  swept,        \* BeginDrain has returned
  done          \* history: messages a group ever completed

cacheVars == <<ordinal, lastOrdinal, cached, accepting, indexed>>
laneVars  == <<work, ahead, delivery>>
sendVars  == <<pending, due, seen, inflight, chan, pendingBytes>>
memVars   == <<streamMem, groupMem>>
drainVars == <<draining, swept>>
vars == <<cacheVars, laneVars, sendVars, memVars, drainVars, expired, groups, popped,
          ckpt, stream, cancelled, done>>

Ids == [grp : Groups, msg : Messages, tok : Tokens]
Deliveries == [grp : Groups, msg : Messages, tok : Tokens, sub : Subs]

\* "reserved": stream memory reserved, waiting for cache.mu.  "joining": group
\* registered, Broker.mu released, cache.mu held.  "open": in topicGroups.
\* "fenced": detached by a newer stream of the same member, still running.
StreamStates == {"idle", "reserved", "joining", "open", "fenced"}

CacheFree == accepting = {} /\ \A s \in Subs : stream[s] # "joining"
Members(g) == {s \in Subs : stream[s] = "open" /\ SubGroup[s] = g}
CheckpointActive(g, m) == <<g, m>> \in ckpt /\ m \notin expired
SameLane(m) == {x \in Messages : Key[x] = Key[m]}

Init ==
  /\ ordinal = [m \in Messages |-> 0] /\ lastOrdinal = 0
  /\ expired = {} /\ cached = {} /\ accepting = {} /\ indexed = FALSE
  /\ groups = {}
  /\ work = [g \in Groups |-> {}]
  /\ ahead = [g \in Groups |-> [m \in Messages |-> {}]]
  /\ delivery = [g \in Groups |-> [m \in Messages |-> NoToken]]
  /\ pending = {} /\ due = {} /\ seen = {} /\ popped = {} /\ ckpt = {}
  /\ stream = [s \in Subs |-> "idle"] /\ cancelled = {}
  /\ inflight = [s \in Subs |-> 0] /\ chan = [s \in Subs |-> {}]
  /\ pendingBytes = 0 /\ streamMem = 0 /\ groupMem = 0
  /\ draining = FALSE /\ swept = FALSE
  /\ done = [g \in Groups |-> {}]

-----------------------------------------------------------------------------
(* prepareGroupWork: the whole index expansion of a list of messages is     *)
(* reserved first; then every message is appended to its lane in every      *)
(* registered group that neither queues it nor has a live checkpoint of it. *)

\* Mutant: indexing does not look at checkpoints.
MissingUnchecked(g, S) == {m \in S : g \in groups /\ m \notin work[g]}
Missing(g, S) ==
  {m \in S : g \in groups /\ m \notin work[g] /\ ~CheckpointActive(g, m)}
IndexCharge(S) ==
  WorkCharge * Cardinality({e \in Groups \X S : e[2] \in Missing(e[1], S)})

\* reserveStreamMemory, and the limit that keeps one stream's worth of the
\* budget out of the reach of group indexes.
StreamMemoryFits(bytes) == bytes <= StreamMemory - streamMem
GroupMemoryFits(bytes) ==
  groupMem + bytes <= StreamMemory - Reservation /\ StreamMemoryFits(bytes)

\* rank gives the position of each message of S in the list.
PrepareGroupWork(S, rank) ==
  /\ work' = [g \in Groups |-> work[g] \cup Missing(g, S)]
  /\ ahead' = [g \in Groups |-> [m \in Messages |->
       IF m \in Missing(g, S)
       THEN SameLane(m) \cap (work[g] \cup {x \in Missing(g, S) : rank[x] < rank[m]})
       ELSE ahead[g][m]]]
  /\ delivery' = [g \in Groups |-> [m \in Messages |->
       IF m \in Missing(g, S) THEN NoToken ELSE delivery[g][m]]]
  /\ streamMem' = streamMem + IndexCharge(S)
  /\ groupMem' = groupMem + IndexCharge(S)

\* removeGroupWorkLocked for the messages Gone[g] of each group: unlink them from
\* their lanes and return their charge.
\* Mutant: the successor of a removed entry keeps pointing at it.
UnlinkedDangling(Gone) ==
  [g \in Groups |-> [m \in Messages |-> IF m \in Gone[g] THEN {} ELSE ahead[g][m]]]
Unlinked(Gone) ==
  [g \in Groups |-> [m \in Messages |->
     IF m \in Gone[g] THEN {} ELSE ahead[g][m] \ Gone[g]]]
GoneCharge(Gone) ==
  WorkCharge * Cardinality({e \in Groups \X Messages : e[2] \in Gone[e[1]]})

-----------------------------------------------------------------------------
(* dispatchGroupLocked and sendDeliveryLocked: a lane head that is not      *)
(* outstanding goes to the member with the highest score, when the byte     *)
(* windows and the member's channel have room; otherwise it stays queued.   *)

Best(g, m) ==
  {s \in Members(g) : \A r \in Members(g) :
     Score[Key[m]][Affinity[r]] <= Score[Key[m]][Affinity[s]]}
Target(g, m) == CHOOSE s \in Best(g, m) : TRUE

UsedTokens(g, m) ==
  {d.tok : d \in {x \in pending \cup popped \cup UNION {chan[s] : s \in Subs} :
                   x.grp = g /\ x.msg = m}}
\* Mutant: the delivery is recorded without an identity.
FreshTokenEmpty(g, m) == NoToken
FreshToken(g, m) == CHOOSE t \in Tokens : t \notin UsedTokens(g, m)

\* Mutant: any queued entry may be sent, not only the head.
HeadsAnywhere(Gone) ==
  {e \in groups \X Messages :
     LET g == e[1]  m == e[2] IN
       /\ m \in work[g] \ Gone[g]
       /\ delivery[g][m] = NoToken
       /\ m \in cached /\ m \notin expired
       /\ Best(g, m) # {}
       /\ Tokens \ UsedTokens(g, m) # {}}
\* Mutant: an outstanding head may be sent again.
HeadsOutstanding(Gone) ==
  {e \in groups \X Messages :
     LET g == e[1]  m == e[2] IN
       /\ m \in work[g] \ Gone[g]
       /\ ahead[g][m] \subseteq Gone[g]
       /\ m \in cached /\ m \notin expired
       /\ Best(g, m) # {}
       /\ Tokens \ UsedTokens(g, m) # {}}
\* The heads that could be sent once the messages of Gone are unlinked.
Heads(Gone) ==
  {e \in groups \X Messages :
     LET g == e[1]  m == e[2] IN
       /\ m \in work[g] \ Gone[g]
       /\ ahead[g][m] \subseteq Gone[g]
       /\ delivery[g][m] = NoToken
       /\ m \in cached /\ m \notin expired
       /\ Best(g, m) # {}
       /\ Tokens \ UsedTokens(g, m) # {}}

SentTo(E, s) == {e \in E : Target(e[1], e[2]) = s}
Admissible(E) ==
  /\ pendingBytes + Cardinality(E) <= MaxInflight
  /\ \A s \in Subs :
       /\ inflight[s] + Cardinality(SentTo(E, s)) <= MaxSubInflight
       /\ Cardinality(chan[s]) + Cardinality(SentTo(E, s)) <= ChanCap

\* Map iteration order decides which heads get the last of the room.
Dispatched(H) ==
  {E \in SUBSET H : Admissible(E) /\ \A e \in H \ E : ~Admissible(E \cup {e})}

Id(e) == [grp |-> e[1], msg |-> e[2], tok |-> FreshToken(e[1], e[2])]
Sent(e) ==
  [grp |-> e[1], msg |-> e[2], tok |-> FreshToken(e[1], e[2]),
   sub |-> Target(e[1], e[2])]

SendDeliveries(E) ==
  /\ pending' = pending \cup {Sent(e) : e \in E}
  /\ pendingBytes' = pendingBytes + Cardinality(E)
  /\ inflight' = [s \in Subs |-> inflight[s] + Cardinality(SentTo(E, s))]
  /\ chan' = [s \in Subs |-> chan[s] \cup {Id(e) : e \in SentTo(E, s)}]
  /\ UNCHANGED <<due, seen>>

MarkDelivery(E, Gone) ==
  delivery' = [g \in Groups |-> [m \in Messages |->
     IF m \in Gone[g] THEN NoToken
     ELSE IF <<g, m>> \in E THEN FreshToken(g, m) ELSE delivery[g][m]]]

NoneGone == [g \in Groups |-> {}]

-----------------------------------------------------------------------------
(* Acceptance: acceptLocked and acceptBatchLocked.  A batch lists its       *)
(* messages in the order rank; messages already cached are duplicates.      *)

ExpireLocked == cached \ expired
NewIn(S) == S \ ExpireLocked
Batches == {S \in SUBSET Messages : S # {} /\ Cardinality(S) <= MaxBatch}
Rankings(S) ==
  {r \in [S -> 1..Cardinality(S)] : \A x, y \in S : x # y => r[x] # r[y]}
\* An identity published again after it expired is another message.
CanOffer(S) == \A m \in S : m \in ExpireLocked \/ ordinal[m] = 0
HasRoom(S) == Cardinality(ExpireLocked \cup S) <= CacheEntries

AcceptBatch(S, rank) ==
  /\ CacheFree /\ CanOffer(S)
  /\ HasRoom(S) /\ GroupMemoryFits(IndexCharge(S))
  /\ PrepareGroupWork(S, rank)
  /\ ordinal' = [m \in Messages |->
       IF m \in NewIn(S)
       THEN lastOrdinal + Cardinality({x \in NewIn(S) : rank[x] <= rank[m]})
       ELSE ordinal[m]]
  /\ lastOrdinal' = lastOrdinal + Cardinality(NewIn(S))
  /\ cached' = ExpireLocked \cup S
  /\ accepting' = NewIn(S) /\ indexed' = FALSE
  /\ UNCHANGED <<sendVars, drainVars, expired, groups, popped, ckpt, stream,
                 cancelled, done>>

\* Rejection happens before a sequence is assigned; only expiry has an effect.
AcceptReject(S) ==
  /\ CacheFree /\ CanOffer(S)
  /\ ~HasRoom(S) \/ ~GroupMemoryFits(IndexCharge(S))
  /\ cached' = ExpireLocked
  /\ UNCHANGED <<ordinal, lastOrdinal, accepting, indexed, laneVars, sendVars,
                 memVars, drainVars, expired, groups, popped, ckpt, stream, cancelled,
                 done>>

\* deliver, once per inserted message in insertion order: prepareGroupWork again,
\* its error ignored, then dispatchGroupMessage.
FirstOf(S) == {m \in S : \A x \in S : ordinal[m] <= ordinal[x]}

AcceptIndex(m) ==
  /\ m \in FirstOf(accepting) /\ ~indexed
  /\ indexed' = TRUE
  /\ \/ GroupMemoryFits(IndexCharge({m})) /\ PrepareGroupWork({m}, ordinal)
     \/ ~GroupMemoryFits(IndexCharge({m})) /\ UNCHANGED <<laneVars, memVars>>
  /\ UNCHANGED <<ordinal, lastOrdinal, cached, accepting, sendVars, drainVars, expired,
                 groups, popped, ckpt, stream, cancelled, done>>

AcceptDispatch(m) ==
  /\ m \in FirstOf(accepting) /\ indexed
  /\ \E E \in Dispatched({e \in Heads(NoneGone) : e[2] = m}) :
       SendDeliveries(E) /\ MarkDelivery(E, NoneGone)
  /\ accepting' = accepting \ {m} /\ indexed' = FALSE
  /\ UNCHANGED <<ordinal, lastOrdinal, cached, work, ahead, memVars, drainVars, expired,
                 groups, popped, ckpt, stream, cancelled, done>>

-----------------------------------------------------------------------------
(* The subscription handler, stream, for a grouped subscription.            *)

NameFree(s) == stream[s] = "idle" /\ \A p \in pending \cup popped : p.sub # s

SubscribeReserve(s) ==
  /\ NameFree(s) /\ StreamMemoryFits(Reservation)
  /\ stream' = [stream EXCEPT ![s] = "reserved"]
  /\ streamMem' = streamMem + Reservation
  /\ UNCHANGED <<cacheVars, laneVars, sendVars, groupMem, drainVars, expired, groups,
                 popped, ckpt, cancelled, done>>

\* registerGroupLocked
CanRegister(g) ==
  g \in groups \/ (Cardinality(groups) < MaxStreams /\ GroupMemoryFits(GroupCharge))

SubscribeRegister(s) ==
  /\ stream[s] = "reserved" /\ CacheFree
  /\ ~draining /\ CanRegister(SubGroup[s])
  /\ stream' = [stream EXCEPT ![s] = "joining"]
  /\ cached' = ExpireLocked
  /\ groups' = groups \cup {SubGroup[s]}
  /\ LET charge == IF SubGroup[s] \in groups THEN 0 ELSE GroupCharge IN
       streamMem' = streamMem + charge /\ groupMem' = groupMem + charge
  /\ UNCHANGED <<ordinal, lastOrdinal, accepting, indexed, laneVars, sendVars,
                 drainVars, expired, popped, ckpt, cancelled, done>>

\* 503 while draining, 429 when the group cannot be registered.
SubscribeRefuse(s) ==
  /\ stream[s] = "reserved" /\ CacheFree
  /\ draining \/ ~CanRegister(SubGroup[s])
  /\ stream' = [stream EXCEPT ![s] = "idle"]
  /\ cached' = ExpireLocked
  /\ streamMem' = streamMem - Reservation
  /\ UNCHANGED <<ordinal, lastOrdinal, accepting, indexed, laneVars, sendVars,
                 groupMem, drainVars, expired, groups, popped, ckpt, cancelled, done>>

\* Mutant: a stream that joins a registered group does not index the backlog.
SubscribeFinishUnindexed(s) ==
  LET fenced == {r \in Members(SubGroup[s]) : Affinity[r] = Affinity[s]} IN
  /\ stream[s] = "joining"
  /\ GroupMemoryFits(IndexCharge(cached))
  /\ stream' = [r \in Subs |->
       IF r = s THEN "open" ELSE IF r \in fenced THEN "fenced" ELSE stream[r]]
  /\ cancelled' = cancelled \cup fenced
  /\ UNCHANGED <<cacheVars, laneVars, sendVars, memVars, drainVars, expired, groups,
                 popped, ckpt, done>>

\* The retained backlog of the topic is indexed in cache order, the streams of the
\* same member are fenced, and the stream becomes a member of its group.
SubscribeFinish(s) ==
  LET fenced == {r \in Members(SubGroup[s]) : Affinity[r] = Affinity[s]} IN
  /\ stream[s] = "joining"
  /\ GroupMemoryFits(IndexCharge(cached))
  /\ PrepareGroupWork(cached, ordinal)
  /\ stream' = [r \in Subs |->
       IF r = s THEN "open" ELSE IF r \in fenced THEN "fenced" ELSE stream[r]]
  /\ cancelled' = cancelled \cup fenced
  /\ UNCHANGED <<cacheVars, sendVars, drainVars, expired, groups, popped, ckpt, done>>

\* Mutant: the failed join keeps its reservation.
SubscribeOverflowLeaks(s) ==
  /\ stream[s] = "joining"
  /\ ~GroupMemoryFits(IndexCharge(cached))
  /\ stream' = [stream EXCEPT ![s] = "idle"]
  /\ UNCHANGED <<cacheVars, laneVars, sendVars, memVars, drainVars, expired, groups,
                 popped, ckpt, cancelled, done>>

\* 429 after registration: the reservation goes back, the group stays registered.
SubscribeOverflow(s) ==
  /\ stream[s] = "joining"
  /\ ~GroupMemoryFits(IndexCharge(cached))
  /\ stream' = [stream EXCEPT ![s] = "idle"]
  /\ streamMem' = streamMem - Reservation
  /\ UNCHANGED <<cacheVars, laneVars, sendVars, groupMem, drainVars, expired, groups,
                 popped, ckpt, cancelled, done>>

Running(s) == stream[s] \in {"open", "fenced"}

Carries(d, p) == p.grp = d.grp /\ p.msg = d.msg /\ p.tok = d.tok

WriteFrame(s, d) ==
  /\ Running(s) /\ d \in chan[s]
  /\ chan' = [chan EXCEPT ![s] = @ \ {d}]
  /\ seen' = seen \cup {p \in pending : Carries(d, p)}
  /\ UNCHANGED <<cacheVars, laneVars, pending, due, inflight, pendingBytes, memVars, drainVars,
                 expired, groups, popped, ckpt, stream, cancelled, done>>

\* Mutant: the exiting stream forgets its deliveries instead of making them due.
StreamExitForgets(s) ==
  /\ Running(s)
  /\ stream' = [stream EXCEPT ![s] = "idle"]
  /\ cancelled' = cancelled \ {s}
  /\ pending' = {p \in pending : p.sub # s}
  /\ due' = due \cap pending' /\ seen' = seen \cap pending'
  /\ pendingBytes' = pendingBytes - Cardinality({p \in pending : p.sub = s})
  /\ inflight' = [inflight EXCEPT ![s] = 0]
  /\ chan' = [chan EXCEPT ![s] = {}]
  /\ streamMem' = streamMem - Reservation
  /\ UNCHANGED <<cacheVars, laneVars, groupMem, drainVars, expired, groups, popped,
                 ckpt, done>>

\* The handler returns: cancelled, a failed write or the client gone.  Its deferred
\* function makes every delivery of the stream due at once.
StreamExit(s) ==
  /\ Running(s)
  /\ stream' = [stream EXCEPT ![s] = "idle"]
  /\ cancelled' = cancelled \ {s}
  /\ due' = due \cup {p \in pending : p.sub = s}
  /\ inflight' = [inflight EXCEPT ![s] = 0]
  /\ chan' = [chan EXCEPT ![s] = {}]
  /\ streamMem' = streamMem - Reservation
  /\ UNCHANGED <<cacheVars, laneVars, pending, seen, pendingBytes, groupMem, drainVars, expired,
                 groups, popped, ckpt, done>>

-----------------------------------------------------------------------------
(* Completion.  putCheckpointLocked: an expired or known checkpoint changes *)
(* nothing; a new one completes the queued work and may push out an older   *)
(* one.  The FIFO that picks the victim is left open here.                  *)

Only(g, m) == [h \in Groups |-> IF h = g THEN {m} \cap work[g] ELSE {}]

Evicted(g, m) ==
  IF Cardinality(ckpt \cup {<<g, m>>}) <= CheckpointEntries
  THEN {ckpt \cup {<<g, m>>}}
  ELSE {(ckpt \ {old}) \cup {<<g, m>>} : old \in ckpt}
\* compactCheckpointsLocked: maintenance calls it on every tick, and
\* putCheckpointLocked when the order slice has grown.
Compacted(c) == {e \in c : e[2] \notin expired}
Retained(g, m) == Evicted(g, m) \cup {Compacted(c) : c \in Evicted(g, m)}

PutCheckpoint(g, m) ==
  \/ /\ m \in expired \/ <<g, m>> \in ckpt
     /\ UNCHANGED <<laneVars, memVars, ckpt, done>>
  \/ /\ m \notin expired /\ <<g, m>> \notin ckpt
     /\ ckpt' \in Retained(g, m)
     /\ work' = [work EXCEPT ![g] = @ \ {m}]
     /\ ahead' = Unlinked(Only(g, m))
     /\ MarkDelivery({}, Only(g, m))
     /\ streamMem' = streamMem - GoneCharge(Only(g, m))
     /\ groupMem' = groupMem - GoneCharge(Only(g, m))
     /\ done' = [done EXCEPT ![g] = @ \cup {m}]

\* Mutant: the stream's own window is not reduced.
ReleasedGlobally(D) ==
  /\ pendingBytes' = pendingBytes - Cardinality(D)
  /\ UNCHANGED inflight

\* b.subs holds the open streams only: a fenced stream's window is not reduced.
Released(D) ==
  /\ pendingBytes' = pendingBytes - Cardinality(D)
  /\ inflight' = [s \in Subs |->
       IF stream[s] = "open" THEN inflight[s] - Cardinality({p \in D : p.sub = s})
       ELSE inflight[s]]

\* removeAcks, for a delivery whose frame the client has.
Ack(p) ==
  /\ p \in seen
  /\ PutCheckpoint(p.grp, p.msg)
  /\ pending' = pending \ {p} /\ due' = due \ {p} /\ seen' = seen \ {p}
  /\ Released({p})
  /\ UNCHANGED <<cacheVars, chan, drainVars, expired, groups, popped, stream,
                 cancelled>>

\* applyCheckpoints: a peer completed the message for this group.
PeerCheckpoint(g, m) ==
  /\ PutCheckpoint(g, m)
  /\ UNCHANGED <<cacheVars, sendVars, drainVars, expired, groups, popped, stream,
                 cancelled>>

BecomesDue(p) ==
  /\ p \in pending \ due
  /\ due' = due \cup {p}
  /\ UNCHANGED <<cacheVars, laneVars, pending, seen, inflight, chan, pendingBytes, memVars,
                 drainVars, expired, groups, popped, ckpt, stream, cancelled, done>>
\* applyNacks, for a delivery whose frame the client has.
Nack(p) == p \in seen /\ BecomesDue(p)
\* AckDeadline elapses.
Deadline(p) == BecomesDue(p)

-----------------------------------------------------------------------------
(* The maintenance goroutine, once a second: cache.expire, then one section *)
(* of Broker.mu, then retryGroup for each delivery it removed.              *)

ExpireCache ==
  /\ CacheFree
  /\ cached' = ExpireLocked
  /\ UNCHANGED <<ordinal, lastOrdinal, accepting, indexed, laneVars, sendVars,
                 memVars, drainVars, expired, groups, popped, ckpt, stream, cancelled,
                 done>>

MaintenancePop ==
  /\ popped = {}
  /\ ckpt' = Compacted(ckpt)
  /\ popped' = due /\ pending' = pending \ due
  /\ due' = {} /\ seen' = seen \ due
  /\ Released(due)
  /\ UNCHANGED <<cacheVars, laneVars, chan, memVars, drainVars, expired, groups,
                 stream, cancelled, done>>

\* Mutant: the retried head stays marked as delivered.
RetryGroupStuck(p) ==
  /\ p \in popped
  /\ popped' = popped \ {p}
  /\ UNCHANGED <<cacheVars, laneVars, sendVars, memVars, drainVars, expired, groups,
                 ckpt, stream, cancelled, done>>

RetryGroup(p) ==
  /\ p \in popped
  /\ popped' = popped \ {p}
  /\ delivery' = [delivery EXCEPT ![p.grp][p.msg] =
       IF p.msg \in work[p.grp] /\ @ = p.tok THEN NoToken ELSE @]
  /\ UNCHANGED <<cacheVars, work, ahead, sendVars, memVars, drainVars, expired,
                 groups, ckpt, stream, cancelled, done>>

\* One turn of groupLoop, under both locks.  Expired heads are always removed; a
\* cleanup turn removes every expired or completed entry.
Swept(cleanup) ==
  [g \in Groups |->
    {m \in work[g] :
       IF cleanup THEN m \in expired \/ CheckpointActive(g, m)
       ELSE m \in expired /\ ahead[g][m] \subseteq expired}]

IdleGroups(Gone) == {g \in groups : work[g] \subseteq Gone[g] /\ Members(g) = {}}

GroupLoop(cleanup) ==
  LET Gone == Swept(cleanup)
      idle == IdleGroups(Gone)
      freed == GoneCharge(Gone) + GroupCharge * Cardinality(idle)
  IN
  /\ CacheFree
  /\ \E E \in Dispatched(Heads(Gone)) : SendDeliveries(E) /\ MarkDelivery(E, Gone)
  /\ work' = [g \in Groups |-> work[g] \ Gone[g]]
  /\ ahead' = Unlinked(Gone)
  /\ groups' = groups \ idle
  /\ streamMem' = streamMem - freed /\ groupMem' = groupMem - freed
  /\ UNCHANGED <<cacheVars, drainVars, expired, popped, ckpt, stream, cancelled,
                 done>>

-----------------------------------------------------------------------------
(* Time and draining.                                                       *)

Expire(m) ==
  /\ m \notin expired
  /\ expired' = expired \cup {m}
  /\ UNCHANGED <<cacheVars, laneVars, sendVars, memVars, drainVars, groups, popped,
                 ckpt, stream, cancelled, done>>

\* BeginDrain: the flag first, then every registered subscriber is cancelled.
DrainStart ==
  /\ MayDrain /\ ~draining
  /\ draining' = TRUE
  /\ UNCHANGED <<cacheVars, laneVars, sendVars, memVars, swept, expired, groups,
                 popped, ckpt, stream, cancelled, done>>
DrainSweep ==
  /\ draining /\ ~swept
  /\ swept' = TRUE
  /\ cancelled' = cancelled \cup {s \in Subs : stream[s] = "open"}
  /\ UNCHANGED <<cacheVars, laneVars, sendVars, memVars, draining, expired, groups,
                 popped, ckpt, stream, done>>

-----------------------------------------------------------------------------
Next ==
  \/ \E S \in Batches : \E rank \in Rankings(S) : AcceptBatch(S, rank)
  \/ \E S \in Batches : AcceptReject(S)
  \/ \E m \in accepting : AcceptIndex(m) \/ AcceptDispatch(m)
  \/ \E s \in Subs : \/ SubscribeReserve(s) \/ SubscribeRegister(s) \/ SubscribeRefuse(s)
                      \/ SubscribeFinish(s) \/ SubscribeOverflow(s)
                      \/ StreamExit(s) \/ \E d \in chan[s] : WriteFrame(s, d)
  \/ \E p \in pending : Ack(p) \/ Nack(p) \/ Deadline(p)
  \/ \E g \in Groups, m \in Messages : PeerCheckpoint(g, m)
  \/ ExpireCache \/ MaintenancePop
  \/ \E p \in popped : RetryGroup(p)
  \/ \E cleanup \in BOOLEAN : GroupLoop(cleanup)
  \/ \E m \in Messages : Expire(m)
  \/ DrainStart \/ DrainSweep

Spec == Init /\ [][Next]_vars

-----------------------------------------------------------------------------
(* Properties.                                                              *)

\* Every variable keeps the type its Go declaration gives it.
TypeOK ==
  /\ ordinal \in [Messages -> Nat] /\ lastOrdinal \in Nat
  /\ expired \subseteq Messages /\ cached \subseteq Messages
  /\ accepting \subseteq Messages /\ indexed \in BOOLEAN
  /\ groups \subseteq Groups
  /\ work \in [Groups -> SUBSET Messages]
  /\ ahead \in [Groups -> [Messages -> SUBSET Messages]]
  /\ delivery \in [Groups -> [Messages -> Tokens \cup {NoToken}]]
  /\ pending \subseteq Deliveries /\ due \subseteq pending /\ seen \subseteq pending
  /\ popped \subseteq Deliveries
  /\ ckpt \subseteq Groups \X Messages
  /\ stream \in [Subs -> StreamStates] /\ cancelled \subseteq Subs
  /\ inflight \in [Subs -> Int] /\ chan \in [Subs -> SUBSET Ids]
  /\ pendingBytes \in Int /\ streamMem \in Int /\ groupMem \in Int
  /\ draining \in BOOLEAN /\ swept \in BOOLEAN
  /\ done \in [Groups -> SUBSET Messages]

\* Each lane of prev/next pointers is one chain of queued messages of its key: of two
\* entries of a lane exactly one is in front of the other, and "in front of" is
\* transitive, whatever removeGroupWorkLocked took out of the middle.
LaneOrder ==
  \A g \in Groups : \A m \in work[g] :
    /\ ahead[g][m] \subseteq work[g] \cap SameLane(m)
    /\ m \notin ahead[g][m]
    /\ \A x \in work[g] \cap SameLane(m) :
         x # m => (x \in ahead[g][m] <=> m \notin ahead[g][x])
    /\ \A x \in ahead[g][m] : ahead[g][x] \subseteq ahead[g][m]

\* "A key has at most one outstanding delivery": only the head of a lane is ever
\* outstanding, across retries, re-indexing, completions by peers and evictions.
KeyGate ==
  \A g \in Groups : \A m \in work[g] :
    delivery[g][m] # NoToken => ahead[g][m] = {}

\* A head marked as delivered has a pending delivery, or one on its way to retryGroup:
\* no stream exit, nack, ack, timeout or late retry leaves a lane blocked by a delivery
\* that nothing will ever end.
DeliveryOwned ==
  \A g \in Groups : \A m \in work[g] :
    delivery[g][m] # NoToken /\ m \notin expired =>
      \E p \in pending \cup popped : p.grp = g /\ p.msg = m /\ p.tok = delivery[g][m]

\* A message with a live checkpoint is not queued for that group, whichever of the
\* completion, the join, the duplicate publication and the retry came first.
CheckpointDone ==
  \A g \in Groups : \A m \in work[g] : ~CheckpointActive(g, m)

\* The group of a stream that is joining or open stays registered: groupLoop never
\* reclaims it between registration and membership.
MemberRegistered ==
  /\ \A s \in Subs : stream[s] \in {"joining", "open"} => SubGroup[s] \in groups
  /\ \A g \in Groups \ groups : work[g] = {}

\* A group with a member has every retained live message that it has not completed in
\* its lanes: no accepted message is invisible to a connected group.
BacklogIndexed ==
  \A s \in Subs : stream[s] = "open" =>
    \A m \in cached \ (expired \cup done[SubGroup[s]]) : m \in work[SubGroup[s]]

\* The counters of the two memory budgets equal what they stand for, and group indexes
\* leave a stream's reservation free: with no stream running, a subscription can always
\* reserve its memory, however much work is queued.
MemoryLedger ==
  LET entries == {e \in Groups \X Messages : e[2] \in work[e[1]]}
      held == {s \in Subs : stream[s] # "idle"}
  IN
  /\ groupMem = GroupCharge * Cardinality(groups) + WorkCharge * Cardinality(entries)
  /\ streamMem = groupMem + Reservation * Cardinality(held)
  /\ streamMem <= StreamMemory
  /\ held = {} => StreamMemoryFits(Reservation)

\* The in-flight windows count exactly the pending deliveries, so that neither window
\* leaks room on a stream exit, a fence, an ack or a timeout.
WindowLedger ==
  /\ pendingBytes = Cardinality(pending) /\ pendingBytes <= MaxInflight
  /\ \A s \in Subs : stream[s] = "open" =>
       /\ inflight[s] = Cardinality({p \in pending : p.sub = s})
       /\ inflight[s] <= MaxSubInflight

\* Of the pending deliveries of unfinished live work, at most one belongs to a key: two
\* members never hold the same key at once.  Only while no checkpoint is evicted.
KeyExclusive ==
  \A p, q \in pending :
    /\ p.grp = q.grp /\ Key[p.msg] = Key[q.msg]
    /\ {p.msg, q.msg} \subseteq work[p.grp] \ expired
    => p = q

\* "Unfinished work blocks later work for that key": a message is outstanding only if
\* every message of its key accepted earlier is completed or expired.
NoOvertake ==
  \A g \in Groups : \A m \in work[g] : delivery[g][m] # NoToken =>
    \A x \in SameLane(m) :
      0 < ordinal[x] /\ ordinal[x] < ordinal[m] => x \in done[g] \cup expired

\* A completed message is never sent to its group again while its checkpoint cannot be
\* evicted: not by a timeout, a join, a duplicate publication or a re-registration.
CompletedNotResent ==
  [][\A p \in pending' \ pending : p.msg \notin done[p.grp]]_vars

\* Once BeginDrain has returned, every open stream has been told to close.
DrainClosesStreams == swept => \A s \in Subs : stream[s] = "open" => s \in cancelled

-----------------------------------------------------------------------------
(* Liveness.  The two goroutines and the handlers in progress are scheduled *)
(* fairly, deadlines pass, cancelled streams return; deadlines do not outrun *)
(* the writer of an open stream for ever, and a client that keeps getting a *)
(* message in the end completes it.                                         *)

Fairness ==
  /\ WF_vars(\E m \in accepting : AcceptIndex(m) \/ AcceptDispatch(m))
  /\ \A s \in Subs :
       /\ WF_vars(SubscribeFinish(s) \/ SubscribeOverflow(s))
       /\ SF_vars(SubscribeRegister(s) \/ SubscribeRefuse(s))
       /\ WF_vars(\E d \in chan[s] : WriteFrame(s, d))
       /\ WF_vars(s \in cancelled /\ StreamExit(s))
  /\ WF_vars(\E p \in pending : Deadline(p))
  /\ WF_vars(MaintenancePop) /\ WF_vars(\E p \in popped : RetryGroup(p))
  /\ SF_vars(GroupLoop(TRUE)) /\ SF_vars(GroupLoop(FALSE))
  /\ \A g \in Groups, m \in Messages :
       /\ SF_vars(\E s \in Subs, p \in pending : p.grp = g /\ p.msg = m
                    /\ \E d \in chan[s] : Carries(d, p) /\ WriteFrame(s, d))
       /\ SF_vars(\E p \in pending : p.grp = g /\ p.msg = m /\ Ack(p))

LiveSpec == Spec /\ Fairness

\* A delivery does not hold its lane for ever: it is completed, retried or expired.
LaneReopens ==
  \A g \in Groups, m \in Messages, t \in Tokens :
    (m \in work[g] /\ delivery[g][m] = t)
      ~> (m \notin work[g] \/ delivery[g][m] # t \/ m \in expired)

\* If from some time on a group always has a member, every queued message leaves its
\* lane: completed or expired.
WorkFinishes ==
  \A g \in Groups :
    <>[](\E s \in Subs : stream[s] = "open" /\ SubGroup[s] = g)
      => \A m \in Messages : (m \in work[g]) ~> (m \notin work[g])
=============================================================================
