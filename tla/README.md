# Spruce: a TLA+ verification of the broker

Spruce is an in-memory message broker (`src/internal/broker`) with a Go client
(`src/pkg/spruce`). Brokers keep every accepted message until its expiry, replicate it
to their peers, and deliver it over HTTP streams, either to consumer groups (each
message to one member, in order per key, until it is acknowledged) or as a broadcast
(each consumer gets everything and resumes from a cursor). Nothing is stored on disk.

This directory holds TLA+ modules that model parts of the broker and of the client, TLC
configurations that check them on small instances, and TLAPS proofs that hold for every
instance. `PROJECT.json` lists components, runs, mutants, the source lines of every
definition, findings, hazards and theorems.

## Inventory

| Component | State | Operations | Hard because | Correct when |
|---|---|---|---|---|
| Cache (`broker.go` 110-690) | items, order, topics, expiry heap, received and loss frontiers | insert, expire, replay, page | shared by every handler under `cache.mu` | retains every accepted message until expiry, never exceeds its budget |
| Acceptance (`accept*`, 1816-2018) | topic sequences, repair ordinals | accept one, accept a batch, deliver | admission before sequence assignment; calls into the scheduler under two locks | all or nothing; every accepted message reaches every connected group |
| Group scheduler (`group_work.go`) | groups, lanes, queued work, delivery marks, two memory counters | register, prepare, dispatch, complete, retry, groupLoop | one lock for lanes, released between the steps of joins, deliveries and retries | one outstanding delivery per key, in acceptance order; every queued message finishes or expires |
| Deliveries (3094-3250, 3588-4010) | pending, deadlines, windows | send, ack, nack, maintenance | late acks, retries of what was just completed, streams that vanish | nothing leaks, nothing blocks a lane for ever |
| Checkpoints (3619-3670, `checkpoint_memory.go`) | completions per group, FIFO | put, evict, compact, propagate | bounded, evicts completions of retained messages | completed work is not queued again while its checkpoint lives |
| Streams (3315-3586, `stream_*.go`) | subscribers, channels, replay lists, cursors | reserve, register, replay, defer, go live, exit | replay, publication, retry and cancellation interleave | no gap between replay and live; a cursor never passes unprocessed messages |
| Publish admission (1147-1222) | bytes, waiter queue | acquire, grant, release | a timer races a grant; small requests pass large ones | budget kept, nobody stranded or starved |
| Drain (1134-1144, `cmd/spruce/main.go`) | draining, ready | BeginDrain | races subscriptions half registered | every stream is closed |
| Replica intake and repair (1878-2165, `origin_memory.go`, `repair.go`) | received frontier and reorder buffer per origin, repair cursor per peer | accept a replicated batch, drain, repair | reordering, gaps, expiry, retries | a confirmed copy is kept until expiry; replicas converge |
| Replication sender (2167-2670) | queue and bytes per peer | enqueue, peerLoop, synchronous copy | bounded queue, lost answers | drops are repaired |
| Idempotency (1550-1633, `idempotency.go`, `available.go`) | entries by key | begin, finish, wait | concurrent retries, eviction | one message per key while it is retained |
| Bootstrap (2689-2990) | none of its own | snapshot, checkpoints, frontiers | peers change while they are read | no completed work comes back, no cursor is trusted wrongly |
| Go client (`client.go`) | cursor, frame window | subscribe, ack, nack, publish with retry | concurrent handlers, reconnection | the cursor follows the completed prefix |
| Producer batcher (`batcher.go`) | queue, byte reservations | publish, flush, close | close races publish | every publication is answered once |

Parts interact by calls under two mutexes, `cache.mu` before `Broker.mu`: acceptance
calls the scheduler and the streams' channels; acks and peers' checkpoints call the
scheduler; the maintenance and groupLoop goroutines poll; stream handlers own the
reading end of their channels; clients see frames and answer with acks. The peers see
batches, checkpoints and repair pages over HTTP.

Which module models which part:

| Module | Part | Proofs |
|---|---|---|
| GroupWork | acceptance, group scheduler, deliveries, checkpoints, group streams, drain | GroupWorkProofs |
| PublishAdmission | publish admission | PublishAdmissionProofs |
| IdempotentPublish (extends PublishAdmission) | the publish handler with idempotency keys | IdempotentPublishProofs |
| BroadcastStream | broadcast streams and the client's cursor | BroadcastStreamProofs |
| ReplicaIntake | a replica's cache, receive frontier and reorder buffer | ReplicationProofs |
| Replication (extends ReplicaIntake) | sender, repair, replica and bootstrap composed | ReplicationProofs |
| Completions | acks and nacks from the client to the owner and on to the peers | CompletionsProofs |
| ProducerBatcher, BatchPromise | the client's batcher and what it promises | ProducerBatcherProofs |
| Selection | the part of a list that a loop with a condition keeps | FoldTheorems |

`FoldTheorems` holds the facts about sums over finite sets, least and greatest members and
`Selection` that the other proof modules share.

## Not modelled

HTTP routing, authentication, metrics, status pages, wire
codecs, compression, the Python and C# ports of the client, deployment and tools. They
hold no state that the rest reads, or are pure conversions.

Of the modelled parts: legacy timestamp cursors, several origins or topics in one cache
(present only as memory others may take), loss frontiers and capacity marks, bootstrap of
checkpoints and frontiers, the shutdown sequence of the process, `PublishRetry` (a loop over
one request) and the client's deduper and backoff.

## Modules

### GroupWork

One broker, one topic: acceptance, group registration and joins, dispatch, frames, acks,
nacks, deadlines, maintenance, groupLoop, peers' checkpoints, expiry, draining.

- A step is one critical section of `Broker.mu`. Acceptance (`AcceptBatch`, then
  `AcceptIndex` and `AcceptDispatch` per message) and subscription (`SubscribeRegister`,
  then `SubscribeFinish` or `SubscribeOverflow`) hold `cache.mu` across several
  sections; meanwhile `CacheFree` is false and only handlers without `cache.mu` run.
- A lane (the `prev`/`next` list of a key) is `ahead`: the queued messages in front of
  each queued message. The head is the entry with nothing ahead.
- Delivery identities are tokens, fresh with respect to every record that still carries
  one of the same group and message.
- Time is the set `expired` of messages whose `ExpiresAt` has passed (work, deliveries
  and checkpoints copy that value) and the set `due` of deliveries past their deadline.
  `done` is a history variable: what a group ever completed.
- Messages have one size, group entries one charge. The checkpoint FIFO is a bounded set
  with an arbitrary victim, which admits every eviction order.
- A member is chosen by the highest `Score`; heads compete for the last of the room in
  any order, as map iteration decides.
- Left out: the attempt number, broadcast deliveries (they share `pendingBytes`), a single
  publication of a retained message (it changes nothing but expiry).

### PublishAdmission

`acquirePublishAdmission`, the grant loop and `releasePublishAdmission`. The loop is one
turn per step while `granting` (the lock) is set, since a waiter can wake or time out
between turns. `before` is the part of the queue in front of each waiter. The limit of 8
bypasses is the constant `BypassLimit`.

### BroadcastStream

One broadcast consumer of a topic with one origin: the three phases of the stream
handler, `deliver` and `sendDeliveryLocked` with their pressure rules, maintenance
retries, and the client's frame window and contiguous cursor. A message is its sequence
number. A stream that ended is forgotten with its pending entries: nothing can be sent to
a detached subscriber. Left out: loss frontiers (the broker rejects instead of evicting,
so they stay empty), several origins, `since` cursors, the broker-wide window.

### IdempotentPublish

`publish` with an idempotency key on top of PublishAdmission, whose variables it extends: a
handler keeps its admission until it returns, also while it waits for another handler.

- `beginIdempotency` and `finishIdempotency` hold `Broker.mu`, `acceptIdempotent` holds
  `cache.mu`: one step each. A pointer to an unfinished entry is the handler that owns it;
  closing its `ready` channel tells the handlers that wait for it.
- `order` is `idempotencyOrder`: each place has its key and whether the table still has
  that entry. Eviction takes the oldest finished entry; the list is compacted when it is
  longer than twice the table's limit.
- `cache` has the retained message of each key and `copies` counts insertions since the
  last one expired. A finished entry expires with its message; an unfinished one does not.
- The acknowledgement mode is left open: after acceptance the handler ends with 202 or 503
  and keeps the entry in both cases, as the code does.

### ReplicaIntake

A replica's side of one topic of one origin: `acceptReplicatedBatch` message by message,
repair and bootstrap pages through `acceptBatchLocked`, `drainContiguousLocked`, expiry of
messages and of frontier metadata.

- A message is its sequence number. Deadlines that are maxima of `ExpiresAt` are sets of
  messages: passed when all of them have expired.
- A request holds `cache.mu` throughout; it is split into steps because group memory may
  refuse any message it promotes. Other origins share cache, buffer and group memory, so a
  batch may be refused at any time for want of them.
- The expired branch (`broker.go` 2111) raises `receivedThrough` and leaves `receivedUntil`
  alone, as the code does.
- Left out: the "repair:" and "overflow:" marks, which only make cursors less trusted.

### Replication

An origin A and a replica B. A: publications of the three acknowledgement modes, the byte
budget of the peer's queue (reservations, batches, repair pages), `peerLoop` with its
retries, drops that ask for a repair, gap headers and `checkPeerGap`, and repair passes in
pages. B: ReplicaIntake behind the replicate handler. A request may be lost, answered late,
or handled after A gave it up. B may restart: it forgets everything and serves live
requests while it bootstraps from A's snapshot; a failed bootstrap exits and starts over, an
unreachable A lets it start empty.

- The header check of the handler (`broker.go` 3042) takes the lock again, so it is a step
  of its own.
- `confirmed` and `excused` are histories: what B answered with 204 since it started, and
  what it may miss because the publisher was told 503 or because B started empty.
- A one-peer publication that fails stays in A's cache unreplicated until a later repair
  brings it: this is why it is excused until then.
- A third broker is only the other place where a reservation or a copy may succeed.

### Completions

Deliveries that clients finished with an ack or a nack: the client's `ackBatcher`, the
`ack` and `nack` endpoints of a broker that may not own the delivery, `broadcastAction`
with its byte and channel limits, `actionLoop` with coalescing, carried remainder and
`AckDeadline`, and the peers' internal endpoints, which pass on what they complete.
`missed` records what no queue to a broker took or a loop gave up. When a client goes away,
`broadcastAction` may stop after some of the peers (`Reaches`). Deliveries lapse (deadline, end
of stream) at any time.

Handlers are cut at each release of `Broker.mu` and before each broadcast, so a completion
that is recorded and not yet passed on is a state of the model. `calls` has the client requests
that brokers are handling and `serving` the requests of the actionLoops. Both hold any number up
to a bound: a request whose sender has gone, timed out or given up is handled to its end all the
same, beside its repetition or whatever is sent next. Two left-over peer handlers of one line with
the same work left are one element of `serving`; the second would change nothing more, since
what it would remove is removed and what it would apply is applied. Left out: crashes of the
owner, also between recording a completion and passing it on.

### ProducerBatcher and BatchPromise

The batcher's callers (`Publish`, `Flush`, `Close`, with contexts that may end at any time,
also before the call), its slots and queue, and the worker with its pending batch and timer.
`Close` starts one goroutine that flushes with the first closer's context and then closes
`stop`: the caller `Closing`. Publications have one size, so the two tests against `MaxBytes`
are the ones against `MaxMessages`; one larger than `MaxBytes` is refused before it is submitted, and left out.
A flush is `StartFlush` (members with ended contexts are answered) and, when the request to
the broker ends, `FlushDone`; `then` is what the worker does next. The ID the broker gives a
publication is the publication, so a swapped answer shows.

BatchPromise is the abstract specification: publications are submitted, answered once
with their own ID or their batch's error in batches that are bounded and of one class, or
handed back unsent. `KeepsPromise` is the refinement, with the publications in the
batcher's hands for `submitted`.

## Runs

| Run | Instance | Checks |
|---|---|---|
| groups_ample | 2 messages of one lane, two streams of one member and one of another, no shortage, drain | KeyExclusive, NoOvertake, BacklogIndexed, KeyGate, WindowLedger, CompletedNotResent |
| groups_pressure | 2 groups, 1 checkpoint slot, memory for a stream and 7 units of index | TypeOK, DeliveryOwned, CheckpointDone, MemoryLedger |
| groups_live | 2 messages, 1 stream, fairness | LaneReopens, WorkFinishes |
| groups_overtake | 2 groups, memory for two streams and little more | NoOvertake fails |
| groups_drain | drain while a stream registers | DrainClosesStreams fails |
| publish | budget 2, one request of 2 and three of 1, 2 keys, 2 contents, 1 entry, fairness | PublishTypeOK, AdmissionLedger, HeadBlocked, SingleOwner, OneCopy, SameContent, EntriesIndexed, NoStarvation |
| broadcast | 3 messages, buffers of 3, 2 attempts, fairness | StreamBounded, CursorCovers, NoSilentSkip, EventuallyProcessed |
| broadcast_overflow | 3 messages, buffers of 1 | NoSilentSkip fails |
| replication | one message copied synchronously, a local batch of two, cache of 3, buffer of 2, queue of 1, pages of 2, 2 attempts, one fault | NoLiveHole, ConfirmedHeld, GapMarked, SettledComplete, ReplicaLedger, QueueLedger |
| replication_retry | the same | MemoryBounded fails |
| batcher | 3 publications of 2 classes, one closer, contexts of one publisher and the closer may end, batches of 2, queue of 1, fairness | SlotLedger, FlushCovers, NoneStranded, KeepsPromise, AllReturn |
| acks | 2 brokers, a delivery of the broker the client asks and one of the other, 2 client requests and 2 of the actionLoops handled at a time, queues of 2 actions and 3 units, 1 repeated request, fairness | ActionLedger, AckKept, CompletionSpreads, OnlyAcked, GoesQuiet |

Bounds. Two messages of one key are what order and exclusivity need. Two streams of one
member give fencing, a third competition; a stream's name is used again after it is free, so
any number of reconnections happens. The constraint of groups_ample keeps the sum of
running streams and accepted messages at 4 (2 while draining). Two tokens
suffice because a head is sent again only after its delivery left `pending`, and at most
one older record per message is still in the retry slice or in a channel; a third would
be needed only when both hold one, and then the head waits. `KeyExclusive`, `NoOvertake` and
`CompletedNotResent` are stated for instances whose checkpoints are not evicted: an evicted
completion may bring its message back, which the documentation allows. `groups_pressure`
keeps the store at one entry and checks what holds regardless.

A small `BypassLimit` makes the limit of admission bite with four requests; an idempotency
table of one entry makes every second key evict or exhaust it. The constraint of publish
explores keyed publications with three handlers and admission alone with four. Three
messages are the fewest with which a broadcast buffer overflows and a later message follows;
in the broadcast run deliveries are retried while at most two are accepted.

In replication, three messages in two publications give a gap, a successor behind it and a
batch that is partly applied; one fault is a restart of B or a request handled late, and
refusals, losses and retries are not bounded except by `MaxTries`. The queue takes one batch
so that the other is dropped and repaired. In batcher, two classes force a flush for
incompatibility, two messages one for size, and the queue of one makes callers wait. In
acks, 3 units make two actions fill a queue and a third be refused; two requests of each sort
give a late handler beside the retry, and the request of a client that has gone beside its
repetition.

Symmetry is used in safety runs of GroupWork only, over messages of one lane, over two
groups with a stream each (`Score` is constant there) and over two streams of one member.

Deadlock checking is off for the modules that stop when every message, delivery or call of
the instance has been used; IdempotentPublish must not deadlock, since handlers return and
come back.

Fairness. `maintenance` and `groupLoop` run on tickers for the life of the broker, and a
handler between two lock sections always continues: weak fairness, strong where
`cache.mu` may be taken by others in between (a Go mutex is handed to a goroutine that
has waited a millisecond). Deadlines pass. Clients are assumed to complete a message they
are given again and again, writers to write before the deadline infinitely often, and
connections not to break always before the first frame; broadcast handlers complete, per
message, the earliest frame they hold. In IdempotentPublish a handler that can go on
does, and admission's mutex is given to whoever keeps asking; a handler that waits for
another one is helped by no assumption, so `NoStarvation` shows that owners never wait for
those they block. In ProducerBatcher some goroutine that can go on does: the timer fires and
requests to the broker end. In Completions some endpoint that can go on does, some internal
endpoint, and some actionLoop: its attempts end by an answer or the `AckDeadline`. Expiry, timers of admission, ended
contexts, new calls and failures are never assumed to happen.

Replication has no liveness run. `SettledComplete` says the same for a sender that comes to
rest: when it has nothing queued, in flight, due for repair or reported as a gap, the
replica has every live message.

Each property of a passing run has a mutant: a definition replaced by the operator named
next to it in the module ("Mutant: ..."), a bug such a change of the code would be.

## Findings

1. **A refused join lets work overtake** (`groups_overtake`). A join whose backlog does
   not fit is answered 429 after its group was registered. Until a join succeeds, new
   publications are indexed for the group and the older backlog is not; the next join
   appends the older messages behind the newer ones of their key.
2. **A stream escapes draining** (`groups_drain`). `draining` is read in one critical
   section and the subscriber registered in a later one; `BeginDrain` in between cancels
   neither.
3. **Broadcast overflow can skip a message** (`broadcast_overflow`). Pressure cancels the
   stream's context but leaves the subscriber registered; its writer may still take a
   later delivery, and the client's cursor then passes the dropped message.
4. **A retried batch is charged twice** (`replication_retry`). Group memory refuses a
   message that a batch took out of the reorder buffer; the message goes back to the buffer
   and the request fails. The retry of the message's own batch finds it next in sequence,
   inserts it and does not look in the buffer: the copy there stays charged, its topic stays
   marked with a gap, and cache and buffer together exceed `maxBytes`. The preflight counts
   the message once only, because it is buffered.

## Proofs

Every invariant and action property that a passing run checks is also a theorem, for every
value of the constants that satisfies the module's named assumption. Five of them hold only
while some step does not happen; the theorem then says which (below). The same is done for the
two properties that only a failing run checks, so each of the four findings has a theorem that
names its cause. Liveness is model-checked only.

### Sums and selections

The byte counters are sums over sets whose members come and go, and two lists are filtered by
a loop. `FoldTheorems` gives both a theory. `SetInduction` is induction over a finite set as a
statement about *sets of sets*: if a family of subsets contains the empty set and is closed
under adding a member, it contains the set. The family is a value and not an operator, so it can
be instantiated. `SumIsSum` shows that the recursive function behind the community module's
`SumFunctionOnSet` exists and does not depend on the order in which it chooses; the lemmas the
proofs cite follow: `SumAdd`, `SumRemove`, `SumChange`, `SumUnion`, `SumSubset`, `SumShift` (the
sum over the positions of a list when its head leaves). `KeptPicks` says what `Kept` returns: an
increasing choice of positions that hits every position whose element qualifies.

### GroupWorkProofs

From the assumptions of GroupWork: typed constants, finitely many messages, groups, streams and
tokens, positive limits.

- `Typing`: TypeOK. The interesting part is that a dispatched head has a member and a
  fresh token, and that every set that is counted is finite.
- `LaneSafety`: LaneOrder and KeyGate. LaneOrder is inductive together with
  `OrdinalOrder` (repair ordinals are distinct, so that a join indexes its backlog in a
  strict order), and KeyGate needs LaneOrder: an appended entry is behind the outstanding
  one, and removing entries in front of an outstanding head changes nothing.
- `OneOutstandingPerKey`: a consequence for two messages of one key.
- `CompletionSafety` is DeliveryOwned and `CompletedNotQueued` CheckpointDone, inductive
  together with TypeOK. Every step that takes a delivery out of `pending` either completes its message,
  expires it, or puts it in the retry slice; every step that records a checkpoint removes the
  work.
- `BacklogSafety`: MemberRegistered and BacklogIndexed, with `CheckpointsRecorded` (a
  checkpoint stands for a completion). Acceptance is refused unless its whole index fits,
  so an accepted message is queued in every registered group.
- `WindowsCount`: WindowLedger, with `WindowsStart`: a stream that is not yet open has an empty
  window and no deliveries, so a name that is used again starts clean.
- `MemoryAccounted`: MemoryLedger, as `MemoryInv`, which gives both counters as charges of the
  registered groups, the queued entries and the streams.
- `OneHolderPerKey` and `NoResend`: KeyExclusive and CompletedNotResent *while no checkpoint of a
  live message is evicted* (`NothingEvicted`, an action). The invariant `HolderInv` says that a
  message has one delivery outstanding at most, the current one of its queued entry, and
  `DoneKept` that a completion is remembered until expiry. Eviction is what the documentation
  allows to bring completed work back; the theorems show that nothing else does.
- `NothingOvertaken`: NoOvertake *while no subscription fails after it registered its group*
  (`NoJoinFails`). `OrderInv` says that outside a join a registered group has its whole
  unfinished backlog queued, and that what was accepted earlier under a key is completed, expired
  or ahead. So the failed join is the only cause of finding 1.
- `DrainClosesAll`: DrainClosesStreams *if the sweep of BeginDrain meets no subscription between its
  look at `draining` and its registration* (`SweepsAlone`). `DrainInv`: after such a sweep no
  subscription is half registered and none can become so, and every open stream is cancelled. So
  that window is the only cause of finding 2.

### PublishAdmissionProofs and IdempotentPublishProofs

- `AdmissionSafety`: TypeOK, WaiterOnce and HeadBlocked. A grant moves a waiter from the queue to
  the granted ones, and only a handler that is still waiting is in either. Every step that could
  make room for the first waiter also takes the lock for a grant loop, and the loop ends only
  when no waiter can be selected. `AdmissionConserved`: AdmissionLedger, the sum of what the
  holders asked for.
- `PublishImplementsAdmission`: PublishSpec implements the specification of
  PublishAdmission; every step of a handler is a step of admission or leaves its variables
  alone. `PublishAdmissionSafety` and `PublishConserves` follow for the composed system.
- `IdempotencySafety`, `OneCopyOfAKey`, `ToldOfOwnContent`: SingleOwner, OneCopy and SameContent.
  The inductive invariant relates the table to the handlers both ways (`OwnerEntry`: every owner's
  entry is in the table under its key with its content; `EntryOwner`: every unfinished entry has a
  handler that is still publishing it), says that who waits has the content of the owner it waits
  for (`WaitsForTwin`), that a finished entry has the content it was asked for (`StoredAsAsked`),
  and that a key without a retained message has no copy (`NoCopyLeft`). Two owners of one key
  would both be the owner of one entry; eviction and expiry leave unfinished entries alone.
- `EntriesAlwaysIndexed`, `PublishTyped`: the table's keys and the current places of the order
  correspond one to one (`Indexed`). Compaction keeps exactly the current places, so afterwards the
  order is no longer than the table; this is where the theory of `Kept` is used.

The assumptions are typed publications, a positive table limit, and `None` distinct from what it
stands beside; any number of handlers, keys and contents.

### BroadcastStreamProofs

- `StreamStaysBounded`: StreamBounded, with `Phased` (a live stream has nothing left to replay,
  only a replaying one owes a frame, a closed one keeps nothing).
- `CursorNeverPasses` and `NothingSkipped`: CursorCovers and NoSilentSkip *while a handler whose
  context is cancelled writes nothing more* (`StopsWhenCancelled`). `Line` says that the messages
  stand in one line: before any message of the channel, the replay list or the deferred list,
  every earlier one is written, expired or ahead of it, every accepted message is somewhere in the
  line, and a retry is of a message that went before. A cancelled stream may have dropped one, but
  what it has written is still whole (`WrittenWhole`). `Covered` carries this to the client: below
  the cursor of a frame everything is done or has a frame before it. So the write after the
  cancellation is the only cause of finding 3, for every size of window, channel and deferred list.

### ReplicationProofs

From `IntakeTyped` and the assumptions of Replication; a publication is a finite, non-empty run of
consecutive sequence numbers, which is how `acceptBatch` assigns them under one lock.

- `ReplicationTyped`: the types, with what the protocol needs of them: every request body holds
  published messages, and a request that holds the receiver's lock has a sender that waits.
- `GapAlwaysMarked`: GapMarked. `Frontier` is the shape of the receiver: cache below
  `receivedThrough`, the message to promote just above it, the mark over the whole buffer.
- `ReplicaMemory`: ReplicaLedger. A batch is admitted once; `LoadFits` bounds what is held together
  with what the admitted batch may still take, which no later step increases.
- `ConfirmedAlwaysHeld`: ConfirmedHeld. `HeldInv` follows a request through its steps: the part that
  is done with is held, the rest has expired or is still to do, and an answer on its way speaks of
  what is held.
- `NoHoleServed` and `NothingLostForGood`: NoLiveHole and SettledComplete, both from `SyncInv`. While
  B serves, everything up to `receivedThrough` and up to the cursor of the repair pass is there, a
  repair page, sent or late, has nothing missing below it, a 204 on its way is true, and each
  missing message is owed by somebody: a handler, the queue, the batch being sent, a repair that is
  needed, or the gap the origin knows of. While B bootstraps, everything up to the snapshot's cursor
  is there. The case that needs care is an older "no gap" answer that arrives after a new gap:
  `GapKnown` requires that the origin will look again.
- `QueueMemory`: QueueLedger, as reservations plus channel plus what peerLoop holds.

ReplicaLedger counts the distinct messages held; the run replication_retry (finding 4) shows that one
message may be charged in the cache and in the buffer. `CopiesFit` proves MemoryBounded, which counts
both, *while group memory never runs out at a message that waited in the buffer* (`SuccessorsTaken`:
neither a batch nor the drain after a page leaves the frontier's successor buffered). Then the buffer
never holds that successor outside a drain (`NoneReady`), so no promotion makes a second copy.
Copies in both places still occur, because a bootstrap page leaves buffered ones alone, so the
invariant `Charged` counts them twice and shows that admission has paid for them.

### CompletionsProofs

`ActionBytesConserved`, `OnlyAckedCompletes`, `ConfirmedAckKept` and `CompletionAlwaysSpreads`, for any finite
number of brokers and deliveries, owners and queue limits. The invariant follows an ack along its
way: a request holds deliveries whose handlers succeeded; it has read a checkpoint of each of its
deliveries that its broker owns and that is still pending; when it was forwarded, each of the others
is on the line to its owner, given up, or no longer pending. An actionLoop drops without a record
only what the peer has handled (`HeardApplied`). A peer's handler is followed by `HandlerInv`: the
one its loop waits for has, between what it has done and what it has left, all that is being sent
(`Tracks`), and a late one has only what clients acknowledged (`Serves`), so it can add
completions and take none away. Every completion of the owner is thus at each peer, on its way,
recorded in `missed`, or in the hands of the handler that completed it and has yet to broadcast.
That this last case ends is what `GoesQuiet` checks.

### ProducerBatcherProofs

`SlotsAccounted`, `FlushAlwaysCovers`, `NobodyStranded` and the refinement `BatcherKeepsPromise`, for
finitely many callers of each kind, disjoint, and answers that can be told apart. The invariant gives
every command exactly one place (queue, batch, the worker's hand, answered), says which
members of a batch the request in progress is for, and that what a barrier covers is ahead of it in
the queue, in the batch or answered. For the refinement every step of the worker is a request, a
return of unsent publications, or silent; the request is a bounded batch of one class none of which
was sent or answered before.

### Only model-checked

Liveness (LaneReopens, WorkFinishes, NoStarvation, EventuallyProcessed, AllReturn, GoesQuiet): the
prover has no reasoning about fairness and ENABLED. The four findings are runs that fail.

## Plan

1. CheckpointStore: the FIFO with refreshes and compaction, shown to implement the
   bounded set of GroupWork.
2. An abstract group queue (queued, outstanding, completed per key) that GroupWork
   implements, with the refinement proved.
3. Lemmas that shorten the proofs of ReplicationProofs.
