----------------------------- MODULE Replication -----------------------------
(***************************************************************************)
(* Replication of one topic from its origin A to one peer B.               *)
(*                                                                         *)
(* A: publications that reserve queue memory (local) or copy synchronously *)
(* (one-peer, available), the peer's queue, peerLoop with its retries, and *)
(* the repair that peerLoop runs on its ticker: a pass over the cache from *)
(* repairOrdinal 0, started by a dropped copy or by a gap B reported and   *)
(* confirmed.  B: ReplicaIntake, and the bootstrap of a restarted process  *)
(* from A's snapshot.  A third broker C is only the other place where a    *)
(* reservation or a synchronous copy may succeed.                          *)
(*                                                                         *)
(* Requests wait, are lost, are answered late or never: a request A gave   *)
(* up on may still be handled by B, at any later time.  A's steps and time *)
(* are taken only while no request holds B's cache.mu; they touch nothing  *)
(* such a request reads.                                                   *)
(***************************************************************************)
EXTENDS ReplicaIntake, Sequences, Functions

CONSTANTS
  Local, OnePeer, Available, \* the publications by acknowledgement mode
  QueueDepth,    \* capacity of peer.ch
  QueueBytes,    \* ReplicationQueueBytes
  PageBytes,     \* repair page limit
  MaxTries,      \* attempts of peerLoop for one batch
  MaxFaults      \* restarts of B, and requests that outlive A's patience

ASSUME SenderTyped ==
  /\ Batches = Local \cup OnePeer \cup Available
  /\ {QueueDepth, QueueBytes, PageBytes, MaxTries} \subseteq Nat \ {0}
  /\ MaxFaults \in Nat

VARIABLES
  accepted,    \* topicSequence.next: A's cache is 1..accepted without the expired
  pub,         \* how far each publication's handler is
  rpc,         \* the request of each synchronous copy, and of peerLoop
  queue,       \* peer.ch
  queuedBytes, \* peer.queuedBytes
  loop,        \* what peerLoop is doing
  item,        \* the batch or page it sends
  tries,       \* attempts it has made
  needed,      \* repairVersion # repairCompleted
  pass,        \* repairStarted: no pass, a fresh one, or one with a newer version behind it
  ordinal,     \* repairOrdinal
  gapPending,  \* gapRepairVersion # gapRepairCompleted
  gapAgain,    \* gapRepairVersion grew since checkPeerGap read it
  late,        \* requests A gave up on
  server,      \* whose request holds B's cache.mu
  boot,        \* what B's bootstrap is about to do
  bootPage,    \* the snapshot page it holds
  bootCursor,  \* last message of the page before
  restarts,    \* restarts of B so far
  confirmed,   \* messages B confirmed and did not forget by restarting
  excused      \* messages B may miss: refused with 503, or published before an empty start

repairVars == <<needed, pass, ordinal, gapPending, gapAgain>>
loopVars == <<loop, item, tries>>
queueVars == <<queue, queuedBytes>>
senderVars == <<accepted, pub, rpc, queueVars, loopVars, repairVars, late>>
histories == <<confirmed, excused>>
bootVars == <<boot, bootPage, bootCursor, restarts>>
vars == <<intakeVars, senderVars, server, bootVars, histories>>

Loop == {}
Requesters == {Loop} \cup OnePeer \cup Available
Nobody == <<>>

OriginCache == (1..accepted) \ expired

Init ==
  /\ IntakeInit
  /\ accepted = 0 /\ pub = [b \in Batches |-> "new"]
  /\ rpc = [r \in Requesters |-> "none"]
  /\ queue = <<>> /\ queuedBytes = 0
  /\ loop = "idle" /\ item = {} /\ tries = 0
  /\ needed = FALSE /\ pass = "none" /\ ordinal = 0
  /\ gapPending = FALSE /\ gapAgain = FALSE
  /\ late = {} /\ server = Nobody
  /\ boot = "up" /\ bootPage = {} /\ bootCursor = 0 /\ restarts = 0
  /\ confirmed = {} /\ excused = {}

-----------------------------------------------------------------------------
(* A's publications.                                                        *)

\* Everything but A's handlers, its queue and its peer loop.
OthersUnchanged == UNCHANGED <<intakeVars, server, bootVars>>

HighWater == Max({1, (QueueBytes * 3) \div 4})

\* waitReplicationAdmission reserved at B.
Reserve(b) ==
  /\ op = "idle" /\ b \in Local /\ pub[b] = "new"
  /\ \/ queuedBytes + Cardinality(b) <= HighWater
     \/ queuedBytes = 0 /\ Cardinality(b) <= QueueBytes
  /\ pub' = [pub EXCEPT ![b] = "reserved"]
  /\ queuedBytes' = queuedBytes + Cardinality(b)
  /\ UNCHANGED <<accepted, rpc, queue, loopVars, repairVars, late, histories>>
  /\ OthersUnchanged

\* accept or acceptBatch: the publication takes its sequence numbers.
Sequenced(b) ==
  /\ op = "idle" /\ accepted + 1 \in b /\ \A m \in b : m > accepted
  /\ accepted' = Max(b)

\* A local publication that reserved at B, or at C.
AcceptLocal(b) ==
  /\ b \in Local /\ Sequenced(b)
  /\ \/ pub[b] = "reserved" /\ pub' = [pub EXCEPT ![b] = "queueing"]
     \/ pub[b] = "new" /\ pub' = [pub EXCEPT ![b] = "offering"]
  /\ UNCHANGED <<rpc, queueVars, loopVars, repairVars, late, histories>>
  /\ OthersUnchanged

\* No copy at B: available queues it, one-peer does when C confirmed its own, and answers 503
\* without queueing it when nobody did.
NoCopy(b) ==
  \/ pub' = [pub EXCEPT ![b] = "offering"] /\ UNCHANGED excused
  \/ b \in OnePeer /\ pub' = [pub EXCEPT ![b] = "done"] /\ excused' = excused \cup b

\* replicateOne or replicateAvailable sends a copy, unless no slot is free or B is in its cooldown.
AcceptCopied(b) ==
  /\ b \notin Local /\ pub[b] = "new" /\ Sequenced(b)
  /\ \/ /\ pub' = [pub EXCEPT ![b] = "copying"] /\ rpc' = [rpc EXCEPT ![b] = "sent"]
        /\ UNCHANGED excused
     \/ NoCopy(b) /\ UNCHANGED rpc
  /\ UNCHANGED <<queueVars, loopVars, repairVars, late, confirmed>>
  /\ OthersUnchanged

\* A reserved publication is refused: the reservation is released, the client may publish again.
AcceptRefused(b) ==
  /\ op = "idle" /\ pub[b] = "reserved"
  /\ pub' = [pub EXCEPT ![b] = "new"] /\ queuedBytes' = queuedBytes - Cardinality(b)
  /\ UNCHANGED <<accepted, rpc, queue, loopVars, repairVars, late, histories>>
  /\ OthersUnchanged

\* enqueuePeerBatch at the reserved peer waits for room in the channel.
Enqueue(b) ==
  /\ op = "idle" /\ pub[b] = "queueing" /\ Len(queue) < QueueDepth
  /\ queue' = Append(queue, b) /\ pub' = [pub EXCEPT ![b] = "done"]
  /\ UNCHANGED <<accepted, rpc, queuedBytes, loopVars, repairVars, late, histories>>
  /\ OthersUnchanged

\* Mutant: a copy that does not fit is dropped and no repair is asked for.
DropSilently == UNCHANGED <<needed, pass>>

\* A new repairVersion; a pass under way does not cover it.
Bump == needed' = TRUE /\ pass' = IF pass = "fresh" THEN "stale" ELSE pass

\* enqueuePeerBatchExcept at a peer that holds no reservation: queued or dropped.
Offer(b) ==
  /\ op = "idle" /\ pub[b] = "offering"
  /\ pub' = [pub EXCEPT ![b] = "done"]
  /\ \/ /\ queuedBytes + Cardinality(b) <= QueueBytes /\ Len(queue) < QueueDepth
        /\ queue' = Append(queue, b) /\ queuedBytes' = queuedBytes + Cardinality(b)
        /\ UNCHANGED <<needed, pass>>
     \/ /\ queuedBytes + Cardinality(b) > QueueBytes \/ Len(queue) >= QueueDepth
        /\ Bump
        /\ UNCHANGED queueVars
  /\ UNCHANGED <<accepted, rpc, loopVars, ordinal, gapPending, gapAgain, late, histories>>
  /\ OthersUnchanged

\* sendPeerBody read a 204: the gap header asks for a check.
Heard(r) ==
  /\ rpc[r] \in {"ok", "gap"}
  /\ rpc' = [rpc EXCEPT ![r] = "none"]
  /\ gapPending' = (gapPending \/ rpc[r] = "gap")
  /\ gapAgain' = (gapAgain \/ (rpc[r] = "gap" /\ loop \in {"asking", "quiet", "stalled"}))

CopyOk(b) ==
  /\ op = "idle" /\ pub[b] = "copying" /\ Heard(b)
  /\ pub' = [pub EXCEPT ![b] = "done"]
  /\ UNCHANGED <<accepted, queueVars, loopVars, needed, pass, ordinal, late, histories>>
  /\ OthersUnchanged

Body(r) == IF r = Loop THEN item ELSE r
IsPage(r) == r = Loop /\ loop = "page"

\* An error, or a timeout after which B may still handle the request.
Failed(r) ==
  /\ rpc[r] # "none"
  /\ \/ late' = late
     \/ /\ rpc[r] = "sent" /\ restarts + Cardinality(late) < MaxFaults
        /\ late' = late \cup {<<IsPage(r), Body(r)>>}

CopyFailed(b) ==
  /\ op = "idle" /\ pub[b] = "copying" /\ Failed(b)
  /\ NoCopy(b) /\ rpc' = [rpc EXCEPT ![b] = "none"]
  /\ UNCHANGED <<accepted, queueVars, loopVars, repairVars, confirmed>>
  /\ OthersUnchanged

-----------------------------------------------------------------------------
(* peerLoop: the queue, and on its ticker the repair.                       *)

Take ==
  /\ op = "idle" /\ loop = "idle" /\ queue # <<>>
  /\ loop' = "push" /\ item' = Head(queue) /\ queue' = Tail(queue) /\ tries' = 1
  /\ rpc' = [rpc EXCEPT ![Loop] = "sent"]
  /\ UNCHANGED <<accepted, pub, queuedBytes, repairVars, late, histories>>
  /\ OthersUnchanged

\* The loop is done with its batch or page and gives the memory back.
LoopIdle(bytes) ==
  /\ loop' = "idle" /\ item' = {} /\ tries' = 0
  /\ queuedBytes' = queuedBytes - bytes

PushOk ==
  /\ op = "idle" /\ loop = "push" /\ Heard(Loop)
  /\ LoopIdle(Cardinality(item))
  /\ UNCHANGED <<accepted, pub, queue, needed, pass, ordinal, late, histories>>
  /\ OthersUnchanged

PushRetry ==
  /\ op = "idle" /\ loop = "push" /\ Failed(Loop) /\ tries < MaxTries
  /\ tries' = tries + 1 /\ rpc' = [rpc EXCEPT ![Loop] = "sent"]
  /\ UNCHANGED <<accepted, pub, queueVars, loop, item, repairVars, histories>>
  /\ OthersUnchanged

\* Mutant: the failed batch keeps its memory.
PushDroppedCharged ==
  /\ op = "idle" /\ loop = "push" /\ Failed(Loop) /\ tries = MaxTries
  /\ rpc' = [rpc EXCEPT ![Loop] = "none"]
  /\ LoopIdle(0) /\ Bump
  /\ UNCHANGED <<accepted, pub, queue, ordinal, gapPending, gapAgain, histories>>
  /\ OthersUnchanged

PushDropped ==
  /\ op = "idle" /\ loop = "push" /\ Failed(Loop) /\ tries = MaxTries
  /\ rpc' = [rpc EXCEPT ![Loop] = "none"]
  /\ LoopIdle(Cardinality(item)) /\ Bump
  /\ UNCHANGED <<accepted, pub, queue, ordinal, gapPending, gapAgain, histories>>
  /\ OthersUnchanged

\* checkPeerGap asks B before it starts a pass for a gap.
Ask ==
  /\ op = "idle" /\ loop = "idle" /\ ~needed /\ gapPending
  /\ loop' = "asking" /\ gapAgain' = FALSE
  /\ UNCHANGED <<accepted, pub, rpc, queueVars, item, tries, needed, pass, ordinal, gapPending,
                 late, histories>>
  /\ OthersUnchanged

\* peerCapabilities: a gap counts once it has stalled for a second.
AskServed ==
  /\ op = "idle" /\ loop = "asking"
  /\ loop' = IF reorder = {} THEN "quiet" ELSE "stalled"
  /\ UNCHANGED <<accepted, pub, rpc, queueVars, item, tries, repairVars, late, histories>>
  /\ OthersUnchanged

\* Timed out, or the gap has not stalled yet: asked again on a later tick.
AskAgain ==
  /\ op = "idle" /\ loop \in {"asking", "quiet", "stalled"}
  /\ loop' = "idle" /\ gapAgain' = FALSE
  /\ UNCHANGED <<accepted, pub, rpc, queueVars, item, tries, needed, pass, ordinal, gapPending,
                 late, histories>>
  /\ OthersUnchanged

AskQuiet ==
  /\ op = "idle" /\ loop = "quiet"
  /\ loop' = "idle" /\ gapPending' = gapAgain /\ gapAgain' = FALSE
  /\ UNCHANGED <<accepted, pub, rpc, queueVars, item, tries, needed, pass, ordinal, late, histories>>
  /\ OthersUnchanged

AskStalled ==
  /\ op = "idle" /\ loop = "stalled"
  /\ loop' = "repair" /\ gapPending' = gapAgain /\ gapAgain' = FALSE /\ Bump
  /\ UNCHANGED <<accepted, pub, rpc, queueVars, item, tries, ordinal, late, histories>>
  /\ OthersUnchanged

\* A repair step begins: the pass is pinned to the version it will complete.
PassStarted == IF pass = "none" THEN "fresh" ELSE pass

Repairing == op = "idle" /\ (loop = "repair" \/ (loop = "idle" /\ needed))

\* The page does not fit in the queue's memory: the step ends, the pass stays.
PageDeferred ==
  /\ Repairing /\ queuedBytes + PageBytes > QueueBytes
  /\ loop' = "idle" /\ pass' = PassStarted
  /\ UNCHANGED <<accepted, pub, rpc, queueVars, item, tries, needed, ordinal, gapPending, gapAgain,
                 late, histories>>
  /\ OthersUnchanged

\* The next PageBytes messages in insertion order.
RepairPage ==
  LET rest == {m \in OriginCache : m > ordinal} IN
  {m \in rest : Cardinality({n \in rest : n < m}) < PageBytes}

PageSent ==
  /\ Repairing /\ queuedBytes + PageBytes <= QueueBytes /\ RepairPage # {}
  /\ loop' = "page" /\ item' = RepairPage /\ pass' = PassStarted
  /\ queuedBytes' = queuedBytes + PageBytes
  /\ rpc' = [rpc EXCEPT ![Loop] = "sent"]
  /\ UNCHANGED <<accepted, pub, queue, tries, needed, ordinal, gapPending, gapAgain, late, histories>>
  /\ OthersUnchanged

PageOk ==
  /\ op = "idle" /\ loop = "page" /\ rpc[Loop] = "ok"
  /\ rpc' = [rpc EXCEPT ![Loop] = "none"] /\ ordinal' = Max(item)
  /\ LoopIdle(PageBytes)
  /\ UNCHANGED <<accepted, pub, queue, needed, pass, gapPending, gapAgain, late, histories>>
  /\ OthersUnchanged

PageFailed ==
  /\ op = "idle" /\ loop = "page" /\ Failed(Loop)
  /\ rpc' = [rpc EXCEPT ![Loop] = "none"]
  /\ LoopIdle(PageBytes)
  /\ UNCHANGED <<accepted, pub, queue, repairVars, histories>>
  /\ OthersUnchanged

\* The walk reached the end: the version it started with is complete.
PassDone ==
  /\ Repairing /\ queuedBytes + PageBytes <= QueueBytes /\ RepairPage = {}
  /\ needed' = (PassStarted = "stale") /\ pass' = "none" /\ ordinal' = 0 /\ loop' = "idle"
  /\ UNCHANGED <<accepted, pub, rpc, queueVars, item, tries, gapPending, gapAgain, late, histories>>
  /\ OthersUnchanged

-----------------------------------------------------------------------------
(* B handles requests: the replicate handler.                               *)

Handle(page, L) ==
  IF page THEN Repair(L) \/ RepairRefused(L) ELSE Replicate(L)

\* What the handler may have found live: messages that expired since are not filtered out.
FoundLive(S) == {S \ UNION B : B \in SUBSET {b \in Batches : b \subseteq expired}}

Serve(r) ==
  /\ rpc[r] = "sent" /\ \E L \in FoundLive(Body(r)) : Handle(IsPage(r), L)
  /\ server' = <<r>>
  /\ UNCHANGED <<senderVars, bootVars, histories>>

ServeLate ==
  /\ \E z \in late :
       /\ \E L \in FoundLive(z[2]) : Handle(z[1], L)
       /\ late' = late \ {z}
  /\ UNCHANGED <<accepted, pub, rpc, queueVars, loopVars, repairVars, server, bootVars, histories>>

\* The request goes on, one message at a time.
Work ==
  /\ \/ \E m \in todo : LookMissing(m) \/ LookDuplicate(m) \/ LookAhead(m) \/ LookNext(m)
     \/ Promote
     \/ PromoteExpired
     \/ PromoteRefused
     \/ BatchDone
     \/ Drain
     \/ DrainDone
  /\ UNCHANGED <<senderVars, server, bootVars, histories>>

\* A batch that left messages buffered looks at the buffer again before it answers.
Finish ==
  /\ op \in {"accepted", "refused"} /\ op' = "idle" /\ live' = {} /\ fromGap' = FALSE
  /\ server' = Nobody
  /\ IF server = Nobody
     THEN UNCHANGED <<rpc, confirmed>>
     ELSE LET r == server[1]
              answer == IF op = "refused" THEN "failed"
                        ELSE IF IsPage(r) \/ live \cap reorder = {} THEN "ok" ELSE "looking" IN
          /\ rpc' = [rpc EXCEPT ![r] = answer]
          /\ confirmed' = IF answer = "ok" THEN confirmed \cup Body(r) ELSE confirmed
  /\ UNCHANGED <<expired, cache, frontier, buffer, gapMark, todo, cur, accepted, pub,
                 queueVars, loopVars, repairVars, late, bootVars, excused>>

Reply(r) ==
  /\ op = "idle" /\ rpc[r] = "looking"
  /\ rpc' = [rpc EXCEPT ![r] = IF Body(r) \cap reorder = {} THEN "ok" ELSE "gap"]
  /\ confirmed' = confirmed \cup Body(r)
  /\ UNCHANGED <<intakeVars, accepted, pub, queueVars, loopVars, repairVars, late, server,
                 bootVars, excused>>

-----------------------------------------------------------------------------
(* B restarts with nothing and bootstraps from A's snapshot while it serves *)
(* requests: SyncFromPeers, called by main until it succeeds.               *)

\* Requests B was handling are lost with the process.
Reset ==
  /\ Forget
  /\ rpc' = [r \in Requesters |-> IF rpc[r] = "looking" THEN "failed" ELSE rpc[r]]
  /\ late' = {} /\ confirmed' = {}
  /\ boot' = "fetch" /\ bootPage' = {} /\ bootCursor' = 0
  /\ UNCHANGED <<accepted, pub, queueVars, loopVars, repairVars, server, excused>>

Restart ==
  /\ op = "idle" /\ restarts < MaxFaults
  /\ restarts' = restarts + 1 /\ Reset

\* cache.page: the messages after the cursor; 204 when there is none.
BootFetch ==
  /\ op = "idle" /\ boot = "fetch" /\ bootCursor \notin expired
  /\ LET rest == {m \in OriginCache : m > bootCursor} IN
       IF rest = {} THEN boot' = "up" /\ bootCursor' = 0 /\ UNCHANGED bootPage
       ELSE /\ boot' = "accept" /\ UNCHANGED bootCursor
            /\ bootPage' = {m \in rest : Cardinality({n \in rest : n < m}) < PageBytes}
  /\ UNCHANGED <<intakeVars, senderVars, server, restarts, histories>>

BootAccept ==
  /\ boot = "accept" /\ Bootstrap(bootPage)
  /\ boot' = "fetch" /\ bootCursor' = Max(bootPage) /\ bootPage' = {}
  /\ UNCHANGED <<senderVars, server, restarts, histories>>

\* Refused page, expired cursor or failed request: the process exits and starts again.
BootExit ==
  /\ op = "idle" /\ boot # "up"
  /\ boot = "accept" \/ bootCursor # 0
  /\ Reset /\ UNCHANGED restarts

\* A could not be reached before the deadline: B starts with an empty cache.
BootEmpty ==
  /\ op = "idle" /\ boot = "fetch" /\ bootCursor = 0
  /\ boot' = "up" /\ excused' = excused \cup 1..accepted
  /\ UNCHANGED <<intakeVars, senderVars, server, bootPage, bootCursor, restarts, confirmed>>

-----------------------------------------------------------------------------

TimePasses ==
  /\ \/ \E b \in Batches : (\A m \in b : m <= accepted) /\ Expire(b)
     \/ ExpireMetadata
  /\ UNCHANGED <<senderVars, server, bootVars, histories>>

Publishing ==
  \E b \in Batches :
    \/ Reserve(b) \/ AcceptLocal(b) \/ AcceptCopied(b) \/ AcceptRefused(b)
    \/ Enqueue(b) \/ Offer(b) \/ CopyOk(b) \/ CopyFailed(b)

Looping ==
  \/ Take \/ PushOk \/ PushRetry \/ PushDropped
  \/ Ask \/ AskServed
  \/ AskAgain \/ AskQuiet \/ AskStalled
  \/ PageDeferred \/ PageSent \/ PageOk \/ PageFailed \/ PassDone

Serving == (\E r \in Requesters : Serve(r) \/ Reply(r)) \/ ServeLate \/ Work \/ Finish

Booting == Restart \/ BootFetch \/ BootAccept \/ BootExit \/ BootEmpty

Next == Publishing \/ Looping \/ Serving \/ Booting \/ TimePasses

Spec == Init /\ [][Next]_vars

-----------------------------------------------------------------------------

\* The values every variable ranges over.
TypeOK ==
  /\ {cache, reorder, recorded, live, todo, gapMark, expired, confirmed, excused,
      item, bootPage} \subseteq SUBSET Messages
  /\ {through, reorderBytes, queuedBytes, accepted, ordinal, bootCursor} \subseteq Nat
  /\ cur \in Messages \cup {0} /\ fromGap \in BOOLEAN /\ op \in Ops
  /\ pub \in [Batches -> {"new", "reserved", "queueing", "offering", "copying", "done"}]
  /\ rpc \in [Requesters -> {"none", "sent", "looking", "ok", "gap", "failed"}]
  /\ loop \in {"idle", "push", "asking", "quiet", "stalled", "repair", "page"}
  /\ queue \in Seq(Batches) /\ Len(queue) <= QueueDepth /\ tries \in 0..MaxTries
  /\ {needed, gapPending, gapAgain} \subseteq BOOLEAN /\ pass \in {"none", "fresh", "stale"}
  /\ late \subseteq BOOLEAN \X SUBSET Messages
  /\ server \in {Nobody} \cup {<<r>> : r \in Requesters}
  /\ boot \in {"up", "fetch", "accept"} /\ restarts \in 0..MaxFaults

\* acceptReplicatedBatch, acceptBatchLocked: a replica that serves never shows a message while an
\* earlier one is live and absent, whatever the order, loss or lateness of copies, repair pages and
\* bootstrap; only a message A excused may be missing.
NoLiveHole ==
  boot = "up" =>
    \A n \in cache : \A k \in 1..(n - 1) : k \in cache \cup expired \cup excused

\* replicate: what B answered with 204 stays cached or buffered until it expires or B restarts.
ConfirmedHeld ==
  op = "idle" => confirmed \subseteq cache \cup reorder \cup expired

\* markUnsafeLocked "gap:": while a live message waits behind a gap the topic's cursors are unsafe.
GapMarked ==
  op = "idle" /\ reorder \ expired # {} => ~ (gapMark \subseteq expired)

\* reorderBytes is what the buffer holds, and the distinct messages held fit in maxBytes.
ReplicaLedger ==
  /\ reorderBytes = Cardinality(reorder)
  /\ Cardinality(cache \cup reorder) <= CacheMax

\* peer.queuedBytes is exactly the reservations, the queue and what peerLoop holds, and never
\* exceeds ReplicationQueueBytes.
QueueLedger ==
  /\ queuedBytes =
       SumFunctionOnSet([b \in Batches |-> Cardinality(b)],
                        {b \in Batches : pub[b] \in {"reserved", "queueing"}})
       + SumFunctionOnSet([i \in 1..Len(queue) |-> Cardinality(queue[i])], 1..Len(queue))
       + (IF loop = "push" THEN Cardinality(item) ELSE IF loop = "page" THEN PageBytes ELSE 0)
  /\ queuedBytes <= QueueBytes

\* A has nothing left to do for B.
Settled ==
  /\ op = "idle" /\ boot = "up" /\ loop = "idle" /\ queue = <<>> /\ ~needed /\ ~gapPending
  /\ \A b \in Batches : pub[b] \in {"new", "reserved", "done"}

\* When nothing is queued, in flight, due for repair or reported as a gap, B has every live message:
\* no interleaving of drops, retries, late requests, repair passes and a restart loses one for good.
SettledComplete ==
  Settled => 1..accepted \subseteq cache \cup expired \cup excused

\* The cache's logical bytes are bounded: cached and buffered copies together fit in maxBytes.
MemoryBounded == Cardinality(cache) + reorderBytes <= CacheMax
=============================================================================
