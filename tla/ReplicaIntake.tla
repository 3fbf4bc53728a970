---------------------------- MODULE ReplicaIntake ----------------------------
(***************************************************************************)
(* The receiving side of replication: acceptReplicatedBatch, a repair page *)
(* through acceptBatchLocked, drainContiguousLocked, the receive frontier, *)
(* the reorder buffer and the marks that make a topic's cursors unsafe.    *)
(*                                                                         *)
(* One topic and one origin, so a message is its sequence number.  Every   *)
(* message counts one unit of memory; other origins share cache, buffer    *)
(* and group memory, so each may be full at any time.  A request holds     *)
(* cache.mu from Replicate or Repair until its reply is taken; its work is *)
(* split into one step per message because group memory may run out at any *)
(* of them.                                                                *)
(*                                                                         *)
(* Time is the set of messages whose ExpiresAt has passed; the messages of *)
(* one publication share it.  expireLocked starts every request, so the    *)
(* cache never shows an expired message.  A deadline kept as the maximum   *)
(* of several ExpiresAt is the set of those messages: it has passed when   *)
(* all of them have expired.                                               *)
(***************************************************************************)
EXTENDS Integers, FiniteSets, FiniteSetsExt

CONSTANTS
  Batches,     \* publications of the origin: sets of consecutive sequence numbers
  CacheMax,    \* maxBytes
  ReorderMax   \* maxBytes/4 and reorderLimit

Messages == UNION Batches

ASSUME IntakeTyped ==
  /\ IsFiniteSet(Batches)
  /\ \A b \in Batches :
       /\ IsFiniteSet(b) /\ b # {} /\ b \subseteq Nat \ {0}
       /\ \A m, n \in b : m..n \subseteq b
  /\ CacheMax \in Nat /\ ReorderMax \in Nat

VARIABLES
  expired,      \* messages whose ExpiresAt has passed
  cache,        \* cache.items of this origin
  through,      \* receivedThrough
  recorded,     \* receivedUntil: messages recorded since the frontier was created
  reorder,      \* reorder buffer of this origin
  reorderBytes, \* cache.reorderBytes
  gapMark,      \* unsafe "gap:": messages whose ExpiresAt it covers
  op,           \* the request that holds cache.mu
  live,         \* its messages that were live when it arrived
  todo,         \* those it has not looked at
  cur,          \* the message it is about to promote, or 0
  fromGap       \* cur was taken out of the reorder buffer

frontier == <<through, recorded>>
buffer == <<reorder, reorderBytes>>
request == <<op, live, todo, cur, fromGap>>
intakeVars == <<expired, cache, frontier, buffer, gapMark, request>>

\* A request that gave cache.mu back has been accepted or refused.
Ops == {"idle", "batch", "drain", "accepted", "refused"}

IntakeInit ==
  /\ expired = {} /\ cache = {} /\ through = 0 /\ recorded = {}
  /\ reorder = {} /\ reorderBytes = 0 /\ gapMark = {}
  /\ op = "idle" /\ live = {} /\ todo = {} /\ cur = 0 /\ fromGap = FALSE

Up(a, b) == IF a >= b THEN a ELSE b

\* Mutant: the mark is cleared with the first buffered message that leaves.
ClearGapEarly(rest, mark) == {}

\* The gap mark is cleared with the last buffered message.
ClearGap(rest, mark) == IF rest = {} THEN {} ELSE mark

-----------------------------------------------------------------------------
(* /internal/replicate: acceptReplicatedBatch.                              *)

\* Messages the batch would add to memory.
Added(L) == {m \in L : m \notin cache /\ m \notin reorder /\ m > through}

Fits(n) == Cardinality(cache) + reorderBytes + n <= CacheMax

\* L is what the handler found live before it had the lock; it may have expired since.
Replicate(L) ==
  /\ op = "idle" /\ live' = L
  /\ \/ Fits(Cardinality(Added(L))) /\ op' = "batch" /\ todo' = L
     \/ op' = "refused" /\ todo' = {}
  /\ UNCHANGED <<expired, cache, frontier, buffer, gapMark, cur, fromGap>>

\* The next message of the batch, in sequence order.
Looking(m) == op = "batch" /\ cur = 0 /\ m \in todo /\ \A n \in todo : m <= n

Refuse == op' = "refused" /\ todo' = {} /\ cur' = 0

\* Below the frontier, gone and still live: only a repair can bring it back.
LookMissing(m) ==
  /\ Looking(m) /\ m <= through /\ m \notin cache /\ m \notin expired
  /\ Refuse
  /\ UNCHANGED <<expired, cache, frontier, buffer, gapMark, live, fromGap>>

\* A duplicate; the retry of a refused batch continues with what was buffered behind it.
LookDuplicate(m) ==
  /\ Looking(m) /\ m <= through /\ (m \in cache \/ m \in expired)
  /\ todo' = todo \ {m}
  /\ LET next == reorder \cap {through + 1} IN
       /\ cur' = (IF next = {} THEN 0 ELSE through + 1)
       /\ fromGap' = (next # {})
       /\ reorder' = reorder \ next /\ reorderBytes' = reorderBytes - Cardinality(next)
  /\ UNCHANGED <<expired, cache, frontier, gapMark, op, live>>

\* Mutant: a copy that does not follow the frontier is taken as if it did.
LookAheadAnyway(m) ==
  /\ Looking(m) /\ m > through + 1
  /\ todo' = todo \ {m} /\ cur' = m /\ fromGap' = FALSE
  /\ UNCHANGED <<expired, cache, frontier, buffer, gapMark, op, live>>

\* Ahead of the frontier: buffered, unless it already is or the buffer is full.
LookAhead(m) ==
  /\ Looking(m) /\ m > through + 1
  /\ \/ /\ m \in reorder
        /\ todo' = todo \ {m}
        /\ UNCHANGED <<buffer, gapMark, op, cur>>
     \/ /\ m \notin reorder /\ Cardinality(reorder) < ReorderMax
        /\ todo' = todo \ {m}
        /\ reorder' = reorder \cup {m} /\ reorderBytes' = reorderBytes + 1
        /\ gapMark' = gapMark \cup {m}
        /\ UNCHANGED <<op, cur>>
     \/ /\ m \notin reorder
        /\ Refuse
        /\ UNCHANGED <<buffer, gapMark>>
  /\ UNCHANGED <<expired, cache, frontier, live, fromGap>>

LookNext(m) ==
  /\ Looking(m) /\ m = through + 1
  /\ todo' = todo \ {m} /\ cur' = m /\ fromGap' = FALSE
  /\ UNCHANGED <<expired, cache, frontier, buffer, gapMark, op, live>>

\* Mutant: the successor is taken out of the buffer and its memory not given back.
SuccessorCharged(m) ==
  LET next == reorder \cap {m + 1} IN
  /\ cur' = (IF next = {} THEN 0 ELSE m + 1)
  /\ fromGap' = (next # {})
  /\ reorder' = reorder \ next /\ UNCHANGED reorderBytes
  /\ gapMark' = ClearGap(reorder \ next, gapMark)

\* The loop goes on with the buffered successor of the message just handled.
Successor(m) ==
  LET next == reorder \cap {m + 1} IN
  /\ cur' = (IF next = {} THEN 0 ELSE m + 1)
  /\ fromGap' = (next # {})
  /\ reorder' = reorder \ next /\ reorderBytes' = reorderBytes - Cardinality(next)
  /\ gapMark' = ClearGap(reorder \ next, gapMark)

Promote ==
  /\ op = "batch" /\ cur # 0 /\ cur \notin expired
  /\ cache' = cache \cup {cur}
  /\ through' = Up(through, cur) /\ recorded' = recorded \cup {cur}
  /\ Successor(cur)
  /\ UNCHANGED <<expired, op, live, todo>>

\* An expired message uses its sequence number up; its deadline is not recorded.
PromoteExpired ==
  /\ op = "batch" /\ cur # 0 /\ cur \in expired
  /\ through' = Up(through, cur)
  /\ LET rest == reorder \ {cur}  next == rest \cap {cur + 1} IN
       /\ cur' = (IF next = {} THEN 0 ELSE cur + 1) /\ fromGap' = (next # {})
       /\ reorder' = rest \ next
       /\ reorderBytes' = reorderBytes - Cardinality(reorder \cap {cur, cur + 1})
       /\ gapMark' = ClearGap(rest, gapMark)
  /\ UNCHANGED <<expired, cache, recorded, op, live, todo>>

\* Mutant: what was taken out of the buffer is forgotten when group memory is full.
PromoteDropped ==
  /\ op = "batch" /\ cur # 0 /\ cur \notin expired
  /\ Refuse
  /\ UNCHANGED <<expired, cache, frontier, buffer, gapMark, live, fromGap>>

\* Group memory is full: the request fails, a buffered message goes back.
PromoteRefused ==
  /\ op = "batch" /\ cur # 0 /\ cur \notin expired
  /\ Refuse
  /\ reorder' = (IF fromGap THEN reorder \cup {cur} ELSE reorder)
  /\ reorderBytes' = (IF fromGap THEN reorderBytes + 1 ELSE reorderBytes)
  /\ gapMark' = (IF fromGap THEN gapMark \cup {cur} ELSE gapMark)
  /\ UNCHANGED <<expired, cache, frontier, live, fromGap>>

BatchDone ==
  /\ op = "batch" /\ cur = 0 /\ todo = {}
  /\ op' = "accepted"
  /\ UNCHANGED <<expired, cache, frontier, buffer, gapMark, live, todo, cur, fromGap>>

-----------------------------------------------------------------------------
(* /internal/repair: acceptBatchLocked(live, true), all or nothing, then    *)
(* drainContiguousLocked.                                                   *)

RepairAdded(L) == {m \in L : m \notin cache /\ m \notin reorder}

RepairRefused(L) ==
  /\ op = "idle"
  /\ op' = "refused" /\ live' = L
  /\ UNCHANGED <<expired, cache, frontier, buffer, gapMark, todo, cur, fromGap>>

Repair(L) ==
  /\ op = "idle" /\ Fits(Cardinality(RepairAdded(L)))
  /\ op' = "drain" /\ live' = L
  /\ reorder' = reorder \ L
  /\ reorderBytes' = reorderBytes - Cardinality(reorder \cap L)
  /\ gapMark' = ClearGap(reorder \ L, gapMark)
  /\ cache' = cache \cup (L \ expired)
  /\ recorded' = recorded \cup (L \ cache)
  /\ through' = Max({through} \cup (L \ cache))
  /\ UNCHANGED <<expired, todo, cur, fromGap>>

\* A bootstrap page, acceptBatchLocked(messages, false): buffered copies stay buffered.
Bootstrap(L) ==
  /\ op = "idle" /\ Fits(Cardinality(L \ cache))
  /\ op' = "drain" /\ live' = L
  /\ cache' = cache \cup (L \ expired)
  /\ recorded' = recorded \cup (L \ cache)
  /\ through' = Max({through} \cup (L \ cache))
  /\ UNCHANGED <<expired, buffer, gapMark, todo, cur, fromGap>>

\* One turn of the loop; full group memory leaves the rest buffered without an error.
Drain ==
  /\ op = "drain" /\ through + 1 \in reorder
  /\ LET m == through + 1 IN
       /\ reorder' = reorder \ {m} /\ reorderBytes' = reorderBytes - 1
       /\ gapMark' = ClearGap(reorder \ {m}, gapMark)
       /\ through' = m /\ recorded' = recorded \cup {m}
       /\ cache' = IF m \in expired THEN cache ELSE cache \cup {m}
  /\ UNCHANGED <<expired, request>>

DrainDone ==
  /\ op = "drain"
  /\ op' = "accepted"
  /\ UNCHANGED <<expired, cache, frontier, buffer, gapMark, live, todo, cur, fromGap>>

-----------------------------------------------------------------------------
(* Everything is in memory: a restarted process knows nothing.              *)

Forget ==
  /\ cache' = {} /\ through' = 0 /\ recorded' = {}
  /\ reorder' = {} /\ reorderBytes' = 0 /\ gapMark' = {}
  /\ op' = "idle" /\ live' = {} /\ todo' = {} /\ cur' = 0 /\ fromGap' = FALSE
  /\ UNCHANGED expired

-----------------------------------------------------------------------------
(* Time, and expireLocked's turn over the metadata (at most once a second). *)

Expire(b) ==
  /\ op = "idle" /\ b \cap expired = {}
  /\ expired' = expired \cup b /\ cache' = cache \ b
  /\ UNCHANGED <<frontier, buffer, gapMark, request>>

\* The frontier is forgotten with the history it describes; expired copies leave the buffer.
ExpireMetadata ==
  /\ op = "idle"
  /\ LET forget == recorded # {} /\ recorded \subseteq expired /\ reorder = {} IN
       /\ through' = (IF forget THEN 0 ELSE through)
       /\ recorded' = (IF forget THEN {} ELSE recorded)
  /\ reorder' = reorder \ expired
  /\ reorderBytes' = reorderBytes - Cardinality(reorder \cap expired)
  /\ gapMark' = ClearGap(reorder \ expired, gapMark)
  /\ UNCHANGED <<expired, cache, request>>
=============================================================================
