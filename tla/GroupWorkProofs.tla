--------------------------- MODULE GroupWorkProofs ---------------------------
(* Theorems about GroupWork, for every value of its constants.              *)
EXTENDS GroupWork, FiniteSetTheorems, TLAPS

USE DEF vars, cacheVars, laneVars, sendVars, memVars, drainVars

\* The head a dispatch sends has a member to go to and a fresh delivery identity.
LEMMA HeadTyped ==
  ASSUME TypeOK, NEW Gone, NEW e \in Heads(Gone)
  PROVE  /\ e[1] \in Groups /\ e[2] \in Messages
         /\ e[1] \in groups /\ e = <<e[1], e[2]>>
         /\ Target(e[1], e[2]) \in Members(e[1])
         /\ FreshToken(e[1], e[2]) \in Tokens \ UsedTokens(e[1], e[2])
         /\ Id(e) \in Ids /\ Sent(e) \in Deliveries
<1>1. /\ e[1] \in Groups /\ e[2] \in Messages /\ e[1] \in groups /\ e = <<e[1], e[2]>>
      /\ Best(e[1], e[2]) # {} /\ Tokens \ UsedTokens(e[1], e[2]) # {}
  BY DEF Heads, TypeOK
<1>2. Target(e[1], e[2]) \in Best(e[1], e[2])
  BY <1>1 DEF Target
<1>3. Target(e[1], e[2]) \in Members(e[1]) /\ Target(e[1], e[2]) \in Subs
  BY <1>2 DEF Best, Members
<1>4. FreshToken(e[1], e[2]) \in Tokens \ UsedTokens(e[1], e[2])
  BY <1>1 DEF FreshToken
<1>5. Id(e) \in Ids /\ Sent(e) \in Deliveries
  BY <1>1, <1>3, <1>4 DEF Id, Sent, Ids, Deliveries
<1> QED BY <1>1, <1>3, <1>4, <1>5

-----------------------------------------------------------------------------
(* Sizes are natural numbers: every set that is counted is finite.          *)

\* There are finitely many delivery records, so pending deliveries can be counted.
LEMMA DeliveriesFinite == IsFiniteSet(Deliveries)
<1> DEFINE P == (Groups \X Messages) \X (Tokens \X Subs)
           f == [d \in Deliveries |-> <<<<d.grp, d.msg>>, <<d.tok, d.sub>>>>]
<1>1. IsFiniteSet(P)
  <2>1. IsFiniteSet(Groups \X Messages) /\ IsFiniteSet(Tokens \X Subs)
    BY FiniteInstance, FS_Product
  <2> QED BY <2>1, FS_Product
<1>2. f \in [Deliveries -> P]
  BY DEF Deliveries
<1>3. ASSUME NEW d1 \in Deliveries, NEW d2 \in Deliveries, f[d1] = f[d2]
      PROVE  d1 = d2
  <2>1. /\ f[d1] = <<<<d1.grp, d1.msg>>, <<d1.tok, d1.sub>>>>
        /\ f[d2] = <<<<d2.grp, d2.msg>>, <<d2.tok, d2.sub>>>>
    OBVIOUS
  <2>2. d1.grp = d2.grp /\ d1.msg = d2.msg /\ d1.tok = d2.tok /\ d1.sub = d2.sub
    BY <1>3, <2>1
  <2> QED BY <2>2 DEF Deliveries
<1>4. f \in Injection(Deliveries, P)
  BY <1>2, <1>3 DEF Injection, IsInjective
<1> QED BY <1>1, <1>4, FS_Injection

\* The sets that the byte counters stand for have a size.
LEMMA Sizes ==
  /\ \A S : S \subseteq Messages => IsFiniteSet(S) /\ Cardinality(S) \in Nat
  /\ \A S : S \subseteq Groups => Cardinality(S) \in Nat
  /\ \A S : S \subseteq Groups \X Messages => IsFiniteSet(S) /\ Cardinality(S) \in Nat
  /\ \A S : S \subseteq Deliveries => Cardinality(S) \in Nat
<1>1. \A S, T : IsFiniteSet(T) /\ S \subseteq T => IsFiniteSet(S) /\ Cardinality(S) \in Nat
  BY FS_Subset, FS_CardinalityType
<1>2. IsFiniteSet(Groups \X Messages)
  BY FiniteInstance, FS_Product
<1> QED BY <1>1, <1>2, FiniteInstance, DeliveriesFinite

-----------------------------------------------------------------------------
(* Type correctness.                                                        *)

\* prepareGroupWork keeps the types of the lanes and of the memory counters.
LEMMA PrepareTyped ==
  ASSUME TypeOK, NEW S, S \subseteq Messages, NEW rank, PrepareGroupWork(S, rank)
  PROVE  /\ work' \in [Groups -> SUBSET Messages]
         /\ ahead' \in [Groups -> [Messages -> SUBSET Messages]]
         /\ delivery' \in [Groups -> [Messages -> Tokens \cup {NoToken}]]
         /\ streamMem' \in Int /\ groupMem' \in Int
<1>1. \A g \in Groups : Missing(g, S) \subseteq Messages
  BY DEF Missing
<1>2. work' \in [Groups -> SUBSET Messages]
  BY <1>1 DEF PrepareGroupWork, TypeOK
<1>3. ahead' \in [Groups -> [Messages -> SUBSET Messages]]
  BY <1>1 DEF PrepareGroupWork, TypeOK, SameLane
<1>4. delivery' \in [Groups -> [Messages -> Tokens \cup {NoToken}]]
  BY DEF PrepareGroupWork, TypeOK
<1>5. IndexCharge(S) \in Int
  <2>1. {e \in Groups \X S : e[2] \in Missing(e[1], S)} \subseteq Groups \X Messages
    OBVIOUS
  <2>2. Cardinality({e \in Groups \X S : e[2] \in Missing(e[1], S)}) \in Nat
    BY <2>1, Sizes
  <2> QED BY <2>2, LimitsTyped DEF IndexCharge
<1> QED BY <1>2, <1>3, <1>4, <1>5 DEF PrepareGroupWork, TypeOK

\* sendDeliveryLocked creates typed deliveries and keeps the windows integers.
LEMMA SendTyped ==
  ASSUME TypeOK, NEW Gone, NEW E \in SUBSET Heads(Gone), SendDeliveries(E)
  PROVE  /\ pending' \subseteq Deliveries /\ pendingBytes' \in Int
         /\ due' \subseteq pending' /\ seen' \subseteq pending'
         /\ inflight' \in [Subs -> Int] /\ chan' \in [Subs -> SUBSET Ids]
<1>1. E \subseteq Groups \X Messages
  BY HeadTyped
<1>2. Cardinality(E) \in Nat /\ \A s \in Subs : Cardinality(SentTo(E, s)) \in Nat
  BY <1>1, Sizes DEF SentTo
<1>3. \A e \in E : Sent(e) \in Deliveries /\ Id(e) \in Ids
  BY HeadTyped
<1>4. pending' \subseteq Deliveries /\ due' \subseteq pending' /\ seen' \subseteq pending'
  BY <1>3 DEF SendDeliveries, TypeOK
<1>5. chan' \in [Subs -> SUBSET Ids]
  BY <1>3 DEF SendDeliveries, TypeOK, SentTo
<1>6. pendingBytes' \in Int /\ inflight' \in [Subs -> Int]
  BY <1>2 DEF SendDeliveries, TypeOK
<1> QED BY <1>4, <1>5, <1>6

\* Recording a dispatched delivery on its head keeps the delivery field typed.
LEMMA MarkTyped ==
  ASSUME TypeOK, NEW Gone, NEW E \in SUBSET Heads(Gone), NEW Out, MarkDelivery(E, Out)
  PROVE  delivery' \in [Groups -> [Messages -> Tokens \cup {NoToken}]]
<1>1. \A g \in Groups, m \in Messages : <<g, m>> \in E => FreshToken(g, m) \in Tokens
  BY HeadTyped
<1> QED BY <1>1 DEF MarkDelivery, TypeOK

\* removeGroupWorkLocked keeps the lanes typed and returns an integer charge.
LEMMA UnlinkTyped ==
  ASSUME TypeOK, NEW Gone
  PROVE  /\ Unlinked(Gone) \in [Groups -> [Messages -> SUBSET Messages]]
         /\ GoneCharge(Gone) \in Int
<1>1. Cardinality({e \in Groups \X Messages : e[2] \in Gone[e[1]]}) \in Nat
  BY Sizes
<1>2. GoneCharge(Gone) \in Int
  BY <1>1, LimitsTyped DEF GoneCharge
<1>3. Unlinked(Gone) \in [Groups -> [Messages -> SUBSET Messages]]
  BY DEF Unlinked, TypeOK
<1> QED BY <1>2, <1>3

\* putCheckpointLocked keeps the types of the lanes, the checkpoints and the counters.
LEMMA PutTyped ==
  ASSUME TypeOK, NEW g \in Groups, NEW m \in Messages, PutCheckpoint(g, m)
  PROVE  /\ work' \in [Groups -> SUBSET Messages]
         /\ ahead' \in [Groups -> [Messages -> SUBSET Messages]]
         /\ delivery' \in [Groups -> [Messages -> Tokens \cup {NoToken}]]
         /\ streamMem' \in Int /\ groupMem' \in Int
         /\ ckpt' \subseteq Groups \X Messages
         /\ done' \in [Groups -> SUBSET Messages]
<1>1. CASE m \in expired \/ <<g, m>> \in ckpt
  BY <1>1 DEF PutCheckpoint, TypeOK
<1>2. CASE m \notin expired /\ <<g, m>> \notin ckpt
  <2>1. /\ ckpt' \in Retained(g, m)
        /\ work' = [work EXCEPT ![g] = @ \ {m}]
        /\ ahead' = Unlinked(Only(g, m))
        /\ MarkDelivery({}, Only(g, m))
        /\ streamMem' = streamMem - GoneCharge(Only(g, m))
        /\ groupMem' = groupMem - GoneCharge(Only(g, m))
        /\ done' = [done EXCEPT ![g] = @ \cup {m}]
    BY <1>2 DEF PutCheckpoint
  <2>2. ckpt' \subseteq Groups \X Messages
    BY <2>1 DEF Retained, Evicted, Compacted, TypeOK
  <2>3. delivery' \in [Groups -> [Messages -> Tokens \cup {NoToken}]]
    BY <2>1 DEF MarkDelivery, TypeOK
  <2>4. /\ ahead' \in [Groups -> [Messages -> SUBSET Messages]]
        /\ GoneCharge(Only(g, m)) \in Int
    BY <2>1, UnlinkTyped
  <2>5. work' \in [Groups -> SUBSET Messages] /\ done' \in [Groups -> SUBSET Messages]
    BY <2>1 DEF TypeOK
  <2>6. streamMem' \in Int /\ groupMem' \in Int
    BY <2>1, <2>4 DEF TypeOK
  <2> QED BY <2>2, <2>3, <2>4, <2>5, <2>6
<1> QED BY <1>1, <1>2

\* Giving window bytes back keeps both windows integers.
LEMMA ReleasedTyped ==
  ASSUME TypeOK, NEW D, D \subseteq Deliveries, Released(D)
  PROVE  pendingBytes' \in Int /\ inflight' \in [Subs -> Int]
<1>1. Cardinality(D) \in Nat /\ \A s \in Subs : Cardinality({p \in D : p.sub = s}) \in Nat
  BY Sizes
<1>2. pendingBytes \in Int /\ \A s \in Subs : inflight[s] \in Int
  BY DEF TypeOK
<1>3. pendingBytes' = pendingBytes - Cardinality(D)
  BY DEF Released
<1>4. inflight' = [s \in Subs |-> IF stream[s] = "open" THEN inflight[s] - Cardinality({p \in D : p.sub = s})
                                ELSE inflight[s]]
  BY DEF Released
<1>5. \A s \in Subs : inflight[s] - Cardinality({p \in D : p.sub = s}) \in Int
  BY ONLY <1>1, <1>2
<1>6. inflight' \in [Subs -> Int]
  BY ONLY <1>2, <1>4, <1>5
<1> QED BY ONLY <1>1, <1>2, <1>3, <1>6

\* Every step of the scheduler keeps the types.
LEMMA TypeStep == TypeOK /\ [Next]_vars => TypeOK'
<1> SUFFICES ASSUME TypeOK, [Next]_vars PROVE TypeOK'
  OBVIOUS
<1>1. ASSUME NEW S \in Batches, NEW rank \in Rankings(S), AcceptBatch(S, rank)
      PROVE  TypeOK'
  <2>1. S \subseteq Messages
    BY DEF Batches
  <2>2. NewIn(S) \subseteq Messages /\ Cardinality(NewIn(S)) \in Nat
        /\ \A m \in Messages : Cardinality({x \in NewIn(S) : rank[x] <= rank[m]}) \in Nat
    BY <2>1, Sizes DEF NewIn
  <2>3. ordinal' \in [Messages -> Nat] /\ lastOrdinal' \in Nat
    BY <1>1, <2>2 DEF AcceptBatch, TypeOK
  <2>4. PrepareGroupWork(S, rank)
    BY <1>1 DEF AcceptBatch
  <2>5. cached' \subseteq Messages /\ accepting' \subseteq Messages
    BY <1>1, <2>1, <2>2 DEF AcceptBatch, ExpireLocked, TypeOK
  <2> QED BY <1>1, <2>1, <2>3, <2>4, <2>5, PrepareTyped DEF AcceptBatch, TypeOK
<1>2. ASSUME NEW S \in Batches, AcceptReject(S) PROVE TypeOK'
  BY <1>2 DEF AcceptReject, ExpireLocked, TypeOK
<1>3. ASSUME NEW m \in accepting, AcceptIndex(m) PROVE TypeOK'
  <2>1. {m} \subseteq Messages
    BY DEF TypeOK
  <2>2. CASE PrepareGroupWork({m}, ordinal)
    BY <1>3, <2>1, <2>2, PrepareTyped DEF AcceptIndex, TypeOK
  <2>3. CASE UNCHANGED <<laneVars, memVars>>
    BY <1>3, <2>3 DEF AcceptIndex, TypeOK
  <2> QED BY <1>3, <2>2, <2>3 DEF AcceptIndex
<1>4. ASSUME NEW m \in accepting, AcceptDispatch(m) PROVE TypeOK'
  <2>1. PICK E \in SUBSET Heads(NoneGone) : SendDeliveries(E) /\ MarkDelivery(E, NoneGone)
    BY <1>4 DEF AcceptDispatch, Dispatched
  <2>2. delivery' \in [Groups -> [Messages -> Tokens \cup {NoToken}]]
    BY <2>1, MarkTyped
  <2> QED BY <1>4, <2>1, <2>2, SendTyped DEF AcceptDispatch, TypeOK
<1>5. ASSUME NEW s \in Subs, SubscribeReserve(s) PROVE TypeOK'
  BY <1>5, LimitsTyped DEF SubscribeReserve, TypeOK, StreamStates
<1>6. ASSUME NEW s \in Subs, SubscribeRegister(s) PROVE TypeOK'
  <2>1. stream' \in [Subs -> StreamStates]
    BY <1>6 DEF SubscribeRegister, TypeOK, StreamStates
  <2>2. groups' \subseteq Groups /\ cached' \subseteq Messages
    BY <1>6, ConstantsTyped DEF SubscribeRegister, TypeOK, ExpireLocked
  <2>3. streamMem' \in Int /\ groupMem' \in Int
    BY <1>6, LimitsTyped DEF SubscribeRegister, TypeOK
  <2> QED BY <1>6, <2>1, <2>2, <2>3 DEF SubscribeRegister, TypeOK
<1>7. ASSUME NEW s \in Subs, SubscribeRefuse(s) PROVE TypeOK'
  BY <1>7, LimitsTyped DEF SubscribeRefuse, TypeOK, StreamStates, ExpireLocked
<1>8. ASSUME NEW s \in Subs, SubscribeFinish(s) PROVE TypeOK'
  <2>1. PrepareGroupWork(cached, ordinal) /\ cached \subseteq Messages
    BY <1>8 DEF SubscribeFinish, TypeOK
  <2>2. stream' \in [Subs -> StreamStates]
    BY <1>8 DEF SubscribeFinish, TypeOK, StreamStates
  <2>3. cancelled' \subseteq Subs
    BY <1>8 DEF SubscribeFinish, TypeOK, Members
  <2> QED BY <1>8, <2>1, <2>2, <2>3, PrepareTyped DEF SubscribeFinish, TypeOK
<1>9. ASSUME NEW s \in Subs, SubscribeOverflow(s) PROVE TypeOK'
  BY <1>9, LimitsTyped DEF SubscribeOverflow, TypeOK, StreamStates
<1>10. ASSUME NEW s \in Subs, NEW d \in chan[s], WriteFrame(s, d) PROVE TypeOK'
  BY <1>10 DEF WriteFrame, TypeOK
<1>11. ASSUME NEW s \in Subs, StreamExit(s) PROVE TypeOK'
  BY <1>11, LimitsTyped DEF StreamExit, TypeOK, StreamStates
<1>12. ASSUME NEW p \in pending, Ack(p) PROVE TypeOK'
  <2>1. p.grp \in Groups /\ p.msg \in Messages /\ {p} \subseteq Deliveries
    BY DEF TypeOK, Deliveries
  <2>2. PutCheckpoint(p.grp, p.msg) /\ Released({p})
    BY <1>12 DEF Ack
  <2> QED BY <1>12, <2>1, <2>2, PutTyped, ReleasedTyped DEF Ack, TypeOK
<1>13. ASSUME NEW g \in Groups, NEW m \in Messages, PeerCheckpoint(g, m) PROVE TypeOK'
  BY <1>13, PutTyped DEF PeerCheckpoint, TypeOK
<1>14. ASSUME NEW p \in pending, BecomesDue(p) PROVE TypeOK'
  BY <1>14 DEF BecomesDue, TypeOK
<1>15. CASE ExpireCache
  BY <1>15 DEF ExpireCache, TypeOK, ExpireLocked
<1>16. CASE MaintenancePop
  <2>1. due \subseteq Deliveries
    BY DEF TypeOK
  <2>2. pendingBytes' \in Int /\ inflight' \in [Subs -> Int]
    BY <1>16, <2>1, ReleasedTyped DEF MaintenancePop
  <2> QED BY <1>16, <2>1, <2>2 DEF MaintenancePop, TypeOK, Compacted
<1>17. ASSUME NEW p \in popped, RetryGroup(p) PROVE TypeOK'
  <2>1. p.grp \in Groups /\ p.msg \in Messages
    BY DEF TypeOK, Deliveries
  <2> QED BY <1>17, <2>1 DEF RetryGroup, TypeOK
<1>18. ASSUME NEW cleanup \in BOOLEAN, GroupLoop(cleanup) PROVE TypeOK'
  <2> DEFINE Gone == Swept(cleanup)
  <2>1. PICK E \in SUBSET Heads(Gone) : SendDeliveries(E) /\ MarkDelivery(E, Gone)
    BY <1>18 DEF GroupLoop, Dispatched
  <2>2. delivery' \in [Groups -> [Messages -> Tokens \cup {NoToken}]]
    BY <2>1, MarkTyped
  <2>3. Cardinality(IdleGroups(Gone)) \in Nat
    BY Sizes DEF IdleGroups, TypeOK
  <2>4. streamMem' \in Int /\ groupMem' \in Int
    BY <1>18, <2>3, UnlinkTyped, LimitsTyped DEF GroupLoop, TypeOK
  <2>5. /\ work' \in [Groups -> SUBSET Messages]
        /\ ahead' \in [Groups -> [Messages -> SUBSET Messages]]
        /\ groups' \subseteq Groups
    BY <1>18, UnlinkTyped DEF GroupLoop, TypeOK
  <2> QED BY <1>18, <2>1, <2>2, <2>4, <2>5, SendTyped DEF GroupLoop, TypeOK
<1>19. ASSUME NEW m \in Messages, Expire(m) PROVE TypeOK'
  BY <1>19 DEF Expire, TypeOK
<1>20. CASE DrainStart \/ DrainSweep
  BY <1>20 DEF DrainStart, DrainSweep, TypeOK
<1>21. CASE UNCHANGED vars
  BY <1>21 DEF TypeOK
<1> QED
  BY <1>1, <1>2, <1>3, <1>4, <1>5, <1>6, <1>7, <1>8, <1>9, <1>10, <1>11, <1>12, <1>13,
     <1>14, <1>15, <1>16, <1>17, <1>18, <1>19, <1>20, <1>21 DEF Next, Nack, Deadline

\* Type correctness: in every reachable state of the scheduler, for any number of
\* messages, groups and streams, each variable has the type of the Go field it models.
THEOREM Typing == Spec => []TypeOK
<1>1. ASSUME Init PROVE TypeOK
  <2>1. stream \in [Subs -> StreamStates]
    BY <1>1 DEF Init, StreamStates
  <2>2. /\ ordinal \in [Messages -> Nat] /\ lastOrdinal \in Nat
        /\ inflight \in [Subs -> Int] /\ pendingBytes \in Int
        /\ streamMem \in Int /\ groupMem \in Int
    BY <1>1 DEF Init
  <2>3. /\ work \in [Groups -> SUBSET Messages]
        /\ ahead \in [Groups -> [Messages -> SUBSET Messages]]
        /\ delivery \in [Groups -> [Messages -> Tokens \cup {NoToken}]]
        /\ chan \in [Subs -> SUBSET Ids] /\ done \in [Groups -> SUBSET Messages]
    BY <1>1 DEF Init
  <2>4. indexed \in BOOLEAN /\ draining \in BOOLEAN /\ swept \in BOOLEAN
    BY <1>1 DEF Init
  <2>5. /\ expired \subseteq Messages /\ cached \subseteq Messages /\ accepting \subseteq Messages
        /\ groups \subseteq Groups /\ ckpt \subseteq Groups \X Messages
        /\ cancelled \subseteq Subs /\ pending \subseteq Deliveries
        /\ due \subseteq pending /\ seen \subseteq pending /\ popped \subseteq Deliveries
    BY <1>1 DEF Init
  <2> QED BY <2>1, <2>2, <2>3, <2>4, <2>5 DEF TypeOK
<1> QED BY <1>1, TypeStep, PTL DEF Spec

-----------------------------------------------------------------------------
(* Acceptance order.  Lanes are total orders because the positions that     *)
(* messages are indexed in, batch positions and ordinals, are distinct.     *)

OrdinalOrder ==
  /\ \A m \in Messages : ordinal[m] <= lastOrdinal
  /\ \A m \in cached : ordinal[m] > 0
  /\ \A x, y \in Messages : x # y /\ ordinal[x] = ordinal[y] => ordinal[x] = 0

\* A message later in a batch has more messages at or before it.
LEMMA RankCount ==
  ASSUME NEW N, IsFiniteSet(N), NEW rank, \A x \in N : rank[x] \in Nat,
         NEW x \in N, NEW y \in N, rank[x] < rank[y]
  PROVE  Cardinality({z \in N : rank[z] <= rank[x]}) < Cardinality({z \in N : rank[z] <= rank[y]})
<1> DEFINE A == {z \in N : rank[z] <= rank[x]}
           B == {z \in N : rank[z] <= rank[y]}
<1>1. A \in SUBSET B /\ y \in B /\ y \notin A
  OBVIOUS
<1>2. IsFiniteSet(B)
  BY FS_Subset
<1>3. Cardinality(A) <= Cardinality(B) /\ (Cardinality(B) = Cardinality(A) => B = A)
  BY <1>1, <1>2, FS_Subset
<1>4. Cardinality(A) \in Nat /\ Cardinality(B) \in Nat
  BY <1>1, <1>2, FS_Subset, FS_CardinalityType
<1> QED BY <1>1, <1>3, <1>4

\* A batch gives its new messages fresh, distinct repair ordinals in batch order.
LEMMA AcceptOrdinals ==
  ASSUME TypeOK, OrdinalOrder,
         NEW S \in Batches, NEW rank \in Rankings(S), AcceptBatch(S, rank)
  PROVE  OrdinalOrder'
<1> DEFINE N == NewIn(S)
           below(m) == {x \in N : rank[x] <= rank[m]}
<1>1. S \subseteq Messages /\ N \subseteq S /\ IsFiniteSet(N) /\ Cardinality(N) \in Nat
  BY Sizes DEF Batches, NewIn
<1>2. /\ \A x \in S : rank[x] \in Nat
      /\ \A x, y \in S : x # y => rank[x] # rank[y]
  <2>1. IsFiniteSet(S) /\ Cardinality(S) \in Nat
    BY <1>1, Sizes
  <2> QED BY <2>1 DEF Rankings
<1>3. /\ ordinal' = [m \in Messages |->
            IF m \in N THEN lastOrdinal + Cardinality(below(m)) ELSE ordinal[m]]
      /\ lastOrdinal' = lastOrdinal + Cardinality(N)
      /\ cached' = ExpireLocked \cup S
      /\ \A m \in N : ordinal[m] = 0
  BY DEF AcceptBatch, CanOffer, NewIn
<1>4. ASSUME NEW m \in N
      PROVE  /\ Cardinality(below(m)) \in Nat /\ Cardinality(below(m)) > 0
             /\ Cardinality(below(m)) <= Cardinality(N)
  <2>1. below(m) \in SUBSET N /\ m \in below(m)
    BY <1>1, <1>2
  <2>2. IsFiniteSet(below(m)) /\ Cardinality(below(m)) <= Cardinality(N)
    BY <1>1, <2>1, FS_Subset
  <2>3. Cardinality(below(m)) \in Nat /\ Cardinality(below(m)) # 0
    BY <2>1, <2>2, FS_CardinalityType, FS_EmptySet
  <2> QED BY <2>2, <2>3
<1>5. ASSUME NEW x \in N, NEW y \in N, x # y
      PROVE  Cardinality(below(x)) # Cardinality(below(y))
  <2>1. rank[x] < rank[y] \/ rank[y] < rank[x]
    BY <1>1, <1>2, <1>5
  <2>2. \A z \in N : rank[z] \in Nat
    BY <1>1, <1>2
  <2>3. CASE rank[x] < rank[y]
    <3>1. Cardinality(below(x)) < Cardinality(below(y))
      BY <1>1, <2>2, <2>3, RankCount
    <3> QED BY <3>1, <1>4
  <2>4. CASE rank[y] < rank[x]
    <3>1. Cardinality(below(y)) < Cardinality(below(x))
      BY <1>1, <2>2, <2>4, RankCount
    <3> QED BY <3>1, <1>4
  <2> QED BY <2>1, <2>3, <2>4
<1> HIDE DEF N, below
<1>6. \A m \in Messages : ordinal'[m] <= lastOrdinal'
  BY <1>1, <1>3, <1>4 DEF OrdinalOrder, TypeOK
<1>7. \A m \in cached' : ordinal'[m] > 0
  <2>1. \A m \in cached' : m \in N \/ m \in cached
    BY <1>3 DEF N, NewIn, ExpireLocked
  <2> QED BY <1>1, <1>3, <1>4, <2>1 DEF OrdinalOrder, TypeOK
<1>8. ASSUME NEW x \in Messages, NEW y \in Messages, x # y, ordinal'[x] = ordinal'[y]
      PROVE  ordinal'[x] = 0
  <2>1. CASE x \in N /\ y \in N
    <3>1. /\ ordinal'[x] = lastOrdinal + Cardinality(below(x))
          /\ ordinal'[y] = lastOrdinal + Cardinality(below(y))
      BY <1>3, <2>1
    <3>2. Cardinality(below(x)) \in Nat /\ Cardinality(below(y)) \in Nat
      BY <1>4, <2>1
    <3>3. Cardinality(below(x)) # Cardinality(below(y))
      BY <1>5, <1>8, <2>1
    <3>4. lastOrdinal \in Nat
      BY DEF TypeOK
    <3> HIDE DEF below
    <3>5. lastOrdinal + Cardinality(below(x)) # lastOrdinal + Cardinality(below(y))
      BY <3>2, <3>3, <3>4
    <3> QED BY <1>8, <3>1, <3>5
  <2>2. CASE x \in N /\ y \notin N
    BY <1>3, <1>4, <1>8, <2>2 DEF OrdinalOrder, TypeOK
  <2>3. CASE x \notin N /\ y \in N
    BY <1>3, <1>4, <1>8, <2>3 DEF OrdinalOrder, TypeOK
  <2>4. CASE x \notin N /\ y \notin N
    BY <1>3, <1>8, <2>4 DEF OrdinalOrder, TypeOK
  <2> QED BY <2>1, <2>2, <2>3, <2>4
<1> QED BY <1>6, <1>7, <1>8 DEF OrdinalOrder

\* No step repeats a repair ordinal: only acceptance assigns them.
LEMMA OrdinalStep == TypeOK /\ OrdinalOrder /\ [Next]_vars => OrdinalOrder'
<1> SUFFICES ASSUME TypeOK, OrdinalOrder, [Next]_vars PROVE OrdinalOrder'
  OBVIOUS
<1>1. CASE \E S \in Batches : \E rank \in Rankings(S) : AcceptBatch(S, rank)
  BY <1>1, AcceptOrdinals
<1>2. CASE UNCHANGED <<ordinal, lastOrdinal>> /\ cached' \subseteq cached
  BY <1>2 DEF OrdinalOrder
<1>3. CASE UNCHANGED vars
  BY <1>2, <1>3
<1>4. CASE Next
  BY <1>1, <1>2, <1>4
     DEF Next, AcceptReject, AcceptIndex, AcceptDispatch, SubscribeReserve,
         SubscribeRegister, SubscribeRefuse, SubscribeFinish, SubscribeOverflow,
         WriteFrame, StreamExit, Ack, Nack, Deadline, BecomesDue, PeerCheckpoint,
         ExpireCache, MaintenancePop, RetryGroup, GroupLoop, Expire, DrainStart,
         DrainSweep, ExpireLocked
<1> QED BY <1>3, <1>4

-----------------------------------------------------------------------------
(* Lanes: LaneOrder and KeyGate are preserved by each way to change a lane: *)
(* indexing, unlinking with or without dispatch, completion and retry.      *)

LaneInv == LaneOrder /\ KeyGate

\* Appending new entries at the tails keeps every lane a chain with its gate.
LEMMA PrepareLanes ==
  ASSUME TypeOK, LaneInv, NEW S, S \subseteq Messages, NEW rank,
         \A x \in S : rank[x] \in Nat,
         \A x, y \in S : x # y => rank[x] # rank[y],
         PrepareGroupWork(S, rank)
  PROVE  LaneInv'
<1> SUFFICES ASSUME NEW g \in Groups, NEW m \in work'[g]
             PROVE  /\ ahead'[g][m] \subseteq work'[g] \cap SameLane(m)
                    /\ m \notin ahead'[g][m]
                    /\ \A x \in work'[g] \cap SameLane(m) :
                         x # m => (x \in ahead'[g][m] <=> m \notin ahead'[g][x])
                    /\ \A x \in ahead'[g][m] : ahead'[g][x] \subseteq ahead'[g][m]
                    /\ delivery'[g][m] # NoToken => ahead'[g][m] = {}
  BY DEF LaneInv, LaneOrder, KeyGate, SameLane
<1> DEFINE M == Missing(g, S)
           R(x) == SameLane(x) \cap (work[g] \cup {y \in M : rank[y] < rank[x]})
<1>1. M \subseteq S /\ M \cap work[g] = {} /\ work[g] \subseteq Messages
  BY DEF Missing, TypeOK
<1>2. work'[g] = work[g] \cup M /\ m \in Messages
  BY <1>1 DEF PrepareGroupWork, TypeOK
<1>3. /\ \A x \in M : ahead'[g][x] = R(x) /\ delivery'[g][x] = NoToken
      /\ \A x \in work[g] : ahead'[g][x] = ahead[g][x] /\ delivery'[g][x] = delivery[g][x]
  <2>1. \A x \in Messages : ahead'[g][x] = IF x \in M THEN R(x) ELSE ahead[g][x]
    BY DEF PrepareGroupWork
  <2>2. \A x \in Messages : delivery'[g][x] = IF x \in M THEN NoToken ELSE delivery[g][x]
    BY DEF PrepareGroupWork
  <2> HIDE DEF M, R
  <2> QED BY <1>1, <2>1, <2>2
<1>4. \A x \in work[g] :
        /\ ahead[g][x] \subseteq work[g] \cap SameLane(x) /\ x \notin ahead[g][x]
        /\ \A y \in work[g] \cap SameLane(x) :
             y # x => (y \in ahead[g][x] <=> x \notin ahead[g][y])
        /\ \A y \in ahead[g][x] : ahead[g][y] \subseteq ahead[g][x]
        /\ delivery[g][x] # NoToken => ahead[g][x] = {}
  BY DEF LaneInv, LaneOrder, KeyGate
<1>5. \A x \in M : rank[x] \in Nat /\ \A y \in M : x # y => rank[x] # rank[y]
  BY <1>1
<1> HIDE DEF M
<1>6. CASE m \in work[g]
  BY <1>1, <1>2, <1>3, <1>4, <1>6 DEF SameLane
<1>7. CASE m \in M
  <2>1. ahead'[g][m] \subseteq work'[g] \cap SameLane(m) /\ m \notin ahead'[g][m]
    BY <1>1, <1>2, <1>3, <1>5, <1>7
  <2>2. ASSUME NEW x \in work'[g] \cap SameLane(m), x # m
        PROVE  x \in ahead'[g][m] <=> m \notin ahead'[g][x]
    <3>1. CASE x \in work[g]
      BY <1>1, <1>2, <1>3, <1>4, <1>7, <3>1
    <3>2. CASE x \in M
      BY <1>1, <1>2, <1>3, <1>5, <1>7, <2>2, <3>2 DEF SameLane
    <3> QED BY <1>2, <3>1, <3>2
  <2>3. ASSUME NEW x \in ahead'[g][m] PROVE ahead'[g][x] \subseteq ahead'[g][m]
    <3>1. CASE x \in work[g]
      BY <1>1, <1>3, <1>4, <1>7, <2>3, <3>1 DEF SameLane
    <3>2. CASE x \in M /\ rank[x] < rank[m]
      BY <1>1, <1>3, <1>5, <1>7, <2>3, <3>2 DEF SameLane
    <3> QED BY <1>3, <1>7, <2>3, <3>1, <3>2
  <2> QED BY <1>3, <1>7, <2>1, <2>2, <2>3
<1> QED BY <1>2, <1>6, <1>7

\* Removing entries anywhere, and sending heads of what is left, keeps chain and gate.
LEMMA UnlinkLanes ==
  ASSUME TypeOK, LaneInv, NEW Gone, NEW E \in SUBSET Heads(Gone),
         work' = [g \in Groups |-> work[g] \ Gone[g]], ahead' = Unlinked(Gone),
         MarkDelivery(E, Gone)
  PROVE  LaneInv'
<1> SUFFICES ASSUME NEW g \in Groups, NEW m \in work'[g]
             PROVE  /\ ahead'[g][m] \subseteq work'[g] \cap SameLane(m)
                    /\ m \notin ahead'[g][m]
                    /\ \A x \in work'[g] \cap SameLane(m) :
                         x # m => (x \in ahead'[g][m] <=> m \notin ahead'[g][x])
                    /\ \A x \in ahead'[g][m] : ahead'[g][x] \subseteq ahead'[g][m]
                    /\ delivery'[g][m] # NoToken => ahead'[g][m] = {}
  BY DEF LaneInv, LaneOrder, KeyGate, SameLane
<1>1. work'[g] = work[g] \ Gone[g] /\ work[g] \subseteq Messages /\ m \in Messages
  BY DEF TypeOK
<1>2. \A x \in work'[g] : ahead'[g][x] = ahead[g][x] \ Gone[g]
  BY <1>1 DEF Unlinked
<1>3. delivery'[g][m] = IF <<g, m>> \in E THEN FreshToken(g, m) ELSE delivery[g][m]
  BY <1>1 DEF MarkDelivery
<1>4. <<g, m>> \in E => ahead[g][m] \subseteq Gone[g]
  BY DEF Heads
<1>5. /\ ahead[g][m] \subseteq work[g] \cap SameLane(m) /\ m \notin ahead[g][m]
      /\ \A x \in work[g] \cap SameLane(m) :
           x # m => (x \in ahead[g][m] <=> m \notin ahead[g][x])
      /\ \A x \in ahead[g][m] : ahead[g][x] \subseteq ahead[g][m]
      /\ delivery[g][m] # NoToken => ahead[g][m] = {}
  BY <1>1 DEF LaneInv, LaneOrder, KeyGate
<1> QED BY <1>1, <1>2, <1>3, <1>4, <1>5

\* A completion removes one entry at most and keeps chain and gate.
LEMMA PutLanes ==
  ASSUME TypeOK, LaneInv, NEW g \in Groups, NEW m \in Messages, PutCheckpoint(g, m)
  PROVE  LaneInv'
<1>1. CASE UNCHANGED laneVars
  BY <1>1 DEF LaneInv, LaneOrder, KeyGate, SameLane
<1>2. CASE /\ work' = [work EXCEPT ![g] = @ \ {m}]
           /\ ahead' = Unlinked(Only(g, m)) /\ MarkDelivery({}, Only(g, m))
  <2>1. work' = [h \in Groups |-> work[h] \ Only(g, m)[h]]
    BY <1>2 DEF Only, TypeOK
  <2> QED BY <1>2, <2>1, UnlinkLanes
<1> QED BY <1>1, <1>2 DEF PutCheckpoint

\* Every step keeps every lane a chain whose head alone is outstanding.
LEMMA LaneStep == TypeOK /\ OrdinalOrder /\ LaneInv /\ [Next]_vars => LaneInv'
<1> SUFFICES ASSUME TypeOK, OrdinalOrder, LaneInv, [Next]_vars PROVE LaneInv'
  OBVIOUS
<1>1. ASSUME NEW S \in Batches, NEW rank \in Rankings(S), AcceptBatch(S, rank)
      PROVE  LaneInv'
  <2>1. S \subseteq Messages /\ PrepareGroupWork(S, rank)
    BY <1>1 DEF Batches, AcceptBatch
  <2>2. /\ \A x \in S : rank[x] \in Nat
        /\ \A x, y \in S : x # y => rank[x] # rank[y]
    <3>1. Cardinality(S) \in Nat
      BY <2>1, Sizes
    <3> QED BY <3>1 DEF Rankings
  <2> QED BY <2>1, <2>2, PrepareLanes
<1>2. ASSUME NEW m \in accepting, AcceptIndex(m) PROVE LaneInv'
  <2>1. CASE PrepareGroupWork({m}, ordinal)
    <3>1. {m} \subseteq Messages /\ \A x \in {m} : ordinal[x] \in Nat
      BY DEF TypeOK
    <3> QED BY <2>1, <3>1, PrepareLanes
  <2>2. CASE UNCHANGED laneVars
    BY <2>2 DEF LaneInv, LaneOrder, KeyGate, SameLane
  <2> QED BY <1>2, <2>1, <2>2 DEF AcceptIndex
<1>3. ASSUME NEW m \in accepting, AcceptDispatch(m) PROVE LaneInv'
  <2>1. PICK E \in SUBSET Heads(NoneGone) : MarkDelivery(E, NoneGone)
    BY <1>3 DEF AcceptDispatch, Dispatched
  <2>2. UNCHANGED <<work, ahead>>
    BY <1>3 DEF AcceptDispatch
  <2>3. /\ work = [g \in Groups |-> work[g] \ NoneGone[g]]
        /\ ahead = Unlinked(NoneGone)
    BY DEF NoneGone, Unlinked, TypeOK
  <2> QED BY <2>1, <2>2, <2>3, UnlinkLanes
<1>4. ASSUME NEW s \in Subs, SubscribeFinish(s) PROVE LaneInv'
  <2>1. PrepareGroupWork(cached, ordinal) /\ cached \subseteq Messages
    BY <1>4 DEF SubscribeFinish, TypeOK
  <2>2. /\ \A x \in cached : ordinal[x] \in Nat
        /\ \A x, y \in cached : x # y => ordinal[x] # ordinal[y]
    BY <2>1 DEF OrdinalOrder, TypeOK
  <2> QED BY <2>1, <2>2, PrepareLanes
<1>5. ASSUME NEW g \in Groups, NEW m \in Messages, PutCheckpoint(g, m) PROVE LaneInv'
  BY <1>5, PutLanes
<1>6. ASSUME NEW p \in pending, Ack(p) PROVE LaneInv'
  BY <1>5, <1>6 DEF Ack, TypeOK, Deliveries
<1>7. ASSUME NEW p \in popped, RetryGroup(p) PROVE LaneInv'
  <2>1. /\ UNCHANGED <<work, ahead>>
        /\ \A g \in Groups, m \in Messages :
             delivery'[g][m] # NoToken => delivery[g][m] # NoToken
    BY <1>7 DEF RetryGroup, TypeOK
  <2> QED BY <2>1 DEF LaneInv, LaneOrder, KeyGate, SameLane, TypeOK
<1>8. ASSUME NEW cleanup \in BOOLEAN, GroupLoop(cleanup) PROVE LaneInv'
  <2>1. PICK E \in SUBSET Heads(Swept(cleanup)) : MarkDelivery(E, Swept(cleanup))
    BY <1>8 DEF GroupLoop, Dispatched
  <2>2. /\ work' = [g \in Groups |-> work[g] \ Swept(cleanup)[g]]
        /\ ahead' = Unlinked(Swept(cleanup))
    BY <1>8 DEF GroupLoop
  <2> QED BY <2>1, <2>2, UnlinkLanes
<1>9. CASE UNCHANGED laneVars
  BY <1>9 DEF LaneInv, LaneOrder, KeyGate, SameLane
<1> QED
  BY <1>1, <1>2, <1>3, <1>4, <1>5, <1>6, <1>7, <1>8, <1>9
     DEF Next, AcceptReject, SubscribeReserve, SubscribeRegister, SubscribeRefuse,
         SubscribeOverflow, WriteFrame, StreamExit, Nack, Deadline, BecomesDue,
         PeerCheckpoint, ExpireCache, MaintenancePop, Expire, DrainStart, DrainSweep

\* The lanes stay chains and only the head of a lane is outstanding, for any number of
\* keys, groups and streams: prepareGroupWork, dispatchGroupLocked,
\* removeGroupWorkLocked and retryGroup preserve both.
THEOREM LaneSafety == Spec => [](LaneOrder /\ KeyGate)
<1>1. Init => OrdinalOrder /\ LaneInv
  BY DEF Init, OrdinalOrder, LaneInv, LaneOrder, KeyGate
<1>2. LaneInv => LaneOrder /\ KeyGate
  BY DEF LaneInv
<1> QED BY <1>1, <1>2, Typing, OrdinalStep, LaneStep, PTL DEF Spec

\* Of the queued messages of one key of a group, at most one is outstanding.
THEOREM OneOutstandingPerKey ==
  Spec => [](\A g \in Groups : \A x, y \in work[g] :
               /\ Key[x] = Key[y]
               /\ delivery[g][x] # NoToken /\ delivery[g][y] # NoToken
               => x = y)
<1> DEFINE P == \A g \in Groups : \A x, y \in work[g] :
                  /\ Key[x] = Key[y]
                  /\ delivery[g][x] # NoToken /\ delivery[g][y] # NoToken
                  => x = y
<1>1. TypeOK /\ LaneOrder /\ KeyGate => P
  BY DEF TypeOK, LaneOrder, KeyGate, SameLane
<1> QED BY <1>1, Typing, LaneSafety, PTL

-----------------------------------------------------------------------------
(* Completion: a live checkpoint empties its lane entry, and a delivered    *)
(* head always has someone who will end its delivery.  The second needs the *)
(* first: an ack that finds the checkpoint already present removes only the *)
(* pending delivery.                                                        *)

OwnInv == DeliveryOwned /\ CheckpointDone

\* A new entry has no delivery and no live checkpoint.
LEMMA PrepareOwned ==
  ASSUME TypeOK, OwnInv, NEW S, NEW rank, PrepareGroupWork(S, rank), S \subseteq Messages,
         UNCHANGED <<pending, popped, expired, ckpt>>
  PROVE  OwnInv'
<1> SUFFICES ASSUME NEW g \in Groups, NEW m \in work'[g]
             PROVE  /\ ~(<<g, m>> \in ckpt /\ m \notin expired)
                    /\ delivery'[g][m] # NoToken /\ m \notin expired =>
                         \E p \in pending \cup popped :
                           p.grp = g /\ p.msg = m /\ p.tok = delivery'[g][m]
  BY DEF OwnInv, DeliveryOwned, CheckpointDone, CheckpointActive
<1>1. m \in work[g] \/ m \in Missing(g, S)
  BY DEF PrepareGroupWork
<1>2. m \in Messages
  BY <1>1 DEF TypeOK, Missing
<1>3. delivery'[g][m] = IF m \in Missing(g, S) THEN NoToken ELSE delivery[g][m]
  BY <1>2 DEF PrepareGroupWork
<1>4. CASE m \in Missing(g, S)
  BY <1>3, <1>4 DEF Missing, CheckpointActive
<1>5. CASE m \in work[g] /\ m \notin Missing(g, S)
  BY <1>3, <1>5 DEF OwnInv, DeliveryOwned, CheckpointDone, CheckpointActive
<1> QED BY <1>1, <1>4, <1>5

\* Each head that a dispatch marks gets the pending delivery it is marked with.
LEMMA DispatchOwned ==
  ASSUME TypeOK, OwnInv, NEW Gone, NEW E \in SUBSET Heads(Gone),
         work' = [g \in Groups |-> work[g] \ Gone[g]],
         SendDeliveries(E), MarkDelivery(E, Gone),
         UNCHANGED <<popped, expired, ckpt>>
  PROVE  OwnInv'
<1> SUFFICES ASSUME NEW g \in Groups, NEW m \in work'[g]
             PROVE  /\ ~(<<g, m>> \in ckpt /\ m \notin expired)
                    /\ delivery'[g][m] # NoToken /\ m \notin expired =>
                         \E p \in pending' \cup popped :
                           p.grp = g /\ p.msg = m /\ p.tok = delivery'[g][m]
  BY DEF OwnInv, DeliveryOwned, CheckpointDone, CheckpointActive
<1>1. m \in work[g] /\ m \notin Gone[g] /\ m \in Messages
  BY DEF TypeOK
<1>2. delivery'[g][m] = IF <<g, m>> \in E THEN FreshToken(g, m) ELSE delivery[g][m]
  BY <1>1 DEF MarkDelivery
<1>3. pending \subseteq pending' /\ \A e \in E : Sent(e) \in pending'
  BY DEF SendDeliveries
<1>4. CASE <<g, m>> \in E
  <2>1. Sent(<<g, m>>) \in pending'
    BY <1>3, <1>4
  <2>2. /\ Sent(<<g, m>>).grp = g /\ Sent(<<g, m>>).msg = m
        /\ Sent(<<g, m>>).tok = delivery'[g][m]
    BY <1>2, <1>4 DEF Sent
  <2> QED BY <1>1, <2>1, <2>2 DEF OwnInv, CheckpointDone, CheckpointActive
<1>5. CASE <<g, m>> \notin E
  BY <1>1, <1>2, <1>3, <1>5 DEF OwnInv, DeliveryOwned, CheckpointDone, CheckpointActive
<1> QED BY <1>4, <1>5

\* The completion takes away no pending delivery but those of its message.
LEMMA PutOwned ==
  ASSUME TypeOK, OwnInv, NEW g \in Groups, NEW m \in Messages, PutCheckpoint(g, m),
         \A p \in pending : p \in pending' \/ (p.grp = g /\ p.msg = m),
         UNCHANGED <<popped, expired>>
  PROVE  OwnInv'
<1> SUFFICES ASSUME NEW h \in Groups, NEW x \in work'[h]
             PROVE  /\ ~(<<h, x>> \in ckpt' /\ x \notin expired)
                    /\ delivery'[h][x] # NoToken /\ x \notin expired =>
                         \E p \in pending' \cup popped :
                           p.grp = h /\ p.msg = x /\ p.tok = delivery'[h][x]
  BY DEF OwnInv, DeliveryOwned, CheckpointDone, CheckpointActive
<1>1. CASE (m \in expired \/ <<g, m>> \in ckpt) /\ UNCHANGED <<laneVars, ckpt>>
  <2>1. <<h, x>> # <<g, m>> \/ x \in expired
    BY <1>1 DEF OwnInv, CheckpointDone, CheckpointActive
  <2> QED BY <1>1, <2>1 DEF OwnInv, DeliveryOwned, CheckpointDone, CheckpointActive
<1>2. CASE /\ ckpt' \in Retained(g, m)
           /\ work' = [work EXCEPT ![g] = @ \ {m}]
           /\ MarkDelivery({}, Only(g, m))
  <2>1. ckpt' \subseteq ckpt \cup {<<g, m>>}
    BY <1>2 DEF Retained, Evicted, Compacted
  <2>2. x \in work[h] /\ <<h, x>> # <<g, m>> /\ x \in Messages
    BY <1>2 DEF TypeOK
  <2>3. x \notin Only(g, m)[h]
    BY <2>2 DEF Only
  <2>4. delivery'[h][x] = delivery[h][x]
    BY <1>2, <2>2, <2>3 DEF MarkDelivery
  <2> QED BY <2>1, <2>2, <2>4 DEF OwnInv, DeliveryOwned, CheckpointDone, CheckpointActive
<1> QED BY <1>1, <1>2 DEF PutCheckpoint

\* Every step keeps the owner of each outstanding head and keeps completed work out.
LEMMA OwnStep == TypeOK /\ OwnInv /\ [Next]_vars => OwnInv'
<1> SUFFICES ASSUME TypeOK, OwnInv, [Next]_vars PROVE OwnInv'
  OBVIOUS
<1>1. ASSUME NEW S \in Batches, NEW rank \in Rankings(S), AcceptBatch(S, rank)
      PROVE  OwnInv'
  BY <1>1, PrepareOwned DEF AcceptBatch, Batches
<1>2. CASE UNCHANGED <<laneVars, pending, popped, expired, ckpt>>
  BY <1>2 DEF OwnInv, DeliveryOwned, CheckpointDone, CheckpointActive
<1>3. ASSUME NEW m \in accepting, AcceptIndex(m) PROVE OwnInv'
  <2>1. CASE PrepareGroupWork({m}, ordinal)
    <3>1. {m} \subseteq Messages /\ UNCHANGED <<pending, popped, expired, ckpt>>
      BY <1>3 DEF AcceptIndex, TypeOK
    <3> QED BY <2>1, <3>1, PrepareOwned
  <2> QED BY <1>2, <1>3, <2>1 DEF AcceptIndex
<1>4. ASSUME NEW m \in accepting, AcceptDispatch(m) PROVE OwnInv'
  <2>1. PICK E \in SUBSET Heads(NoneGone) : SendDeliveries(E) /\ MarkDelivery(E, NoneGone)
    BY <1>4 DEF AcceptDispatch, Dispatched
  <2>2. /\ work' = [g \in Groups |-> work[g] \ NoneGone[g]]
        /\ UNCHANGED <<popped, expired, ckpt>>
    BY <1>4 DEF AcceptDispatch, NoneGone, TypeOK
  <2> QED BY <2>1, <2>2, DispatchOwned
<1>5. ASSUME NEW s \in Subs, SubscribeFinish(s) PROVE OwnInv'
  <2>1. /\ PrepareGroupWork(cached, ordinal) /\ cached \subseteq Messages
        /\ UNCHANGED <<pending, popped, expired, ckpt>>
    BY <1>5 DEF SubscribeFinish, TypeOK
  <2> QED BY <2>1, PrepareOwned
<1>6. ASSUME NEW p \in pending, Ack(p) PROVE OwnInv'
  <2>1. p.grp \in Groups /\ p.msg \in Messages
    BY DEF TypeOK, Deliveries
  <2>2. /\ PutCheckpoint(p.grp, p.msg)
        /\ \A x \in pending : x \in pending' \/ (x.grp = p.grp /\ x.msg = p.msg)
        /\ UNCHANGED <<popped, expired>>
    BY <1>6 DEF Ack
  <2> QED BY <2>1, <2>2, PutOwned
<1>7. ASSUME NEW g \in Groups, NEW m \in Messages, PeerCheckpoint(g, m) PROVE OwnInv'
  BY <1>7, PutOwned DEF PeerCheckpoint
<1>8. CASE MaintenancePop
  <2>1. /\ UNCHANGED <<laneVars, expired>> /\ ckpt' \subseteq ckpt
        /\ pending \cup popped \subseteq pending' \cup popped'
    BY <1>8 DEF MaintenancePop, Compacted, TypeOK
  <2> QED BY <2>1 DEF OwnInv, DeliveryOwned, CheckpointDone, CheckpointActive
<1>9. ASSUME NEW p \in popped, RetryGroup(p) PROVE OwnInv'
  <2> SUFFICES ASSUME NEW g \in Groups, NEW m \in work'[g]
               PROVE  /\ ~(<<g, m>> \in ckpt /\ m \notin expired)
                      /\ delivery'[g][m] # NoToken /\ m \notin expired =>
                           \E d \in pending \cup popped' :
                             d.grp = g /\ d.msg = m /\ d.tok = delivery'[g][m]
    BY <1>9 DEF OwnInv, DeliveryOwned, CheckpointDone, CheckpointActive, RetryGroup
  <2>1. /\ p.grp \in Groups /\ p.msg \in Messages /\ m \in work[g] /\ m \in Messages
        /\ popped' = popped \ {p}
    BY <1>9 DEF TypeOK, Deliveries, RetryGroup
  <2>2. delivery'[g][m] = IF g = p.grp /\ m = p.msg /\ delivery[g][m] = p.tok
                          THEN NoToken ELSE delivery[g][m]
    BY <1>9, <2>1 DEF RetryGroup, TypeOK
  <2>3. delivery[g][m] # NoToken /\ m \notin expired =>
          \E d \in pending \cup popped : d.grp = g /\ d.msg = m /\ d.tok = delivery[g][m]
    BY <2>1 DEF OwnInv, DeliveryOwned
  <2>4. ~(<<g, m>> \in ckpt /\ m \notin expired)
    BY <2>1 DEF OwnInv, CheckpointDone, CheckpointActive
  <2> QED BY <2>1, <2>2, <2>3, <2>4
<1>10. ASSUME NEW cleanup \in BOOLEAN, GroupLoop(cleanup) PROVE OwnInv'
  <2>1. PICK E \in SUBSET Heads(Swept(cleanup)) :
          SendDeliveries(E) /\ MarkDelivery(E, Swept(cleanup))
    BY <1>10 DEF GroupLoop, Dispatched
  <2>2. /\ work' = [g \in Groups |-> work[g] \ Swept(cleanup)[g]]
        /\ UNCHANGED <<popped, expired, ckpt>>
    BY <1>10 DEF GroupLoop
  <2> QED BY <2>1, <2>2, DispatchOwned
<1>11. ASSUME NEW m \in Messages, Expire(m) PROVE OwnInv'
  BY <1>11 DEF Expire, OwnInv, DeliveryOwned, CheckpointDone, CheckpointActive
<1> QED
  BY <1>1, <1>2, <1>3, <1>4, <1>5, <1>6, <1>7, <1>8, <1>9, <1>10, <1>11
     DEF Next, AcceptReject, SubscribeReserve, SubscribeRegister, SubscribeRefuse,
         SubscribeOverflow, WriteFrame, StreamExit, Nack, Deadline, BecomesDue,
         ExpireCache, DrainStart, DrainSweep

\* What is outstanding and what is completed stays told apart in every reachable state.
LEMMA OwnInvariant == Spec => []OwnInv
<1>1. Init => OwnInv
  BY DEF Init, OwnInv, DeliveryOwned, CheckpointDone
<1> QED BY <1>1, Typing, OwnStep, PTL DEF Spec

\* No lane is blocked by an orphaned delivery: whatever the order of acks, nacks, timeouts, stream
\* exits, peer checkpoints, checkpoint evictions and late retries, an outstanding head has a
\* delivery that will end.
THEOREM CompletionSafety == Spec => []DeliveryOwned
<1>1. OwnInv => DeliveryOwned
  BY DEF OwnInv
<1> QED BY <1>1, OwnInvariant, PTL

\* A message with a live checkpoint is never queued for that group, whichever of the
\* completion, the join, the duplicate publication and the retry came first.
THEOREM CompletedNotQueued == Spec => []CheckpointDone
<1>1. OwnInv => CheckpointDone
  BY DEF OwnInv
<1> QED BY <1>1, OwnInvariant, PTL

-----------------------------------------------------------------------------
(* Membership: a member's group is registered and has the whole retained    *)
(* backlog that it has not completed.                                       *)

CheckpointsRecorded == \A g \in Groups, m \in Messages : <<g, m>> \in ckpt => m \in done[g]
RegInv == MemberRegistered /\ CheckpointsRecorded /\ BacklogIndexed

\* Indexing a list queues all of it that the group has not completed.
LEMMA PrepareBacklog ==
  ASSUME TypeOK, RegInv, NEW S, S \subseteq Messages, NEW rank, PrepareGroupWork(S, rank),
         UNCHANGED <<expired, groups, ckpt, done>>
  PROVE  /\ \A g \in Groups : work[g] \subseteq work'[g]
         /\ \A g \in groups : \A m \in S \ (expired \cup done[g]) : m \in work'[g]
         /\ \A g \in Groups \ groups : work'[g] = {}
<1>1. \A g \in Groups : work'[g] = work[g] \cup Missing(g, S)
  BY DEF PrepareGroupWork
<1>2. \A g \in groups : \A m \in S \ (expired \cup done[g]) : m \in work[g] \/ m \in Missing(g, S)
  BY DEF Missing, CheckpointActive, RegInv, CheckpointsRecorded, TypeOK
<1>3. \A g \in Groups \ groups : work[g] = {} /\ Missing(g, S) = {}
  BY DEF Missing, RegInv, MemberRegistered
<1>4. groups \subseteq Groups
  BY DEF TypeOK
<1> QED BY <1>1, <1>2, <1>3, <1>4

\* Every step keeps connected groups registered with their whole backlog.
LEMMA RegStep == TypeOK /\ RegInv /\ [Next]_vars => RegInv'
<1> SUFFICES ASSUME TypeOK, RegInv, [Next]_vars PROVE RegInv'
  OBVIOUS
<1> USE ConstantsTyped
<1>1. ASSUME NEW S \in Batches, NEW rank \in Rankings(S), AcceptBatch(S, rank)
      PROVE  RegInv'
  <2>1. /\ S \subseteq Messages /\ PrepareGroupWork(S, rank)
        /\ UNCHANGED <<expired, groups, ckpt, done, stream>>
        /\ cached' \subseteq cached \cup S
    BY <1>1 DEF AcceptBatch, Batches, ExpireLocked
  <2>2. /\ \A g \in Groups : work[g] \subseteq work'[g]
        /\ \A g \in groups : \A m \in S \ (expired \cup done[g]) : m \in work'[g]
        /\ \A g \in Groups \ groups : work'[g] = {}
    BY <2>1, PrepareBacklog
  <2> QED BY <2>1, <2>2
          DEF RegInv, MemberRegistered, CheckpointsRecorded, BacklogIndexed
<1>2. CASE /\ UNCHANGED <<work, expired, groups, ckpt, done>> /\ cached' \subseteq cached
           /\ \A s \in Subs : stream'[s] \in {"joining", "open"} => stream'[s] = stream[s]
  BY <1>2 DEF RegInv, MemberRegistered, CheckpointsRecorded, BacklogIndexed
<1>3. ASSUME NEW m \in accepting, AcceptIndex(m) PROVE RegInv'
  <2>1. {m} \subseteq Messages /\ UNCHANGED <<cached, expired, groups, ckpt, done, stream>>
    BY <1>3 DEF AcceptIndex, TypeOK
  <2>2. CASE PrepareGroupWork({m}, ordinal)
    <3>1. /\ \A g \in Groups : work[g] \subseteq work'[g]
          /\ \A g \in Groups \ groups : work'[g] = {}
      BY <2>1, <2>2, PrepareBacklog
    <3> QED BY <2>1, <3>1
            DEF RegInv, MemberRegistered, CheckpointsRecorded, BacklogIndexed
  <2> QED BY <1>2, <1>3, <2>1, <2>2 DEF AcceptIndex
<1>4. ASSUME NEW s \in Subs, SubscribeFinish(s) PROVE RegInv'
  <2>1. /\ PrepareGroupWork(cached, ordinal) /\ cached \subseteq Messages
        /\ UNCHANGED <<cached, expired, groups, ckpt, done>>
        /\ stream[s] = "joining"
        /\ \A r \in Subs : stream'[r] \in {"joining", "open"} => r = s \/ stream'[r] = stream[r]
    BY <1>4 DEF SubscribeFinish, TypeOK
  <2>2. /\ \A g \in groups : \A m \in cached \ (expired \cup done[g]) : m \in work'[g]
        /\ \A g \in Groups \ groups : work'[g] = {}
    BY <2>1, PrepareBacklog
  <2>3. \A r \in Subs : stream'[r] \in {"joining", "open"} => SubGroup[r] \in groups
    BY <2>1 DEF RegInv, MemberRegistered
  <2> QED BY <2>1, <2>2, <2>3
          DEF RegInv, MemberRegistered, CheckpointsRecorded, BacklogIndexed
<1>5. ASSUME NEW s \in Subs, SubscribeRegister(s) PROVE RegInv'
  <2>1. /\ groups' = groups \cup {SubGroup[s]} /\ cached' \subseteq cached
        /\ UNCHANGED <<work, expired, ckpt, done>>
        /\ stream' = [stream EXCEPT ![s] = "joining"]
    BY <1>5 DEF SubscribeRegister, ExpireLocked
  <2>2. \A r \in Subs : r # s => stream'[r] = stream[r]
    BY <2>1 DEF TypeOK
  <2>3. stream'[s] = "joining"
    BY <2>1 DEF TypeOK
  <2> QED BY <2>1, <2>2, <2>3
          DEF RegInv, MemberRegistered, CheckpointsRecorded, BacklogIndexed
<1>6. ASSUME NEW g \in Groups, NEW m \in Messages, PutCheckpoint(g, m),
             UNCHANGED <<cached, expired, groups, stream>>
      PROVE  RegInv'
  <2>1. CASE UNCHANGED <<work, ckpt, done>>
    BY <1>6, <2>1 DEF RegInv, MemberRegistered, CheckpointsRecorded, BacklogIndexed
  <2>2. CASE /\ ckpt' \in Retained(g, m) /\ work' = [work EXCEPT ![g] = @ \ {m}]
             /\ done' = [done EXCEPT ![g] = @ \cup {m}]
    <3>1. ckpt' \subseteq ckpt \cup {<<g, m>>}
      BY <2>2 DEF Retained, Evicted, Compacted
    <3>2. \A h \in Groups : /\ work'[h] = IF h = g THEN work[g] \ {m} ELSE work[h]
                            /\ done'[h] = IF h = g THEN done[g] \cup {m} ELSE done[h]
      BY <2>2 DEF TypeOK
    <3>3. MemberRegistered' /\ CheckpointsRecorded'
      BY <1>6, <3>1, <3>2 DEF RegInv, MemberRegistered, CheckpointsRecorded
    <3>4. BacklogIndexed'
      BY <1>6, <3>2 DEF RegInv, BacklogIndexed
    <3> QED BY <3>3, <3>4 DEF RegInv
  <2> QED BY <1>6, <2>1, <2>2 DEF PutCheckpoint
<1>7. ASSUME NEW p \in pending, Ack(p) PROVE RegInv'
  BY <1>6, <1>7 DEF Ack, TypeOK, Deliveries
<1>8. ASSUME NEW g \in Groups, NEW m \in Messages, PeerCheckpoint(g, m) PROVE RegInv'
  BY <1>6, <1>8 DEF PeerCheckpoint
<1>9. CASE MaintenancePop
  <2>1. /\ UNCHANGED <<work, expired, groups, done, cached, stream>> /\ ckpt' \subseteq ckpt
    BY <1>9 DEF MaintenancePop, Compacted
  <2> QED BY <2>1 DEF RegInv, MemberRegistered, CheckpointsRecorded, BacklogIndexed
<1>10. ASSUME NEW cleanup \in BOOLEAN, GroupLoop(cleanup) PROVE RegInv'
  <2> DEFINE Gone == Swept(cleanup)
  <2>1. /\ CacheFree /\ work' = [g \in Groups |-> work[g] \ Gone[g]]
        /\ groups' = groups \ IdleGroups(Gone)
        /\ UNCHANGED <<cached, expired, ckpt, done, stream>>
    BY <1>10 DEF GroupLoop
  <2>2. \A g \in Groups : \A m \in work[g] : m \in Gone[g] => m \in expired \cup done[g]
    BY DEF Swept, CheckpointActive, RegInv, CheckpointsRecorded, TypeOK
  <2> HIDE DEF Gone
  <2>3. \A s \in Subs : stream[s] \in {"joining", "open"} => SubGroup[s] \in groups'
    BY <2>1 DEF CacheFree, IdleGroups, Members, RegInv, MemberRegistered
  <2>4. \A g \in Groups \ groups' : work'[g] = {}
    BY <2>1 DEF IdleGroups, RegInv, MemberRegistered
  <2>5. BacklogIndexed'
    BY <2>1, <2>2 DEF RegInv, BacklogIndexed
  <2> QED BY <2>1, <2>3, <2>4, <2>5 DEF RegInv, MemberRegistered, CheckpointsRecorded
<1>11. ASSUME NEW m \in Messages, Expire(m) PROVE RegInv'
  BY <1>11 DEF Expire, RegInv, MemberRegistered, CheckpointsRecorded, BacklogIndexed
<1>12. ASSUME NEW s \in Subs,
              \/ SubscribeReserve(s) \/ SubscribeRefuse(s) \/ SubscribeOverflow(s)
              \/ StreamExit(s)
       PROVE  RegInv'
  BY <1>2, <1>12 DEF SubscribeReserve, SubscribeRefuse, SubscribeOverflow, StreamExit,
                     ExpireLocked, TypeOK
<1> QED
  BY <1>1, <1>2, <1>3, <1>4, <1>5, <1>7, <1>8, <1>9, <1>10, <1>11, <1>12
     DEF Next, AcceptReject, AcceptDispatch, WriteFrame, Nack, Deadline, BecomesDue,
         ExpireCache, RetryGroup, DrainStart, DrainSweep, ExpireLocked

\* A group with a member stays registered, and every retained live message it has not
\* completed is in its lanes, however subscriptions that failed for lack of memory,
\* reclaimed groups, evicted checkpoints and concurrent publications interleave.
THEOREM BacklogSafety == Spec => [](MemberRegistered /\ BacklogIndexed)
<1>1. Init => RegInv
  BY DEF Init, RegInv, MemberRegistered, CheckpointsRecorded, BacklogIndexed
<1>2. RegInv => MemberRegistered /\ BacklogIndexed
  BY DEF RegInv
<1> QED BY <1>1, <1>2, Typing, RegStep, PTL DEF Spec

-----------------------------------------------------------------------------
(* The in-flight windows.  A counter is right because a dispatch sends      *)
(* deliveries that were not pending before, one per head, and because a     *)
(* stream that is not open yet has nothing pending.                         *)

Of(D, s) == {p \in D : p.sub = s}
WindowsStart ==
  \A s \in Subs :
    /\ stream[s] \in {"idle", "reserved", "joining"} => inflight[s] = 0
    /\ stream[s] \in {"reserved", "joining"} => Of(pending, s) = {}
WindowInv == WindowsStart /\ WindowLedger

\* Every set of deliveries, and every part of it, is finite.
LEMMA DeliverySizes ==
  ASSUME NEW D, D \subseteq Deliveries
  PROVE  /\ IsFiniteSet(D) /\ Cardinality(D) \in Nat
         /\ \A s : /\ IsFiniteSet(Of(D, s)) /\ Cardinality(Of(D, s)) \in Nat
                   /\ Of(D, s) \subseteq Deliveries
<1>1. \A S : S \subseteq Deliveries => IsFiniteSet(S) /\ Cardinality(S) \in Nat
  BY DeliveriesFinite, FS_Subset, FS_CardinalityType
<1> QED BY <1>1 DEF Of

\* sendDeliveryLocked makes one new delivery per head: none was pending before.
LEMMA SentCount ==
  ASSUME TypeOK, NEW Gone, NEW F \in SUBSET Heads(Gone)
  PROVE  LET D == {Sent(e) : e \in F} IN
         /\ D \subseteq Deliveries /\ D \cap pending = {}
         /\ IsFiniteSet(F) /\ Cardinality(D) = Cardinality(F)
<1> DEFINE D == {Sent(e) : e \in F}
           f == [e \in F |-> Sent(e)]
<1>1. F \subseteq Groups \X Messages /\ IsFiniteSet(F)
  <2>1. F \subseteq Groups \X Messages
    BY HeadTyped
  <2> QED BY <2>1, Sizes
<1>2. D \subseteq Deliveries
  BY HeadTyped
<1>3. ASSUME NEW e \in F PROVE Sent(e) \notin pending
  <2>1. FreshToken(e[1], e[2]) \notin UsedTokens(e[1], e[2])
    BY HeadTyped
  <2>2. /\ Sent(e).grp = e[1] /\ Sent(e).msg = e[2]
        /\ Sent(e).tok = FreshToken(e[1], e[2])
    BY DEF Sent
  <2>3. Sent(e) \in pending => Sent(e).tok \in UsedTokens(e[1], e[2])
    BY <2>2 DEF UsedTokens
  <2> QED BY <2>1, <2>2, <2>3
<1>4. ASSUME NEW d \in F, NEW e \in F, Sent(d) = Sent(e) PROVE d = e
  <2>1. d = <<d[1], d[2]>> /\ e = <<e[1], e[2]>>
    BY HeadTyped
  <2>2. Sent(d).grp = d[1] /\ Sent(d).msg = d[2] /\ Sent(e).grp = e[1] /\ Sent(e).msg = e[2]
    BY DEF Sent
  <2> QED BY <1>4, <2>1, <2>2
<1>5. f \in Bijection(F, D)
  <2>1. f \in [F -> D]
    OBVIOUS
  <2>2. \A d, e \in F : f[d] = f[e] => d = e
    BY <1>4
  <2>3. \A x \in D : \E e \in F : f[e] = x
    OBVIOUS
  <2> QED BY <2>1, <2>2, <2>3 DEF Bijection, Injection, Surjection, IsInjective
<1>6. Cardinality(D) = Cardinality(F)
  BY <1>1, <1>5, FS_Bijection DEF ExistsBijection
<1> QED BY <1>1, <1>2, <1>3, <1>6

\* Two disjoint sets of deliveries count separately.
LEMMA DeliveriesAdd ==
  ASSUME NEW C, C \subseteq Deliveries, NEW D, D \subseteq Deliveries, D \cap C = {}
  PROVE  Cardinality(C \cup D) = Cardinality(C) + Cardinality(D)
<1>1. /\ IsFiniteSet(C) /\ Cardinality(C) \in Nat
      /\ IsFiniteSet(D) /\ Cardinality(D) \in Nat
  BY DeliverySizes
<1>2. Cardinality(C \cup D) = Cardinality(C) + Cardinality(D) - Cardinality(C \cap D)
  BY <1>1, FS_Union
<1>3. Cardinality(C \cap D) = 0
  <2>1. C \cap D = {}
    OBVIOUS
  <2> QED BY <2>1, FS_EmptySet
<1> QED BY <1>1, <1>2, <1>3

\* What is taken out of a set of deliveries no longer counts.
LEMMA DeliveriesLess ==
  ASSUME NEW C, C \subseteq Deliveries, NEW D, D \subseteq C
  PROVE  Cardinality(C \ D) = Cardinality(C) - Cardinality(D)
<1>1. C \ D \subseteq Deliveries /\ D \subseteq Deliveries /\ D \cap (C \ D) = {}
      /\ (C \ D) \cup D = C
  OBVIOUS
<1>2. Cardinality(C) = Cardinality(C \ D) + Cardinality(D)
  <2>1. Cardinality((C \ D) \cup D) = Cardinality(C \ D) + Cardinality(D)
    BY ONLY <1>1, DeliveriesAdd
  <2> QED BY <1>1, <2>1
<1>3. Cardinality(C \ D) \in Nat /\ Cardinality(D) \in Nat
  BY <1>1, DeliverySizes
<1> QED BY <1>2, <1>3

\* A dispatch counts what it sends in both windows, and sends within them.
LEMMA SendWindows ==
  ASSUME TypeOK, WindowInv, NEW Gone, NEW E \in SUBSET Heads(Gone), Admissible(E),
         SendDeliveries(E), UNCHANGED stream
  PROVE  WindowInv'
<1> DEFINE D == {Sent(e) : e \in E}
           to(s) == {Sent(e) : e \in SentTo(E, s)}
<1>1. /\ D \subseteq Deliveries /\ D \cap pending = {}
      /\ Cardinality(D) = Cardinality(E)
  BY SentCount
<1>2. ASSUME NEW s \in Subs
      PROVE  /\ to(s) \subseteq Deliveries /\ to(s) \cap pending = {}
             /\ Cardinality(to(s)) = Cardinality(SentTo(E, s))
             /\ Cardinality(SentTo(E, s)) \in Nat
  <2>1. SentTo(E, s) \in SUBSET Heads(Gone)
    BY DEF SentTo
  <2>2. /\ to(s) \subseteq Deliveries /\ to(s) \cap pending = {}
        /\ IsFiniteSet(SentTo(E, s))
        /\ Cardinality(to(s)) = Cardinality(SentTo(E, s))
    BY <2>1, SentCount
  <2> QED BY <2>2, FS_CardinalityType
<1>3. /\ pending' = pending \cup D /\ pendingBytes' = pendingBytes + Cardinality(E)
      /\ \A s \in Subs : inflight'[s] = inflight[s] + Cardinality(SentTo(E, s))
  BY DEF SendDeliveries
<1>4. ASSUME NEW s \in Subs PROVE Of(pending', s) = Of(pending, s) \cup to(s)
  <2>1. \A e \in E : Sent(e).sub = Target(e[1], e[2])
    BY DEF Sent
  <2> QED BY <1>3, <2>1 DEF Of, SentTo
<1>5. ASSUME NEW s \in Subs, SentTo(E, s) # {} PROVE stream[s] = "open"
  BY <1>5, HeadTyped DEF SentTo, Members
<1>6. pending \subseteq Deliveries /\ pendingBytes \in Int /\ inflight \in [Subs -> Int]
  BY DEF TypeOK
<1> HIDE DEF D, to
<1>7. pendingBytes' = Cardinality(pending') /\ pendingBytes' <= MaxInflight
  <2>1. Cardinality(pending \cup D) = Cardinality(pending) + Cardinality(D)
    BY <1>1, <1>6, DeliveriesAdd
  <2>2. pendingBytes = Cardinality(pending) /\ pendingBytes + Cardinality(E) <= MaxInflight
    BY DEF WindowInv, WindowLedger, Admissible
  <2> QED BY <1>1, <1>3, <2>1, <2>2
<1>8. ASSUME NEW s \in Subs, stream[s] = "open"
      PROVE  inflight'[s] = Cardinality(Of(pending', s)) /\ inflight'[s] <= MaxSubInflight
  <2>1. Of(pending, s) \subseteq Deliveries /\ to(s) \cap Of(pending, s) = {}
    BY <1>2, <1>6 DEF Of
  <2>2. Cardinality(Of(pending, s) \cup to(s)) = Cardinality(Of(pending, s)) + Cardinality(to(s))
    BY <1>2, <2>1, DeliveriesAdd
  <2>3. /\ inflight[s] = Cardinality(Of(pending, s))
        /\ inflight[s] + Cardinality(SentTo(E, s)) <= MaxSubInflight
    BY <1>8 DEF WindowInv, WindowLedger, Admissible, Of
  <2> QED BY <1>2, <1>3, <1>4, <2>2, <2>3
<1>9. ASSUME NEW s \in Subs, stream[s] \in {"idle", "reserved", "joining"}
      PROVE  inflight'[s] = inflight[s] /\ Of(pending', s) = Of(pending, s)
  <2>1. SentTo(E, s) = {} /\ to(s) = {}
    BY <1>5, <1>9 DEF to
  <2>2. Cardinality(SentTo(E, s)) = 0
    BY <2>1, FS_EmptySet
  <2>3. inflight'[s] = inflight[s] + Cardinality(SentTo(E, s)) /\ inflight[s] \in Int
    BY <1>3, <1>6
  <2>4. Of(pending', s) = Of(pending, s)
    BY <1>4, <2>1
  <2> QED BY <2>2, <2>3, <2>4
<1>10. WindowLedger'
  BY <1>7, <1>8 DEF WindowLedger, Of
<1>11. WindowsStart'
  BY <1>9 DEF WindowInv, WindowsStart
<1> QED BY <1>10, <1>11 DEF WindowInv

\* An ack or a timeout gives back what it takes out, to both windows of an open stream.
LEMMA ReleaseWindows ==
  ASSUME TypeOK, WindowInv, NEW D, D \subseteq pending, Released(D),
         pending' = pending \ D, UNCHANGED stream
  PROVE  WindowInv'
<1>1. pending \subseteq Deliveries /\ pendingBytes \in Int /\ inflight \in [Subs -> Int]
  BY DEF TypeOK
<1>2. /\ pendingBytes' = pendingBytes - Cardinality(D)
      /\ \A s \in Subs : inflight'[s] = IF stream[s] = "open"
                                        THEN inflight[s] - Cardinality(Of(D, s))
                                        ELSE inflight[s]
  BY DEF Released, Of
<1>3. /\ Cardinality(pending') = Cardinality(pending) - Cardinality(D)
      /\ Cardinality(D) \in Nat
  BY <1>1, DeliveriesLess, DeliverySizes
<1>4. ASSUME NEW s \in Subs
      PROVE  /\ Of(pending', s) = Of(pending, s) \ Of(D, s)
             /\ Cardinality(Of(pending', s)) = Cardinality(Of(pending, s)) - Cardinality(Of(D, s))
             /\ Cardinality(Of(D, s)) \in Nat
  <2>1. /\ Of(pending', s) = Of(pending, s) \ Of(D, s)
        /\ Of(pending, s) \subseteq Deliveries /\ Of(D, s) \subseteq Of(pending, s)
    BY <1>1 DEF Of
  <2>2. Cardinality(Of(D, s)) \in Nat
    BY <1>1, DeliverySizes
  <2>3. Cardinality(Of(pending, s) \ Of(D, s)) = Cardinality(Of(pending, s)) - Cardinality(Of(D, s))
    BY ONLY <2>1, DeliveriesLess
  <2> QED BY <2>1, <2>2, <2>3
<1>5. pendingBytes' = Cardinality(pending') /\ pendingBytes' <= MaxInflight
  BY <1>1, <1>2, <1>3, LimitsTyped DEF WindowInv, WindowLedger
<1>6. ASSUME NEW s \in Subs, stream[s] = "open"
      PROVE  inflight'[s] = Cardinality(Of(pending', s)) /\ inflight'[s] <= MaxSubInflight
  <2>1. inflight[s] = Cardinality(Of(pending, s)) /\ inflight[s] <= MaxSubInflight
    BY <1>6 DEF WindowInv, WindowLedger, Of
  <2> QED BY <1>1, <1>2, <1>4, <1>6, <2>1, LimitsTyped
<1>7. WindowsStart'
  BY <1>2, <1>4 DEF WindowInv, WindowsStart
<1> QED BY <1>5, <1>6, <1>7 DEF WindowInv, WindowLedger, Of

\* Every step keeps both windows equal to the deliveries they stand for.
LEMMA WindowStep == TypeOK /\ WindowInv /\ [Next]_vars => WindowInv'
<1> SUFFICES ASSUME TypeOK, WindowInv, [Next]_vars PROVE WindowInv'
  OBVIOUS
<1>1. CASE UNCHANGED <<pending, pendingBytes, inflight, stream>>
  BY <1>1 DEF WindowInv, WindowsStart, WindowLedger, Of
<1>2. ASSUME NEW m \in accepting, AcceptDispatch(m) PROVE WindowInv'
  <2>1. PICK E \in SUBSET Heads(NoneGone) : Admissible(E) /\ SendDeliveries(E)
    BY <1>2 DEF AcceptDispatch, Dispatched
  <2>2. UNCHANGED stream
    BY <1>2 DEF AcceptDispatch
  <2> QED BY <2>1, <2>2, SendWindows
<1>3. ASSUME NEW cleanup \in BOOLEAN, GroupLoop(cleanup) PROVE WindowInv'
  <2>1. PICK E \in SUBSET Heads(Swept(cleanup)) : Admissible(E) /\ SendDeliveries(E)
    BY <1>3 DEF GroupLoop, Dispatched
  <2>2. UNCHANGED stream
    BY <1>3 DEF GroupLoop
  <2> QED BY <2>1, <2>2, SendWindows
<1>4. ASSUME NEW p \in pending, Ack(p) PROVE WindowInv'
  <2>1. /\ {p} \subseteq pending /\ Released({p}) /\ pending' = pending \ {p}
        /\ UNCHANGED stream
    BY <1>4 DEF Ack
  <2> QED BY <2>1, ReleaseWindows
<1>5. CASE MaintenancePop
  <2>1. /\ due \subseteq pending /\ Released(due) /\ pending' = pending \ due
        /\ UNCHANGED stream
    BY <1>5 DEF MaintenancePop, TypeOK
  <2> QED BY <2>1, ReleaseWindows
<1>6. ASSUME NEW s \in Subs, SubscribeReserve(s) PROVE WindowInv'
  <2>1. /\ stream' = [stream EXCEPT ![s] = "reserved"] /\ stream[s] = "idle"
        /\ Of(pending, s) = {} /\ UNCHANGED <<pending, pendingBytes, inflight>>
    BY <1>6 DEF SubscribeReserve, NameFree, Of
  <2>2. \A r \in Subs : r # s => stream'[r] = stream[r]
    BY <2>1 DEF TypeOK
  <2>3. stream'[s] = "reserved"
    BY <2>1 DEF TypeOK
  <2> QED BY <2>1, <2>2, <2>3 DEF WindowInv, WindowsStart, WindowLedger, Of
<1>7. ASSUME NEW s \in Subs, SubscribeRegister(s) PROVE WindowInv'
  <2>1. /\ stream' = [stream EXCEPT ![s] = "joining"] /\ stream[s] = "reserved"
        /\ UNCHANGED <<pending, pendingBytes, inflight>>
    BY <1>7 DEF SubscribeRegister
  <2>2. \A r \in Subs : r # s => stream'[r] = stream[r]
    BY <2>1 DEF TypeOK
  <2>3. stream'[s] = "joining"
    BY <2>1 DEF TypeOK
  <2> QED BY <2>1, <2>2, <2>3 DEF WindowInv, WindowsStart, WindowLedger, Of
<1>8. ASSUME NEW s \in Subs, SubscribeRefuse(s) \/ SubscribeOverflow(s) PROVE WindowInv'
  <2>1. /\ stream' = [stream EXCEPT ![s] = "idle"] /\ stream[s] \in {"reserved", "joining"}
        /\ UNCHANGED <<pending, pendingBytes, inflight>>
    BY <1>8 DEF SubscribeRefuse, SubscribeOverflow
  <2>2. \A r \in Subs : r # s => stream'[r] = stream[r]
    BY <2>1 DEF TypeOK
  <2>3. stream'[s] = "idle"
    BY <2>1 DEF TypeOK
  <2> QED BY <2>1, <2>2, <2>3 DEF WindowInv, WindowsStart, WindowLedger, Of
<1>9. ASSUME NEW s \in Subs, SubscribeFinish(s) PROVE WindowInv'
  <2>1. /\ stream[s] = "joining" /\ stream'[s] = "open"
        /\ \A r \in Subs : r # s => stream'[r] = stream[r] \/ stream'[r] = "fenced"
        /\ UNCHANGED <<pending, pendingBytes, inflight>>
    BY <1>9 DEF SubscribeFinish
  <2>2. inflight[s] = 0 /\ Of(pending, s) = {}
    BY <2>1 DEF WindowInv, WindowsStart
  <2>3. inflight[s] = Cardinality(Of(pending, s)) /\ inflight[s] <= MaxSubInflight
    BY <2>2, FS_EmptySet, LimitsTyped
  <2> QED BY <2>1, <2>3 DEF WindowInv, WindowsStart, WindowLedger, Of
<1>10. ASSUME NEW s \in Subs, StreamExit(s) PROVE WindowInv'
  <2>1. /\ stream' = [stream EXCEPT ![s] = "idle"] /\ inflight' = [inflight EXCEPT ![s] = 0]
        /\ UNCHANGED <<pending, pendingBytes>>
    BY <1>10 DEF StreamExit
  <2>2. \A r \in Subs : r # s => stream'[r] = stream[r] /\ inflight'[r] = inflight[r]
    BY <2>1 DEF TypeOK
  <2>3. stream'[s] = "idle" /\ inflight'[s] = 0
    BY <2>1 DEF TypeOK
  <2> QED BY <2>1, <2>2, <2>3 DEF WindowInv, WindowsStart, WindowLedger, Of
<1> QED
  BY <1>1, <1>2, <1>3, <1>4, <1>5, <1>6, <1>7, <1>8, <1>9, <1>10
     DEF Next, AcceptBatch, AcceptReject, AcceptIndex, WriteFrame, PeerCheckpoint, Nack,
         Deadline, BecomesDue, ExpireCache, RetryGroup, Expire, DrainStart, DrainSweep

\* The broker's window and the window of every open stream count exactly the pending
\* deliveries and stay within their limits: stream exits, fences, acks, timeouts and
\* dispatches of any size neither leak room nor exceed it.
THEOREM WindowsCount == Spec => []WindowLedger
<1>1. ASSUME Init PROVE WindowInv
  <2>1. /\ pending = {} /\ pendingBytes = 0
        /\ \A s \in Subs : stream[s] = "idle" /\ inflight[s] = 0
    BY <1>1 DEF Init
  <2>2. Cardinality({}) = 0
    BY FS_EmptySet
  <2>3. pendingBytes = Cardinality(pending) /\ pendingBytes <= MaxInflight
    BY <2>1, <2>2, LimitsTyped
  <2> QED BY <2>1, <2>3 DEF WindowInv, WindowsStart, WindowLedger
<1>2. WindowInv => WindowLedger
  BY DEF WindowInv
<1> QED BY <1>1, <1>2, Typing, WindowStep, PTL DEF Spec

-----------------------------------------------------------------------------
(* The memory budgets.  Group indexes may not use the last reservation of   *)
(* the budget; that limit is part of the invariant.                         *)

Entries(w) == {e \in Groups \X Messages : e[2] \in w[e[1]]}
Removed(Gone) == {e \in Groups \X Messages : e[2] \in Gone[e[1]]}
HeldStreams == {s \in Subs : stream[s] # "idle"}
IndexCost(n, k) == GroupCharge * n + WorkCharge * k
MemoryInv ==
  /\ groupMem = IndexCost(Cardinality(groups), Cardinality(Entries(work)))
  /\ streamMem = groupMem + Reservation * Cardinality(HeldStreams)
  /\ streamMem <= StreamMemory
  /\ groupMem <= StreamMemory - Reservation

\* What an index of n groups and k entries costs is a sum of charges.
LEMMA CostSteps ==
  ASSUME NEW n \in Nat, NEW k \in Nat, NEW i \in Nat, NEW j \in Nat
  PROVE  /\ IndexCost(n, k) \in Int
         /\ IndexCost(n, k + j) = IndexCost(n, k) + WorkCharge * j
         /\ IndexCost(n + 1, k) = IndexCost(n, k) + GroupCharge
         /\ IndexCost(n, k) <= IndexCost(n + i, k + j)
         /\ IndexCost(n, k) = IndexCost(n + i, k + j) - (WorkCharge * j + GroupCharge * i)
<1>1. WorkCharge \in Nat /\ GroupCharge \in Nat
  BY LimitsTyped
<1>2. \A c, x, y \in Nat : c * (x + y) = c * x + c * y /\ c * x \in Nat
  OBVIOUS
<1>3. /\ WorkCharge * (k + j) = WorkCharge * k + WorkCharge * j
      /\ GroupCharge * (n + i) = GroupCharge * n + GroupCharge * i
      /\ WorkCharge * k \in Nat /\ WorkCharge * j \in Nat
      /\ GroupCharge * n \in Nat /\ GroupCharge * i \in Nat
  BY <1>1, <1>2
<1>4. GroupCharge * (n + 1) = GroupCharge * n + GroupCharge
  BY <1>1
<1> QED BY <1>1, <1>3, <1>4 DEF IndexCost

\* A stream costs its reservation.
LEMMA StreamCost ==
  ASSUME NEW n \in Nat
  PROVE  /\ Reservation \in Nat /\ Reservation * n \in Nat /\ StreamMemory \in Nat
         /\ Reservation * (n + 1) = Reservation * n + Reservation
         /\ Reservation * 0 = 0
<1>1. Reservation \in Nat /\ StreamMemory \in Nat
  BY LimitsTyped
<1> QED BY <1>1

\* The counted sets are finite.
LEMMA MemorySizes ==
  ASSUME TypeOK
  PROVE  /\ IsFiniteSet(Entries(work)) /\ Cardinality(Entries(work)) \in Nat
         /\ IsFiniteSet(groups) /\ Cardinality(groups) \in Nat
         /\ IsFiniteSet(HeldStreams) /\ Cardinality(HeldStreams) \in Nat
<1>1. Entries(work) \subseteq Groups \X Messages
  BY DEF Entries
<1>2. groups \in SUBSET Groups /\ HeldStreams \in SUBSET Subs
  BY DEF TypeOK, HeldStreams
<1>3. IsFiniteSet(groups) /\ IsFiniteSet(HeldStreams)
  BY <1>2, FS_Subset, FiniteInstance
<1> QED BY <1>1, <1>3, Sizes, FS_CardinalityType

\* The counters say that the budgets are kept.
LEMMA MemoryInvImplies == TypeOK /\ MemoryInv => MemoryLedger
<1> SUFFICES ASSUME TypeOK, MemoryInv PROVE MemoryLedger
  OBVIOUS
<1>1. Entries(work) = {e \in Groups \X Messages : e[2] \in work[e[1]]}
  BY DEF Entries
<1>2. HeldStreams = {s \in Subs : stream[s] # "idle"}
  BY DEF HeldStreams
<1>3. ASSUME HeldStreams = {} PROVE StreamMemoryFits(Reservation)
  <2>1. Cardinality(HeldStreams) = 0
    BY <1>3, FS_EmptySet
  <2>2. streamMem = groupMem + Reservation * 0 /\ groupMem <= StreamMemory - Reservation
    BY <2>1 DEF MemoryInv
  <2>3. streamMem = groupMem /\ streamMem \in Int
    BY <2>2, StreamCost DEF TypeOK
  <2> QED BY <2>2, <2>3, LimitsTyped DEF StreamMemoryFits
<1>4. /\ groupMem = GroupCharge * Cardinality(groups) + WorkCharge * Cardinality(Entries(work))
      /\ streamMem = groupMem + Reservation * Cardinality(HeldStreams)
      /\ streamMem <= StreamMemory
  BY DEF MemoryInv, IndexCost
<1> QED BY <1>1, <1>2, <1>3, <1>4 DEF MemoryLedger

\* prepareGroupWork charges one entry for each message it queues.
LEMMA PrepareCount ==
  ASSUME TypeOK, NEW S, S \subseteq Messages, NEW rank, PrepareGroupWork(S, rank)
  PROVE  \E j \in Nat : /\ IndexCharge(S) = WorkCharge * j
                        /\ Cardinality(Entries(work')) = Cardinality(Entries(work)) + j
<1> DEFINE new == {e \in Groups \X S : e[2] \in Missing(e[1], S)}
<1>1. new \subseteq Groups \X Messages /\ new \cap Entries(work) = {}
  BY DEF Entries, Missing
<1>2. Entries(work') = Entries(work) \cup new
  <2>1. \A g \in Groups : work'[g] = work[g] \cup Missing(g, S)
    BY DEF PrepareGroupWork
  <2>2. \A g \in Groups : Missing(g, S) \subseteq S
    BY DEF Missing
  <2>3. ASSUME NEW g \in Groups, NEW m \in Messages
        PROVE  <<g, m>> \in Entries(work') <=> <<g, m>> \in Entries(work) \cup new
    BY <2>1, <2>2 DEF Entries
  <2>4. Entries(work') \subseteq Groups \X Messages /\ Entries(work) \subseteq Groups \X Messages
    BY DEF Entries
  <2> QED BY <1>1, <2>3, <2>4
<1>3. IsFiniteSet(new) /\ Cardinality(new) \in Nat /\ IsFiniteSet(Entries(work))
      /\ Cardinality(Entries(work)) \in Nat
  BY <1>1, Sizes, MemorySizes
<1>4. Cardinality(Entries(work) \cap new) = 0
  <2>1. Entries(work) \cap new = {}
    BY <1>1
  <2> QED BY <2>1, FS_EmptySet
<1>5. IndexCharge(S) = WorkCharge * Cardinality(new)
  BY DEF IndexCharge
<1> HIDE DEF new
<1>6. Cardinality(Entries(work')) = Cardinality(Entries(work)) + Cardinality(new)
      - Cardinality(Entries(work) \cap new)
  BY <1>2, <1>3, FS_Union
<1> QED BY <1>3, <1>4, <1>5, <1>6

\* removeGroupWorkLocked gives back the charge of each entry it removes.
LEMMA UnlinkCount ==
  ASSUME TypeOK, NEW Gone, \A g \in Groups : Gone[g] \subseteq work[g],
         work' = [g \in Groups |-> work[g] \ Gone[g]]
  PROVE  \E j \in Nat : /\ GoneCharge(Gone) = WorkCharge * j
                        /\ Cardinality(Entries(work')) \in Nat
                        /\ Cardinality(Entries(work)) = Cardinality(Entries(work')) + j
<1>1. Removed(Gone) \subseteq Entries(work) /\ Entries(work) \subseteq Groups \X Messages
  BY DEF Removed, Entries
<1>2. Entries(work') = Entries(work) \ Removed(Gone)
  BY DEF Removed, Entries
<1>3. /\ IsFiniteSet(Removed(Gone)) /\ Cardinality(Removed(Gone)) \in Nat
      /\ IsFiniteSet(Entries(work')) /\ Cardinality(Entries(work')) \in Nat
  <2>1. Removed(Gone) \subseteq Groups \X Messages /\ Entries(work') \subseteq Groups \X Messages
    BY <1>1, <1>2
  <2> QED BY <2>1, Sizes
<1>4. Cardinality(Entries(work') \cap Removed(Gone)) = 0
  <2>1. Entries(work') \cap Removed(Gone) = {}
    BY <1>2
  <2> QED BY <2>1, FS_EmptySet
<1>5. Entries(work') \cup Removed(Gone) = Entries(work)
  BY <1>1, <1>2
<1>6. Cardinality(Entries(work)) = Cardinality(Entries(work')) + Cardinality(Removed(Gone))
      - Cardinality(Entries(work') \cap Removed(Gone))
  BY <1>3, <1>5, FS_Union
<1>7. GoneCharge(Gone) = WorkCharge * Cardinality(Removed(Gone))
  BY DEF GoneCharge, Removed
<1>8. Cardinality(Entries(work)) = Cardinality(Entries(work')) + Cardinality(Removed(Gone))
  BY <1>3, <1>4, <1>6
<1> QED BY <1>3, <1>7, <1>8

\* Indexing keeps the budgets when its charge fits.
LEMMA PrepareMemory ==
  ASSUME TypeOK, MemoryInv, NEW S, S \subseteq Messages, NEW rank,
         PrepareGroupWork(S, rank), GroupMemoryFits(IndexCharge(S)),
         UNCHANGED groups, HeldStreams' = HeldStreams
  PROVE  MemoryInv'
<1>1. PICK j \in Nat : /\ IndexCharge(S) = WorkCharge * j
                       /\ Cardinality(Entries(work')) = Cardinality(Entries(work)) + j
  BY PrepareCount
<1>2. /\ Cardinality(Entries(work)) \in Nat /\ Cardinality(groups) \in Nat
      /\ Cardinality(HeldStreams) \in Nat
  BY MemorySizes
<1>3. IndexCost(Cardinality(groups), Cardinality(Entries(work')))
        = IndexCost(Cardinality(groups), Cardinality(Entries(work))) + IndexCharge(S)
  BY <1>1, <1>2, CostSteps
<1>4. /\ streamMem' = streamMem + IndexCharge(S) /\ groupMem' = groupMem + IndexCharge(S)
      /\ groupMem + IndexCharge(S) <= StreamMemory - Reservation
      /\ IndexCharge(S) <= StreamMemory - streamMem
  BY DEF PrepareGroupWork, GroupMemoryFits, StreamMemoryFits
<1>5. /\ IndexCharge(S) \in Int /\ Reservation * Cardinality(HeldStreams) \in Nat
      /\ StreamMemory \in Nat /\ Reservation \in Nat /\ streamMem \in Int /\ groupMem \in Int
  <2>1. WorkCharge * j \in Int
    BY LimitsTyped
  <2> QED BY <1>1, <1>2, <2>1, StreamCost DEF TypeOK
<1>6. /\ groupMem = IndexCost(Cardinality(groups), Cardinality(Entries(work)))
      /\ streamMem = groupMem + Reservation * Cardinality(HeldStreams)
  BY DEF MemoryInv
<1>7. groupMem' = IndexCost(Cardinality(groups'), Cardinality(Entries(work')))
  BY <1>3, <1>4, <1>6
<1>8. /\ streamMem' = groupMem' + Reservation * Cardinality(HeldStreams')
      /\ streamMem' <= StreamMemory /\ groupMem' <= StreamMemory - Reservation
  BY <1>4, <1>5, <1>6
<1> QED BY <1>7, <1>8 DEF MemoryInv, Entries

\* Removing entries and idle groups gives back exactly their charges.
LEMMA UnlinkMemory ==
  ASSUME TypeOK, MemoryInv, NEW Gone, \A g \in Groups : Gone[g] \subseteq work[g],
         work' = [g \in Groups |-> work[g] \ Gone[g]],
         NEW idle, idle \subseteq groups, groups' = groups \ idle,
         streamMem' = streamMem - (GoneCharge(Gone) + GroupCharge * Cardinality(idle)),
         groupMem' = groupMem - (GoneCharge(Gone) + GroupCharge * Cardinality(idle)),
         HeldStreams' = HeldStreams
  PROVE  MemoryInv'
<1> DEFINE c == GoneCharge(Gone) + GroupCharge * Cardinality(idle)
<1>1. PICK j \in Nat :
        /\ GoneCharge(Gone) = WorkCharge * j
        /\ Cardinality(Entries(work')) \in Nat
        /\ Cardinality(Entries(work)) = Cardinality(Entries(work')) + j
  BY UnlinkCount
<1>2. /\ Cardinality(groups) = Cardinality(groups') + Cardinality(idle)
      /\ Cardinality(groups') \in Nat /\ Cardinality(idle) \in Nat
  <2>1. IsFiniteSet(groups) /\ idle \in SUBSET groups /\ groups' \in SUBSET groups
    BY MemorySizes
  <2>2. IsFiniteSet(groups') /\ IsFiniteSet(idle)
    BY <2>1, FS_Subset
  <2>3. Cardinality(groups') \in Nat /\ Cardinality(idle) \in Nat
    BY <2>2, FS_CardinalityType
  <2>4. groups' \cup idle = groups /\ groups' \cap idle = {}
    OBVIOUS
  <2>5. Cardinality(groups' \cap idle) = 0
    BY <2>4, FS_EmptySet
  <2>6. Cardinality(groups' \cup idle)
          = Cardinality(groups') + Cardinality(idle) - Cardinality(groups' \cap idle)
    BY <2>2, FS_Union
  <2>7. Cardinality(groups)
          = Cardinality(groups') + Cardinality(idle) - Cardinality(groups' \cap idle)
    BY <2>4, <2>6
  <2> QED BY ONLY <2>3, <2>5, <2>7
<1>3. Cardinality(HeldStreams) \in Nat
  BY MemorySizes
<1>4. /\ IndexCost(Cardinality(groups'), Cardinality(Entries(work')))
           = IndexCost(Cardinality(groups), Cardinality(Entries(work))) - c
      /\ IndexCost(Cardinality(groups'), Cardinality(Entries(work')))
           <= IndexCost(Cardinality(groups), Cardinality(Entries(work)))
      /\ IndexCost(Cardinality(groups'), Cardinality(Entries(work'))) \in Int
  <2> DEFINE n == Cardinality(groups')
             k == Cardinality(Entries(work'))
             i == Cardinality(idle)
  <2>1. n \in Nat /\ k \in Nat /\ i \in Nat /\ j \in Nat
    BY <1>1, <1>2
  <2>2. /\ Cardinality(groups) = n + i /\ Cardinality(Entries(work)) = k + j
        /\ c = WorkCharge * j + GroupCharge * i
    BY <1>1, <1>2
  <2> HIDE DEF n, k, i, c
  <2>3. /\ IndexCost(n, k) \in Int /\ IndexCost(n, k) <= IndexCost(n + i, k + j)
        /\ IndexCost(n, k) = IndexCost(n + i, k + j) - (WorkCharge * j + GroupCharge * i)
    BY ONLY <2>1, CostSteps
  <2>4. /\ IndexCost(n, k) \in Int
        /\ IndexCost(n, k) <= IndexCost(Cardinality(groups), Cardinality(Entries(work)))
        /\ IndexCost(n, k) = IndexCost(Cardinality(groups), Cardinality(Entries(work))) - c
    BY ONLY <2>2, <2>3
  <2> QED BY <2>4 DEF n, k
<1>5. c \in Int
  BY <1>1, <1>2, LimitsTyped
<1>6. /\ Reservation * Cardinality(HeldStreams) \in Nat
      /\ StreamMemory \in Nat /\ Reservation \in Nat /\ streamMem \in Int /\ groupMem \in Int
  BY <1>3, StreamCost DEF TypeOK
<1>7. /\ groupMem = IndexCost(Cardinality(groups), Cardinality(Entries(work)))
      /\ streamMem = groupMem + Reservation * Cardinality(HeldStreams)
      /\ streamMem <= StreamMemory /\ groupMem <= StreamMemory - Reservation
  BY DEF MemoryInv
<1>8. streamMem' = streamMem - c /\ groupMem' = groupMem - c
  OBVIOUS
<1> HIDE DEF c
<1>9. /\ groupMem' = IndexCost(Cardinality(groups'), Cardinality(Entries(work')))
      /\ groupMem' <= groupMem
  BY <1>4, <1>7, <1>8
<1>10. /\ streamMem' = groupMem' + Reservation * Cardinality(HeldStreams')
       /\ streamMem' <= StreamMemory /\ groupMem' <= StreamMemory - Reservation
  <2>1. HeldStreams' = HeldStreams /\ groupMem' \in Int
    BY <1>5, <1>6, <1>8
  <2> QED BY <1>5, <1>6, <1>7, <1>8, <1>9, <2>1
<1> QED BY <1>9, <1>10 DEF MemoryInv, Entries

\* A stream reserves its memory when it starts and gives it back when it ends.
LEMMA StreamsMemory ==
  ASSUME TypeOK, MemoryInv, NEW s \in Subs, UNCHANGED <<groupMem, groups, work>>,
         \/ /\ HeldStreams' = HeldStreams \cup {s} /\ s \notin HeldStreams
            /\ StreamMemoryFits(Reservation) /\ streamMem' = streamMem + Reservation
         \/ /\ HeldStreams' = HeldStreams \ {s} /\ s \in HeldStreams
            /\ streamMem' = streamMem - Reservation
  PROVE  MemoryInv'
<1>1. IsFiniteSet(HeldStreams) /\ Cardinality(HeldStreams) \in Nat
  BY MemorySizes
<1>2. /\ streamMem = groupMem + Reservation * Cardinality(HeldStreams)
      /\ streamMem <= StreamMemory /\ groupMem <= StreamMemory - Reservation
  BY DEF MemoryInv
<1>3. /\ Reservation * Cardinality(HeldStreams) \in Nat
      /\ StreamMemory \in Nat /\ Reservation \in Nat /\ streamMem \in Int /\ groupMem \in Int
  BY <1>1, StreamCost DEF TypeOK
<1>4. /\ streamMem' = groupMem' + Reservation * Cardinality(HeldStreams')
      /\ streamMem' <= StreamMemory
  <2>1. CASE /\ HeldStreams' = HeldStreams \cup {s} /\ s \notin HeldStreams
             /\ StreamMemoryFits(Reservation) /\ streamMem' = streamMem + Reservation
    <3>1. Cardinality(HeldStreams') = Cardinality(HeldStreams) + 1
      BY <1>1, <2>1, FS_AddElement
    <3>2. Reservation * Cardinality(HeldStreams') = Reservation * Cardinality(HeldStreams) + Reservation
      BY <1>1, <3>1, StreamCost
    <3> QED BY <1>2, <1>3, <2>1, <3>2 DEF StreamMemoryFits
  <2>2. CASE /\ HeldStreams' = HeldStreams \ {s} /\ s \in HeldStreams
             /\ streamMem' = streamMem - Reservation
    <3>1. IsFiniteSet(HeldStreams') /\ Cardinality(HeldStreams') = Cardinality(HeldStreams) - 1
      BY <1>1, <2>2, FS_RemoveElement
    <3>2. Cardinality(HeldStreams') \in Nat
      BY <3>1, FS_CardinalityType
    <3>3. Cardinality(HeldStreams) = Cardinality(HeldStreams') + 1
      BY <1>1, <3>1, <3>2
    <3>4. /\ Reservation * Cardinality(HeldStreams) = Reservation * Cardinality(HeldStreams') + Reservation
          /\ Reservation * Cardinality(HeldStreams') \in Nat
      BY <3>2, <3>3, StreamCost
    <3> QED BY <1>2, <1>3, <2>2, <3>4
  <2> QED BY <2>1, <2>2
<1> QED BY <1>4 DEF MemoryInv, Entries

\* A stream that changes state without starting or ending keeps its reservation.
LEMMA HeldSame ==
  ASSUME TypeOK, NEW s \in Subs, NEW v, stream' = [stream EXCEPT ![s] = v]
  PROVE  /\ stream[s] # "idle" /\ v # "idle" => HeldStreams' = HeldStreams
         /\ stream[s] = "idle" /\ v # "idle" =>
              HeldStreams' = HeldStreams \cup {s} /\ s \notin HeldStreams
         /\ stream[s] # "idle" /\ v = "idle" =>
              HeldStreams' = HeldStreams \ {s} /\ s \in HeldStreams
<1>1. \A r \in Subs : stream'[r] = IF r = s THEN v ELSE stream[r]
  BY DEF TypeOK
<1> QED BY <1>1 DEF HeldStreams

\* A completion takes out one entry at most.
LEMMA PutMemory ==
  ASSUME TypeOK, MemoryInv, NEW g \in Groups, NEW m \in Messages, PutCheckpoint(g, m),
         UNCHANGED <<groups, stream>>
  PROVE  MemoryInv'
<1>1. HeldStreams' = HeldStreams
  BY DEF HeldStreams
<1>2. CASE UNCHANGED <<laneVars, memVars>>
  BY <1>1, <1>2 DEF MemoryInv, Entries
<1>3. CASE /\ work' = [work EXCEPT ![g] = @ \ {m}]
           /\ streamMem' = streamMem - GoneCharge(Only(g, m))
           /\ groupMem' = groupMem - GoneCharge(Only(g, m))
  <2>1. work' = [h \in Groups |-> work[h] \ Only(g, m)[h]]
    BY <1>3 DEF Only, TypeOK
  <2>2. \A h \in Groups : Only(g, m)[h] \subseteq work[h]
    BY DEF Only
  <2>3. GoneCharge(Only(g, m)) + GroupCharge * Cardinality({}) = GoneCharge(Only(g, m))
    <3>1. Cardinality({}) = 0
      BY FS_EmptySet
    <3>2. GroupCharge * 0 = 0
      BY LimitsTyped
    <3> QED BY <3>1, <3>2, UnlinkTyped
  <2>4. {} \subseteq groups /\ groups' = groups \ {}
    OBVIOUS
  <2>5. /\ streamMem' = streamMem - (GoneCharge(Only(g, m)) + GroupCharge * Cardinality({}))
        /\ groupMem' = groupMem - (GoneCharge(Only(g, m)) + GroupCharge * Cardinality({}))
    BY <1>3, <2>3
  <2> QED BY <1>1, <2>1, <2>2, <2>4, <2>5, UnlinkMemory
<1> QED BY <1>2, <1>3 DEF PutCheckpoint

\* Every step keeps the memory counters equal to what they stand for.
LEMMA MemoryStep == TypeOK /\ MemoryInv /\ [Next]_vars => MemoryInv'
<1> SUFFICES ASSUME TypeOK, MemoryInv, [Next]_vars PROVE MemoryInv'
  OBVIOUS
<1>1. CASE UNCHANGED <<work, groups, stream, streamMem, groupMem>>
  BY <1>1 DEF MemoryInv, Entries, HeldStreams
<1>2. ASSUME NEW S \in Batches, NEW rank \in Rankings(S), AcceptBatch(S, rank)
      PROVE  MemoryInv'
  <2>1. /\ S \subseteq Messages /\ PrepareGroupWork(S, rank)
        /\ GroupMemoryFits(IndexCharge(S)) /\ UNCHANGED <<groups, stream>>
    BY <1>2 DEF AcceptBatch, Batches
  <2>2. HeldStreams' = HeldStreams
    BY <2>1 DEF HeldStreams
  <2> QED BY <2>1, <2>2, PrepareMemory
<1>3. ASSUME NEW m \in accepting, AcceptIndex(m) PROVE MemoryInv'
  <2>1. {m} \subseteq Messages /\ UNCHANGED <<groups, stream>>
    BY <1>3 DEF AcceptIndex, TypeOK
  <2>2. HeldStreams' = HeldStreams
    BY <2>1 DEF HeldStreams
  <2>3. CASE GroupMemoryFits(IndexCharge({m})) /\ PrepareGroupWork({m}, ordinal)
    BY <2>1, <2>2, <2>3, PrepareMemory
  <2>4. CASE UNCHANGED <<laneVars, memVars>>
    BY <1>1, <2>1, <2>4
  <2> QED BY <1>3, <2>3, <2>4 DEF AcceptIndex
<1>4. ASSUME NEW s \in Subs, SubscribeReserve(s) PROVE MemoryInv'
  <2>1. /\ stream' = [stream EXCEPT ![s] = "reserved"] /\ stream[s] = "idle"
        /\ StreamMemoryFits(Reservation) /\ streamMem' = streamMem + Reservation
        /\ UNCHANGED <<groupMem, groups, work>>
    BY <1>4 DEF SubscribeReserve, NameFree
  <2>2. HeldStreams' = HeldStreams \cup {s} /\ s \notin HeldStreams
    BY <2>1, HeldSame
  <2> QED BY <2>1, <2>2, StreamsMemory
<1>5. ASSUME NEW s \in Subs, SubscribeRefuse(s) \/ SubscribeOverflow(s) \/ StreamExit(s)
      PROVE  MemoryInv'
  <2>1. /\ stream' = [stream EXCEPT ![s] = "idle"] /\ stream[s] # "idle"
        /\ streamMem' = streamMem - Reservation /\ UNCHANGED <<groupMem, groups, work>>
    BY <1>5 DEF SubscribeRefuse, SubscribeOverflow, StreamExit, Running
  <2>2. HeldStreams' = HeldStreams \ {s} /\ s \in HeldStreams
    BY <2>1, HeldSame
  <2> QED BY <2>1, <2>2, StreamsMemory
<1>6. ASSUME NEW s \in Subs, SubscribeRegister(s) PROVE MemoryInv'
  <2> DEFINE g == SubGroup[s]
             charge == IF g \in groups THEN 0 ELSE GroupCharge
  <2>1. /\ stream' = [stream EXCEPT ![s] = "joining"] /\ stream[s] = "reserved"
        /\ CanRegister(g) /\ groups' = groups \cup {g} /\ UNCHANGED work
        /\ streamMem' = streamMem + charge /\ groupMem' = groupMem + charge
    BY <1>6 DEF SubscribeRegister
  <2>2. HeldStreams' = HeldStreams
    BY <2>1, HeldSame
  <2>3. CASE g \in groups
    <3>1. groups' = groups /\ charge = 0
      BY <2>1, <2>3
    <3>2. streamMem' = streamMem /\ groupMem' = groupMem
      BY <2>1, <3>1 DEF TypeOK
    <3> QED BY <2>1, <2>2, <3>1, <3>2 DEF MemoryInv, Entries
  <2>4. CASE g \notin groups
    <3>1. /\ streamMem' = streamMem + GroupCharge /\ groupMem' = groupMem + GroupCharge
          /\ groupMem + GroupCharge <= StreamMemory - Reservation
          /\ GroupCharge <= StreamMemory - streamMem
      BY <2>1, <2>4 DEF CanRegister, GroupMemoryFits, StreamMemoryFits
    <3>2. Cardinality(groups') = Cardinality(groups) + 1
      BY <2>1, <2>4, MemorySizes, FS_AddElement
    <3>3. Cardinality(groups) \in Nat /\ Cardinality(Entries(work)) \in Nat
      BY MemorySizes
    <3>4. IndexCost(Cardinality(groups'), Cardinality(Entries(work)))
            = IndexCost(Cardinality(groups), Cardinality(Entries(work))) + GroupCharge
      BY <3>2, <3>3, CostSteps
    <3>5. /\ Reservation * Cardinality(HeldStreams) \in Nat /\ GroupCharge \in Nat
          /\ StreamMemory \in Nat /\ Reservation \in Nat /\ streamMem \in Int /\ groupMem \in Int
      <4>1. Cardinality(HeldStreams) \in Nat
        BY MemorySizes
      <4> QED BY <4>1, StreamCost, LimitsTyped DEF TypeOK
    <3>6. /\ groupMem = IndexCost(Cardinality(groups), Cardinality(Entries(work)))
          /\ streamMem = groupMem + Reservation * Cardinality(HeldStreams)
      BY DEF MemoryInv
    <3>7. groupMem' = IndexCost(Cardinality(groups'), Cardinality(Entries(work')))
      BY <2>1, <3>1, <3>4, <3>6
    <3>8. /\ streamMem' = groupMem' + Reservation * Cardinality(HeldStreams')
          /\ streamMem' <= StreamMemory /\ groupMem' <= StreamMemory - Reservation
      BY <2>2, <3>1, <3>5, <3>6
    <3> QED BY <3>7, <3>8 DEF MemoryInv, Entries
  <2> QED BY <2>3, <2>4
<1>7. ASSUME NEW s \in Subs, SubscribeFinish(s) PROVE MemoryInv'
  <2>1. /\ PrepareGroupWork(cached, ordinal) /\ cached \subseteq Messages
        /\ GroupMemoryFits(IndexCharge(cached)) /\ UNCHANGED groups
    BY <1>7 DEF SubscribeFinish, TypeOK
  <2>2. \A r \in Subs : stream'[r] = "idle" <=> stream[r] = "idle"
    BY <1>7 DEF SubscribeFinish, Members
  <2>3. HeldStreams' = HeldStreams
    BY <2>2 DEF HeldStreams
  <2> QED BY <2>1, <2>3, PrepareMemory
<1>8. ASSUME NEW p \in pending, Ack(p) PROVE MemoryInv'
  <2>1. p.grp \in Groups /\ p.msg \in Messages
    BY DEF TypeOK, Deliveries
  <2> QED BY <1>8, <2>1, PutMemory DEF Ack
<1>9. ASSUME NEW g \in Groups, NEW m \in Messages, PeerCheckpoint(g, m) PROVE MemoryInv'
  BY <1>9, PutMemory DEF PeerCheckpoint
<1>10. ASSUME NEW cleanup \in BOOLEAN, GroupLoop(cleanup) PROVE MemoryInv'
  <2> DEFINE Gone == Swept(cleanup)
             idle == IdleGroups(Gone)
  <2>1. /\ work' = [g \in Groups |-> work[g] \ Gone[g]] /\ groups' = groups \ idle
        /\ streamMem' = streamMem - (GoneCharge(Gone) + GroupCharge * Cardinality(idle))
        /\ groupMem' = groupMem - (GoneCharge(Gone) + GroupCharge * Cardinality(idle))
        /\ UNCHANGED stream
    BY <1>10 DEF GroupLoop
  <2>2. /\ \A g \in Groups : Gone[g] \subseteq work[g]
        /\ idle \subseteq groups
    BY DEF Swept, IdleGroups
  <2>3. HeldStreams' = HeldStreams
    BY <2>1 DEF HeldStreams
  <2> HIDE DEF Gone, idle
  <2> QED BY <2>1, <2>2, <2>3, UnlinkMemory
<1> QED
  BY <1>1, <1>2, <1>3, <1>4, <1>5, <1>6, <1>7, <1>8, <1>9, <1>10
     DEF Next, AcceptReject, AcceptDispatch, WriteFrame, Nack, Deadline, BecomesDue,
         ExpireCache, MaintenancePop, RetryGroup, Expire, DrainStart, DrainSweep

\* The two memory counters always equal the charges of the registered groups, the queued
\* entries and the running streams, the budget is never exceeded, and a subscription can
\* always start when no stream runs: no failed join, reclaimed group or completion leaks.
THEOREM MemoryAccounted == Spec => []MemoryLedger
<1>1. ASSUME Init PROVE MemoryInv
  <2>1. groups = {} /\ Entries(work) = {} /\ HeldStreams = {} /\ streamMem = 0 /\ groupMem = 0
    BY <1>1 DEF Init, Entries, HeldStreams
  <2>2. Cardinality({}) = 0
    BY FS_EmptySet
  <2>3. IndexCost(0, 0) = 0
    BY LimitsTyped DEF IndexCost
  <2>4. /\ IndexCost(Cardinality(groups), Cardinality(Entries(work))) = 0
        /\ Cardinality(HeldStreams) = 0
    BY <2>1, <2>2, <2>3
  <2>5. Reservation * 0 = 0 /\ Reservation <= StreamMemory /\ Reservation \in Nat
        /\ StreamMemory \in Nat
    BY LimitsTyped
  <2> QED BY <2>1, <2>4, <2>5 DEF MemoryInv
<1> QED BY <1>1, Typing, MemoryStep, MemoryInvImplies, PTL DEF Spec

-----------------------------------------------------------------------------
(* Redelivery of completed work.  A group may lose the checkpoint of a live *)
(* message to eviction and then gets the message again; these theorems say  *)
(* that eviction is the only way.                                           *)

\* The step drops no checkpoint but those of expired messages.
NothingEvicted == \A e \in ckpt \ ckpt' : e[2] \in expired

HeldOnce ==
  /\ pending \cap popped = {}
  /\ \A p, q \in pending \cup popped : Carries(p, q) => p = q
DeliveryCurrent ==
  \A p \in pending \cup popped : p.msg \notin expired =>
    /\ p.msg \in work[p.grp] \/ <<p.grp, p.msg>> \in ckpt
    /\ p.msg \in work[p.grp] => delivery[p.grp][p.msg] = p.tok
HolderInv == HeldOnce /\ DeliveryCurrent
DoneKept == \A g \in Groups, m \in Messages : m \in done[g] => m \in expired \/ <<g, m>> \in ckpt

\* What is outstanding is typed, and its identity is not the empty one.
LEMMA OutstandingTyped ==
  ASSUME TypeOK, NEW p \in pending \cup popped
  PROVE  /\ p.grp \in Groups /\ p.msg \in Messages /\ p.tok # NoToken
         /\ p \in Deliveries
  BY ConstantsTyped DEF TypeOK, Deliveries

\* Indexing never queues a message whose delivery is still outstanding.
LEMMA PrepareHolders ==
  ASSUME TypeOK, HolderInv, NEW S, NEW rank, PrepareGroupWork(S, rank),
         UNCHANGED <<pending, popped, expired, ckpt>>
  PROVE  HolderInv'
<1>1. HeldOnce'
  BY DEF HolderInv, HeldOnce, Carries
<1>2. ASSUME NEW p \in pending \cup popped, p.msg \notin expired
      PROVE  /\ p.msg \in work'[p.grp] \/ <<p.grp, p.msg>> \in ckpt
             /\ p.msg \in work'[p.grp] => delivery'[p.grp][p.msg] = p.tok
  <2>1. p.grp \in Groups /\ p.msg \in Messages
    BY OutstandingTyped
  <2>2. /\ p.msg \in work[p.grp] \/ <<p.grp, p.msg>> \in ckpt
        /\ p.msg \in work[p.grp] => delivery[p.grp][p.msg] = p.tok
    BY <1>2 DEF HolderInv, DeliveryCurrent
  <2>3. p.msg \notin Missing(p.grp, S)
    BY <1>2, <2>2 DEF Missing, CheckpointActive
  <2>4. work'[p.grp] = work[p.grp] \cup Missing(p.grp, S)
    BY <2>1 DEF PrepareGroupWork
  <2>5. delivery'[p.grp][p.msg] = delivery[p.grp][p.msg]
    BY <2>1, <2>3 DEF PrepareGroupWork
  <2> QED BY <2>2, <2>3, <2>4, <2>5
<1>3. DeliveryCurrent'
  BY <1>2 DEF DeliveryCurrent
<1> QED BY <1>1, <1>3 DEF HolderInv

\* A head is sent only when nothing of it is outstanding, under an identity of its own.
LEMMA DispatchHolders ==
  ASSUME TypeOK, HolderInv, NEW Gone, NEW E \in SUBSET Heads(Gone),
         \A g \in Groups : \A m \in Gone[g] : m \in expired \/ <<g, m>> \in ckpt,
         work' = [g \in Groups |-> work[g] \ Gone[g]],
         SendDeliveries(E), MarkDelivery(E, Gone),
         UNCHANGED <<popped, expired, ckpt>>
  PROVE  HolderInv'
<1>1. pending' = pending \cup {Sent(e) : e \in E}
  BY DEF SendDeliveries
<1>2. ASSUME NEW e \in E
      PROVE  /\ e[1] \in Groups /\ e[2] \in Messages /\ e = <<e[1], e[2]>>
             /\ Sent(e).grp = e[1] /\ Sent(e).msg = e[2]
             /\ Sent(e).tok = FreshToken(e[1], e[2])
             /\ Sent(e).tok \notin UsedTokens(e[1], e[2])
             /\ e[2] \in work[e[1]] /\ e[2] \notin Gone[e[1]]
             /\ delivery[e[1]][e[2]] = NoToken
  <2>1. /\ e[1] \in Groups /\ e[2] \in Messages /\ e = <<e[1], e[2]>>
        /\ FreshToken(e[1], e[2]) \notin UsedTokens(e[1], e[2])
    BY HeadTyped
  <2>2. /\ Sent(e).grp = e[1] /\ Sent(e).msg = e[2]
        /\ Sent(e).tok = FreshToken(e[1], e[2])
    BY DEF Sent
  <2>3. /\ e[2] \in work[e[1]] /\ e[2] \notin Gone[e[1]]
        /\ delivery[e[1]][e[2]] = NoToken
    BY DEF Heads
  <2> QED BY <2>1, <2>2, <2>3
<1>3. ASSUME NEW p \in pending \cup popped, NEW e \in E, p.grp = e[1], p.msg = e[2]
      PROVE  p.tok # Sent(e).tok
  BY <1>2, <1>3 DEF UsedTokens
<1>4. HeldOnce'
  <2>1. pending' \cap popped = {}
    BY <1>1, <1>2, <1>3 DEF HolderInv, HeldOnce
  <2> SUFFICES ASSUME NEW p \in pending' \cup popped, NEW q \in pending' \cup popped,
                      Carries(p, q)
               PROVE  p = q
    BY <2>1 DEF HeldOnce, Carries
  <2>2. CASE p \in pending \cup popped /\ q \in pending \cup popped
    BY <2>2 DEF HolderInv, HeldOnce
  <2>3. ASSUME NEW e \in E, p = Sent(e), q \in pending \cup popped PROVE FALSE
    BY <1>2, <1>3, <2>3 DEF Carries
  <2>4. ASSUME NEW e \in E, q = Sent(e), p \in pending \cup popped PROVE FALSE
    BY <1>2, <1>3, <2>4 DEF Carries
  <2>5. ASSUME NEW d \in E, NEW e \in E, p = Sent(d), q = Sent(e) PROVE p = q
    BY <1>2, <2>5 DEF Carries
  <2> QED BY <1>1, <2>2, <2>3, <2>4, <2>5
<1>5. ASSUME NEW p \in pending' \cup popped, p.msg \notin expired
      PROVE  /\ p.msg \in work'[p.grp] \/ <<p.grp, p.msg>> \in ckpt
             /\ p.msg \in work'[p.grp] => delivery'[p.grp][p.msg] = p.tok
  <2>1. CASE p \in pending \cup popped
    <3>1. p.grp \in Groups /\ p.msg \in Messages /\ p.tok # NoToken
      BY <2>1, OutstandingTyped
    <3>2. /\ p.msg \in work[p.grp] \/ <<p.grp, p.msg>> \in ckpt
          /\ p.msg \in work[p.grp] => delivery[p.grp][p.msg] = p.tok
      BY <1>5, <2>1 DEF HolderInv, DeliveryCurrent
    <3>3. work'[p.grp] = work[p.grp] \ Gone[p.grp]
      BY <3>1
    <3>4. p.msg \in work'[p.grp] => <<p.grp, p.msg>> \notin E
      BY <1>2, <3>1, <3>2, <3>3
    <3>5. p.msg \in work'[p.grp] => delivery'[p.grp][p.msg] = delivery[p.grp][p.msg]
      BY <3>1, <3>3, <3>4 DEF MarkDelivery
    <3> QED BY <1>5, <3>1, <3>2, <3>3, <3>5
  <2>2. ASSUME NEW e \in E, p = Sent(e)
        PROVE  p.msg \in work'[p.grp] /\ delivery'[p.grp][p.msg] = p.tok
    <3>1. work'[e[1]] = work[e[1]] \ Gone[e[1]]
      BY <1>2
    <3>2. delivery'[e[1]][e[2]] = FreshToken(e[1], e[2])
      BY <1>2 DEF MarkDelivery
    <3> QED BY <1>2, <2>2, <3>1, <3>2
  <2> QED BY <1>1, <2>1, <2>2
<1>6. DeliveryCurrent'
  BY <1>5 DEF DeliveryCurrent
<1> QED BY <1>4, <1>6 DEF HolderInv

\* A completion without eviction leaves a checkpoint that keeps the message out.
LEMMA PutHolders ==
  ASSUME TypeOK, HolderInv, NEW g \in Groups, NEW m \in Messages, PutCheckpoint(g, m),
         NothingEvicted, pending' \subseteq pending, UNCHANGED <<popped, expired>>
  PROVE  HolderInv'
<1>1. HeldOnce'
  BY DEF HolderInv, HeldOnce, Carries
<1>2. ASSUME NEW p \in pending' \cup popped, p.msg \notin expired
      PROVE  /\ p.msg \in work'[p.grp] \/ <<p.grp, p.msg>> \in ckpt'
             /\ p.msg \in work'[p.grp] => delivery'[p.grp][p.msg] = p.tok
  <2>1. p \in pending \cup popped /\ p.grp \in Groups /\ p.msg \in Messages
    BY <1>2, OutstandingTyped
  <2>2. /\ p.msg \in work[p.grp] \/ <<p.grp, p.msg>> \in ckpt
        /\ p.msg \in work[p.grp] => delivery[p.grp][p.msg] = p.tok
    BY <1>2, <2>1 DEF HolderInv, DeliveryCurrent
  <2>3. CASE UNCHANGED <<laneVars, ckpt>>
    BY <2>2, <2>3
  <2>4. CASE /\ m \notin expired /\ ckpt' \in Retained(g, m)
             /\ work' = [work EXCEPT ![g] = @ \ {m}] /\ MarkDelivery({}, Only(g, m))
    <3>1. <<g, m>> \in ckpt'
      BY <2>4 DEF Retained, Evicted, Compacted
    <3>2. <<p.grp, p.msg>> \in ckpt => <<p.grp, p.msg>> \in ckpt'
      BY <1>2 DEF NothingEvicted
    <3>3. work'[p.grp] = IF p.grp = g THEN work[g] \ {m} ELSE work[p.grp]
      BY <2>1, <2>4 DEF TypeOK
    <3>4. CASE p.grp = g /\ p.msg = m
      BY <3>1, <3>3, <3>4
    <3>5. CASE ~(p.grp = g /\ p.msg = m)
      <4>1. p.msg \notin Only(g, m)[p.grp]
        BY <2>1, <3>5 DEF Only
      <4>2. delivery'[p.grp][p.msg] = delivery[p.grp][p.msg]
        BY <2>1, <2>4, <4>1 DEF MarkDelivery
      <4> QED BY <2>2, <3>2, <3>3, <3>5, <4>2
    <3> QED BY <3>4, <3>5
  <2> QED BY <2>3, <2>4 DEF PutCheckpoint
<1>3. DeliveryCurrent'
  BY <1>2 DEF DeliveryCurrent
<1> QED BY <1>1, <1>3 DEF HolderInv

\* Without eviction every step keeps one delivery per queued message, the current one.
LEMMA HolderStep ==
  TypeOK /\ HolderInv /\ [Next]_vars /\ [NothingEvicted]_vars => HolderInv'
<1> SUFFICES ASSUME TypeOK, HolderInv, [Next]_vars, [NothingEvicted]_vars PROVE HolderInv'
  OBVIOUS
<1>1. CASE /\ UNCHANGED <<laneVars, pending, popped, ckpt>> /\ expired \subseteq expired'
  BY <1>1 DEF HolderInv, HeldOnce, DeliveryCurrent, Carries
<1>2. CASE UNCHANGED vars
  BY <1>1, <1>2
<1>3. ASSUME NEW S, NEW rank, PrepareGroupWork(S, rank),
             UNCHANGED <<pending, popped, expired, ckpt>>
      PROVE  HolderInv'
  BY <1>3, PrepareHolders
<1>4. ASSUME NEW S \in Batches, NEW rank \in Rankings(S), AcceptBatch(S, rank)
      PROVE  HolderInv'
  BY <1>3, <1>4 DEF AcceptBatch
<1>5. ASSUME NEW m \in accepting, AcceptIndex(m) PROVE HolderInv'
  <2>1. CASE PrepareGroupWork({m}, ordinal)
    BY <1>3, <1>5, <2>1 DEF AcceptIndex
  <2>2. CASE UNCHANGED laneVars
    BY <1>1, <1>5, <2>2 DEF AcceptIndex
  <2> QED BY <1>5, <2>1, <2>2 DEF AcceptIndex
<1>6. ASSUME NEW s \in Subs, SubscribeFinish(s) PROVE HolderInv'
  BY <1>3, <1>6 DEF SubscribeFinish
<1>7. ASSUME NEW m \in accepting, AcceptDispatch(m) PROVE HolderInv'
  <2>1. PICK E \in SUBSET Heads(NoneGone) : SendDeliveries(E) /\ MarkDelivery(E, NoneGone)
    BY <1>7 DEF AcceptDispatch, Dispatched
  <2>2. /\ work' = [g \in Groups |-> work[g] \ NoneGone[g]]
        /\ \A g \in Groups : \A x \in NoneGone[g] : x \in expired \/ <<g, x>> \in ckpt
        /\ UNCHANGED <<popped, expired, ckpt>>
    BY <1>7 DEF AcceptDispatch, NoneGone, TypeOK
  <2> QED BY <2>1, <2>2, DispatchHolders
<1>8. ASSUME NEW cleanup \in BOOLEAN, GroupLoop(cleanup) PROVE HolderInv'
  <2>1. PICK E \in SUBSET Heads(Swept(cleanup)) :
          SendDeliveries(E) /\ MarkDelivery(E, Swept(cleanup))
    BY <1>8 DEF GroupLoop, Dispatched
  <2>2. /\ work' = [g \in Groups |-> work[g] \ Swept(cleanup)[g]]
        /\ UNCHANGED <<popped, expired, ckpt>>
    BY <1>8 DEF GroupLoop
  <2>3. \A g \in Groups : \A x \in Swept(cleanup)[g] : x \in expired \/ <<g, x>> \in ckpt
    BY DEF Swept, CheckpointActive
  <2> QED BY <2>1, <2>2, <2>3, DispatchHolders
<1>9. ASSUME NEW p \in pending, Ack(p) PROVE HolderInv'
  <2>1. p.grp \in Groups /\ p.msg \in Messages
    BY OutstandingTyped
  <2>2. /\ PutCheckpoint(p.grp, p.msg) /\ pending' \subseteq pending
        /\ UNCHANGED <<popped, expired>>
    BY <1>9 DEF Ack
  <2>3. CASE NothingEvicted
    BY <2>1, <2>2, <2>3, PutHolders
  <2> QED BY <1>2, <2>3
<1>10. ASSUME NEW g \in Groups, NEW m \in Messages, PeerCheckpoint(g, m) PROVE HolderInv'
  <2>1. PutCheckpoint(g, m) /\ pending' \subseteq pending /\ UNCHANGED <<popped, expired>>
    BY <1>10 DEF PeerCheckpoint
  <2>2. CASE NothingEvicted
    BY <2>1, <2>2, PutHolders
  <2> QED BY <1>2, <2>2
<1>11. CASE MaintenancePop
  <2>1. /\ UNCHANGED <<laneVars, expired>> /\ pending' \cup popped' = pending \cup popped
        /\ pending' \cap popped' = {}
        /\ \A e \in ckpt \ ckpt' : e[2] \in expired
    BY <1>11 DEF MaintenancePop, Compacted, TypeOK
  <2>2. HeldOnce'
    BY <2>1 DEF HolderInv, HeldOnce, Carries
  <2>3. ASSUME NEW p \in pending \cup popped, p.msg \notin expired
        PROVE  <<p.grp, p.msg>> \in ckpt => <<p.grp, p.msg>> \in ckpt'
    BY <2>1, <2>3
  <2>4. DeliveryCurrent'
    BY <2>1, <2>3 DEF HolderInv, DeliveryCurrent
  <2> QED BY <2>2, <2>4 DEF HolderInv
<1>12. ASSUME NEW p \in popped, RetryGroup(p) PROVE HolderInv'
  <2>1. /\ p.grp \in Groups /\ p.msg \in Messages /\ p \in pending \cup popped
        /\ popped' = popped \ {p} /\ UNCHANGED <<work, pending, expired, ckpt>>
    BY <1>12, OutstandingTyped DEF RetryGroup
  <2>2. ASSUME NEW g \in Groups, NEW m \in Messages
        PROVE  delivery'[g][m] = IF g = p.grp /\ m = p.msg /\ m \in work[g] /\ delivery[g][m] = p.tok
                                 THEN NoToken ELSE delivery[g][m]
    BY <1>12, <2>1 DEF RetryGroup, TypeOK
  <2>3. HeldOnce'
    BY <2>1 DEF HolderInv, HeldOnce, Carries
  <2>4. ASSUME NEW q \in pending \cup popped', q.msg \notin expired
        PROVE  /\ q.msg \in work[q.grp] \/ <<q.grp, q.msg>> \in ckpt
               /\ q.msg \in work[q.grp] => delivery'[q.grp][q.msg] = q.tok
    <3>1. /\ q \in pending \cup popped
          /\ q.grp \in Groups /\ q.msg \in Messages
      BY <2>1, <2>4, OutstandingTyped
    <3>2. /\ q.msg \in work[q.grp] \/ <<q.grp, q.msg>> \in ckpt
          /\ q.msg \in work[q.grp] => delivery[q.grp][q.msg] = q.tok
      BY <2>4, <3>1 DEF HolderInv, DeliveryCurrent
    <3>3. q # p
      BY <2>1, <2>4 DEF HolderInv, HeldOnce
    <3>4. ~Carries(p, q)
      BY <2>1, <3>1, <3>3 DEF HolderInv, HeldOnce
    <3> QED BY <2>2, <3>1, <3>2, <3>4 DEF Carries
  <2>5. DeliveryCurrent'
    BY <2>1, <2>4 DEF DeliveryCurrent
  <2> QED BY <2>3, <2>5 DEF HolderInv
<1>13. ASSUME NEW m \in Messages, Expire(m) PROVE HolderInv'
  BY <1>1, <1>13 DEF Expire
<1> QED
  BY <1>1, <1>2, <1>4, <1>5, <1>6, <1>7, <1>8, <1>9, <1>10, <1>11, <1>12, <1>13
     DEF Next, AcceptReject, SubscribeReserve, SubscribeRegister, SubscribeRefuse,
         SubscribeOverflow, WriteFrame, StreamExit, Nack, Deadline, BecomesDue,
         ExpireCache, DrainStart, DrainSweep

\* Without eviction a completion is remembered until its message expires.
LEMMA DoneStep == TypeOK /\ DoneKept /\ [Next]_vars /\ [NothingEvicted]_vars => DoneKept'
<1> SUFFICES ASSUME TypeOK, DoneKept, [Next]_vars, [NothingEvicted]_vars PROVE DoneKept'
  OBVIOUS
<1>1. CASE UNCHANGED <<done, ckpt>> /\ expired \subseteq expired'
  BY <1>1 DEF DoneKept
<1>2. CASE UNCHANGED vars
  BY <1>1, <1>2
<1>3. ASSUME NEW g \in Groups, NEW m \in Messages, PutCheckpoint(g, m), NothingEvicted,
             UNCHANGED expired
      PROVE  DoneKept'
  <2>1. CASE UNCHANGED <<done, ckpt>>
    BY <1>3, <2>1 DEF DoneKept
  <2>2. CASE /\ m \notin expired /\ ckpt' \in Retained(g, m)
             /\ done' = [done EXCEPT ![g] = @ \cup {m}]
    <3>1. <<g, m>> \in ckpt'
      BY <2>2 DEF Retained, Evicted, Compacted
    <3>2. ASSUME NEW h \in Groups, NEW x \in Messages, x \in done'[h]
          PROVE  x \in expired \/ <<h, x>> \in ckpt'
      <4>1. x \in done[h] \/ (h = g /\ x = m)
        BY <2>2, <3>2 DEF TypeOK
      <4>2. <<h, x>> \in ckpt => <<h, x>> \in ckpt' \/ x \in expired
        BY <1>3 DEF NothingEvicted
      <4> QED BY <3>1, <4>1, <4>2 DEF DoneKept
    <3> QED BY <1>3, <3>2 DEF DoneKept
  <2> QED BY <1>3, <2>1, <2>2 DEF PutCheckpoint
<1>4. ASSUME NEW p \in pending, Ack(p) PROVE DoneKept'
  <2>1. p.grp \in Groups /\ p.msg \in Messages
    BY OutstandingTyped
  <2> QED BY <1>2, <1>3, <1>4, <2>1 DEF Ack
<1>5. ASSUME NEW g \in Groups, NEW m \in Messages, PeerCheckpoint(g, m) PROVE DoneKept'
  BY <1>2, <1>3, <1>5 DEF PeerCheckpoint
<1>6. CASE MaintenancePop
  BY <1>6 DEF MaintenancePop, Compacted, DoneKept
<1>7. ASSUME NEW m \in Messages, Expire(m) PROVE DoneKept'
  BY <1>1, <1>7 DEF Expire
<1> QED
  BY <1>1, <1>2, <1>4, <1>5, <1>6, <1>7
     DEF Next, AcceptBatch, AcceptReject, AcceptIndex, AcceptDispatch, SubscribeReserve,
         SubscribeRegister, SubscribeRefuse, SubscribeFinish, SubscribeOverflow, WriteFrame,
         StreamExit, Nack, Deadline, BecomesDue, ExpireCache, RetryGroup, GroupLoop,
         DrainStart, DrainSweep

\* Only the current delivery of the head of a lane is outstanding.
LEMMA HolderExclusive == TypeOK /\ LaneInv /\ HolderInv => KeyExclusive
<1> SUFFICES ASSUME TypeOK, LaneInv, HolderInv, NEW p \in pending, NEW q \in pending,
                    p.grp = q.grp, Key[p.msg] = Key[q.msg],
                    {p.msg, q.msg} \subseteq work[p.grp] \ expired
             PROVE  p = q
  BY DEF KeyExclusive
<1>1. /\ p.grp \in Groups /\ p.msg \in Messages /\ p.tok # NoToken
      /\ q.msg \in Messages /\ q.tok # NoToken
  BY OutstandingTyped
<1>2. delivery[p.grp][p.msg] = p.tok /\ delivery[p.grp][q.msg] = q.tok
  BY DEF HolderInv, DeliveryCurrent
<1>3. p.msg = q.msg
  BY <1>1, <1>2 DEF LaneInv, LaneOrder, KeyGate, SameLane
<1>4. Carries(p, q)
  BY <1>2, <1>3 DEF Carries
<1> QED BY <1>4 DEF HolderInv, HeldOnce

\* As long as no checkpoint of a live message is evicted, two members never hold unfinished
\* work of the same key: whatever timeouts, fenced streams, completions by peers, joins and
\* duplicate publications do.
THEOREM OneHolderPerKey == Spec /\ [][NothingEvicted]_vars => []KeyExclusive
<1>1. Init => HolderInv /\ LaneInv
  BY DEF Init, HolderInv, HeldOnce, DeliveryCurrent, LaneInv, LaneOrder, KeyGate
<1>2. LaneOrder /\ KeyGate => LaneInv
  BY DEF LaneInv
<1> QED BY <1>1, <1>2, Typing, LaneSafety, HolderStep, HolderExclusive, PTL DEF Spec

\* As long as no checkpoint of a live message is evicted, no step sends a group a message
\* that the group has completed.
THEOREM NoResend == Spec /\ [][NothingEvicted]_vars => CompletedNotResent
<1>1. Init => DoneKept
  BY DEF Init, DoneKept
<1>2. ASSUME TypeOK, CheckpointDone, DoneKept, [Next]_vars
      PROVE  [\A p \in pending' \ pending : p.msg \notin done[p.grp]]_vars
  <2>1. ASSUME NEW Gone, NEW E \in SUBSET Heads(Gone), SendDeliveries(E),
               NEW p \in pending' \ pending
        PROVE  p.msg \notin done[p.grp]
    <3>1. PICK e \in E : p = Sent(e)
      BY <2>1 DEF SendDeliveries
    <3>2. p.grp = e[1] /\ p.msg = e[2] /\ e[1] \in Groups /\ e[2] \in Messages
      BY <1>2, <3>1, HeadTyped DEF Sent
    <3>3. e[2] \in work[e[1]] /\ e[2] \notin expired
      BY DEF Heads
    <3> QED BY <1>2, <3>2, <3>3 DEF CheckpointDone, CheckpointActive, DoneKept
  <2>2. CASE pending' \subseteq pending
    BY <2>2
  <2>3. ASSUME NEW m \in accepting, AcceptDispatch(m)
        PROVE  \A p \in pending' \ pending : p.msg \notin done[p.grp]
    <3>1. PICK E \in SUBSET Heads(NoneGone) : SendDeliveries(E)
      BY <2>3 DEF AcceptDispatch, Dispatched
    <3> QED BY <2>1, <3>1
  <2>4. ASSUME NEW cleanup \in BOOLEAN, GroupLoop(cleanup)
        PROVE  \A p \in pending' \ pending : p.msg \notin done[p.grp]
    <3>1. PICK E \in SUBSET Heads(Swept(cleanup)) : SendDeliveries(E)
      BY <2>4 DEF GroupLoop, Dispatched
    <3> QED BY <2>1, <3>1
  <2> QED
    BY <1>2, <2>2, <2>3, <2>4
       DEF Next, AcceptBatch, AcceptReject, AcceptIndex, SubscribeReserve,
           SubscribeRegister, SubscribeRefuse, SubscribeFinish, SubscribeOverflow, WriteFrame,
           StreamExit, Ack, PeerCheckpoint, Nack, Deadline, BecomesDue, ExpireCache,
           MaintenancePop, RetryGroup, Expire, DrainStart, DrainSweep
<1> QED BY <1>1, <1>2, Typing, CompletedNotQueued, DoneStep, PTL DEF Spec, CompletedNotResent

-----------------------------------------------------------------------------
(* Overtaking.  A join that fails for lack of memory leaves its group       *)
(* registered without the backlog, and a later message may then be sent     *)
(* first.  The theorem says that a failed join is the only way.             *)

\* The step is not a subscription that fails after it has registered its group.
NoJoinFails == \A s \in Subs : ~SubscribeOverflow(s)

Joining == \E s \in Subs : stream[s] = "joining"
Unfinished(g) == cached \ (expired \cup done[g])
AcceptedKept == \A m \in Messages : ordinal[m] > 0 /\ m \notin expired => m \in cached
GroupsIndexed == ~Joining => \A g \in groups : Unfinished(g) \subseteq work[g]
OnlyAccepted ==
  /\ accepting # {} => ~Joining
  /\ \A m \in accepting : ordinal[m] > 0
  /\ \A g \in Groups : \A m \in work[g] : ordinal[m] > 0
EarlierAhead ==
  \A g \in Groups : \A m \in work[g] : \A x \in SameLane(m) :
    0 < ordinal[x] /\ ordinal[x] < ordinal[m] => x \in done[g] \cup expired \cup ahead[g][m]
OrderInv == AcceptedKept /\ GroupsIndexed /\ OnlyAccepted /\ EarlierAhead

\* Indexing puts every unfinished earlier message of a lane in front of a new entry.
LEMMA PrepareOrder ==
  ASSUME TypeOK, OrderInv, NEW S, S \subseteq Messages, NEW rank, PrepareGroupWork(S, rank),
         UNCHANGED <<expired, groups, ckpt, done>>,
         \A g \in Groups : \A m \in work[g] :
           /\ ordinal'[m] = ordinal[m]
           /\ \A x \in Messages : ordinal'[x] < ordinal'[m] => ordinal'[x] = ordinal[x],
         \A g \in groups : \A m \in Missing(g, S) : \A x \in SameLane(m) :
           0 < ordinal'[x] /\ ordinal'[x] < ordinal'[m] =>
             \/ x \in done[g] \cup expired \cup work[g]
             \/ x \in Missing(g, S) /\ rank[x] < rank[m]
  PROVE  EarlierAhead'
<1> SUFFICES ASSUME NEW g \in Groups, NEW m \in work'[g], NEW x \in SameLane(m),
                    0 < ordinal'[x], ordinal'[x] < ordinal'[m]
             PROVE  x \in done[g] \cup expired \cup ahead'[g][m]
  BY DEF EarlierAhead, SameLane
<1>1. work'[g] = work[g] \cup Missing(g, S) /\ x \in Messages
  BY DEF PrepareGroupWork, SameLane
<1>2. /\ \A y \in Missing(g, S) : y \in S /\ g \in groups /\ y \notin work[g]
      /\ work[g] \subseteq Messages
  BY DEF Missing, TypeOK
<1>3. CASE m \in work[g]
  <2>1. m \in Messages /\ m \notin Missing(g, S)
    BY <1>2, <1>3
  <2>2. ahead'[g][m] = ahead[g][m]
    BY <2>1 DEF PrepareGroupWork
  <2>3. ordinal[x] = ordinal'[x] /\ ordinal[m] = ordinal'[m]
    BY <1>1, <1>3
  <2>4. x \in done[g] \cup expired \cup ahead[g][m]
    BY <1>3, <2>3 DEF OrderInv, EarlierAhead
  <2> QED BY <2>2, <2>4
<1>4. CASE m \in Missing(g, S)
  <2>1. m \in Messages
    BY <1>2, <1>4
  <2>2. ahead'[g][m] = SameLane(m) \cap (work[g] \cup {y \in Missing(g, S) : rank[y] < rank[m]})
    BY <1>4, <2>1 DEF PrepareGroupWork
  <2>3. \/ x \in done[g] \cup expired \cup work[g]
        \/ x \in Missing(g, S) /\ rank[x] < rank[m]
    BY <1>2, <1>4
  <2> QED BY <2>2, <2>3
<1> QED BY <1>1, <1>3, <1>4

\* A message of the list that is not missing is queued or completed.
LEMMA ListedOrDone ==
  ASSUME TypeOK, RegInv, NEW S, S \subseteq Messages, NEW g \in groups, NEW x \in S,
         x \notin expired, x \notin done[g], x \notin work[g]
  PROVE  x \in Missing(g, S)
  BY DEF Missing, CheckpointActive, RegInv, CheckpointsRecorded, TypeOK

\* What a batch does to the acceptance order: old messages keep their ordinals, new ones
\* come after them in batch order.
LEMMA BatchOrder ==
  ASSUME TypeOK, OrdinalOrder,
         NEW S \in Batches, NEW rank \in Rankings(S), AcceptBatch(S, rank)
  PROVE  /\ \A m \in Messages \ NewIn(S) : ordinal'[m] = ordinal[m]
         /\ \A m \in NewIn(S) : ordinal'[m] \in Nat /\ ordinal'[m] > lastOrdinal
         /\ \A x, y \in NewIn(S) : ordinal'[x] < ordinal'[y] => rank[x] < rank[y]
<1> DEFINE N == NewIn(S)
           below(m) == {x \in N : rank[x] <= rank[m]}
<1>1. S \subseteq Messages /\ N \subseteq S /\ IsFiniteSet(N) /\ lastOrdinal \in Nat
  BY Sizes DEF Batches, NewIn, TypeOK
<1>2. /\ \A x \in N : rank[x] \in Nat
      /\ \A x, y \in N : x # y => rank[x] # rank[y]
  <2>1. Cardinality(S) \in Nat
    BY <1>1, Sizes
  <2> QED BY <1>1, <2>1 DEF Rankings
<1>3. ordinal' = [m \in Messages |->
                    IF m \in N THEN lastOrdinal + Cardinality(below(m)) ELSE ordinal[m]]
  BY DEF AcceptBatch
<1>4. ASSUME NEW m \in N PROVE Cardinality(below(m)) \in Nat /\ Cardinality(below(m)) > 0
  <2>1. below(m) \in SUBSET N /\ m \in below(m)
    BY <1>2
  <2>2. IsFiniteSet(below(m))
    BY <1>1, <2>1, FS_Subset
  <2>3. Cardinality(below(m)) \in Nat /\ Cardinality(below(m)) # 0
    BY <2>1, <2>2, FS_CardinalityType, FS_EmptySet
  <2> QED BY <2>3
<1>5. ASSUME NEW x \in N, NEW y \in N, rank[y] < rank[x]
      PROVE  Cardinality(below(y)) < Cardinality(below(x))
  BY <1>1, <1>2, <1>5, RankCount
<1>6. \A m \in N : ordinal'[m] = lastOrdinal + Cardinality(below(m))
  BY <1>1, <1>3
<1> HIDE DEF N, below
<1>7. ASSUME NEW x \in N, NEW y \in N, ordinal'[x] < ordinal'[y] PROVE rank[x] < rank[y]
  <2>1. /\ ordinal'[x] = lastOrdinal + Cardinality(below(x)) /\ Cardinality(below(x)) \in Nat
        /\ ordinal'[y] = lastOrdinal + Cardinality(below(y)) /\ Cardinality(below(y)) \in Nat
    BY <1>4, <1>6
  <2>2. Cardinality(below(x)) < Cardinality(below(y))
    BY <1>1, <1>7, <2>1
  <2>3. rank[x] \in Nat /\ rank[y] \in Nat /\ (x # y => rank[x] # rank[y]) /\ x # y
    BY <1>2, <2>1, <2>2
  <2>4. ~(rank[y] < rank[x])
    BY <1>5, <2>1, <2>2
  <2> QED BY <2>3, <2>4
<1>8. \A m \in N : ordinal'[m] \in Nat /\ ordinal'[m] > lastOrdinal
  BY <1>1, <1>4, <1>6
<1>9. \A m \in Messages \ N : ordinal'[m] = ordinal[m]
  BY <1>3
<1> QED BY <1>7, <1>8, <1>9 DEF N

\* A batch queues its messages behind everything unfinished that was accepted before.
LEMMA BatchKeepsOrder ==
  ASSUME TypeOK, OrdinalOrder, RegInv, OrderInv,
         NEW S \in Batches, NEW rank \in Rankings(S), AcceptBatch(S, rank)
  PROVE  OrderInv'
<1>1. /\ S \subseteq Messages /\ NewIn(S) \subseteq S /\ S \subseteq NewIn(S) \cup cached
      /\ CacheFree /\ PrepareGroupWork(S, rank)
      /\ cached' = ExpireLocked \cup S /\ accepting' = NewIn(S)
      /\ UNCHANGED <<expired, groups, ckpt, done, stream>>
  BY DEF AcceptBatch, Batches, NewIn, ExpireLocked
<1>2. /\ \A m \in Messages \ NewIn(S) : ordinal'[m] = ordinal[m]
      /\ \A m \in NewIn(S) : ordinal'[m] \in Nat /\ ordinal'[m] > lastOrdinal
      /\ \A x, y \in NewIn(S) : ordinal'[x] < ordinal'[y] => rank[x] < rank[y]
  BY BatchOrder
<1>3. /\ lastOrdinal \in Nat /\ \A m \in Messages : ordinal[m] \in Nat /\ ordinal[m] <= lastOrdinal
      /\ cached \subseteq Messages /\ \A m \in cached : ordinal[m] > 0
  BY DEF OrdinalOrder, TypeOK
<1>4. \A m \in NewIn(S) : ordinal[m] = 0
  BY DEF AcceptBatch, CanOffer, NewIn
<1>5. ~Joining /\ ~Joining'
  BY <1>1 DEF CacheFree, Joining
<1>6. ASSUME NEW g \in groups, NEW x \in Messages, x \notin NewIn(S), 0 < ordinal'[x],
             x \notin expired, x \notin done[g]
      PROVE  x \in work[g]
  <2>1. ordinal[x] > 0
    BY <1>2, <1>6
  <2>2. x \in cached
    BY <1>6, <2>1 DEF OrderInv, AcceptedKept
  <2> QED BY <1>5, <1>6, <2>2 DEF OrderInv, GroupsIndexed, Unfinished
<1>7. \A g \in Groups : \A m \in work[g] :
        /\ ordinal'[m] = ordinal[m]
        /\ \A x \in Messages : ordinal'[x] < ordinal'[m] => ordinal'[x] = ordinal[x]
  <2> SUFFICES ASSUME NEW g \in Groups, NEW m \in work[g]
               PROVE  /\ ordinal'[m] = ordinal[m]
                      /\ \A x \in Messages : ordinal'[x] < ordinal'[m] => ordinal'[x] = ordinal[x]
    OBVIOUS
  <2>1. m \in Messages /\ ordinal[m] > 0
    BY DEF OrderInv, OnlyAccepted, TypeOK
  <2>2. m \notin NewIn(S)
    BY <1>4, <2>1
  <2>3. ordinal'[m] = ordinal[m]
    BY <1>2, <2>1, <2>2
  <2>4. \A x \in Messages : ordinal'[x] < ordinal'[m] => x \notin NewIn(S)
    BY <1>2, <1>3, <2>1, <2>3
  <2> QED BY <1>2, <2>3, <2>4
<1>8. ASSUME NEW g \in groups, NEW m \in Missing(g, S), NEW x \in SameLane(m),
             0 < ordinal'[x], ordinal'[x] < ordinal'[m]
      PROVE  \/ x \in done[g] \cup expired \cup work[g]
             \/ x \in Missing(g, S) /\ rank[x] < rank[m]
  <2>1. x \in Messages /\ m \in S
    BY DEF SameLane, Missing
  <2>2. CASE x \notin NewIn(S)
    BY <1>6, <1>8, <2>1, <2>2
  <2>3. CASE x \in NewIn(S)
    <3>1. m \in NewIn(S)
      BY <1>1, <1>2, <1>3, <1>8, <2>1, <2>3
    <3>2. rank[x] < rank[m]
      BY <1>2, <1>8, <2>3, <3>1
    <3>3. x \in done[g] \cup expired \cup work[g] \/ x \in Missing(g, S)
      BY <1>1, <2>3, ListedOrDone
    <3> QED BY <3>2, <3>3
  <2> QED BY <2>2, <2>3
<1>9. EarlierAhead'
  BY <1>1, <1>7, <1>8, PrepareOrder
<1>10. AcceptedKept'
  <2> SUFFICES ASSUME NEW m \in Messages, ordinal'[m] > 0, m \notin expired PROVE m \in cached'
    BY <1>1 DEF AcceptedKept
  <2>1. CASE m \in NewIn(S)
    BY <1>1, <2>1
  <2>2. CASE m \notin NewIn(S)
    BY <1>1, <1>2, <2>2 DEF OrderInv, AcceptedKept, ExpireLocked
  <2> QED BY <2>1, <2>2
<1>11. \A g \in Groups : work'[g] = work[g] \cup Missing(g, S)
  BY <1>1 DEF PrepareGroupWork
<1>12. GroupsIndexed'
  <2> SUFFICES ASSUME NEW g \in groups, NEW m \in cached', m \notin expired, m \notin done[g]
               PROVE  m \in work'[g]
    BY <1>1 DEF GroupsIndexed, Unfinished
  <2>1. g \in Groups
    BY DEF TypeOK
  <2>2. CASE m \in S
    BY <1>1, <1>11, <2>1, <2>2, ListedOrDone
  <2>3. CASE m \in cached
    BY <1>5, <1>11, <2>1, <2>3 DEF OrderInv, GroupsIndexed, Unfinished
  <2> QED BY <1>1, <2>2, <2>3 DEF ExpireLocked
<1>13. OnlyAccepted'
  <2>1. \A m \in accepting' : ordinal'[m] > 0
    BY <1>1, <1>2, <1>3
  <2>2. \A m \in S : ordinal'[m] > 0
    BY <1>1, <1>2, <1>3
  <2>3. ASSUME NEW g \in Groups, NEW m \in work'[g] PROVE ordinal'[m] > 0
    <3>1. CASE m \in work[g]
      BY <1>7, <3>1 DEF OrderInv, OnlyAccepted
    <3>2. CASE m \in Missing(g, S)
      BY <2>2, <3>2 DEF Missing
    <3> QED BY <1>11, <3>1, <3>2
  <2> QED BY <1>5, <2>1, <2>3 DEF OnlyAccepted
<1> QED BY <1>9, <1>10, <1>12, <1>13 DEF OrderInv

\* deliver, when it indexes a message again, finds everything unfinished before it queued.
LEMMA IndexKeepsOrder ==
  ASSUME TypeOK, RegInv, OrderInv, NEW m \in accepting, AcceptIndex(m)
  PROVE  OrderInv'
<1>1. /\ {m} \subseteq Messages /\ m \in Messages
      /\ UNCHANGED <<ordinal, cached, accepting, expired, groups, ckpt, done, stream>>
  BY DEF AcceptIndex, TypeOK
<1>2. ~Joining /\ ordinal[m] > 0
  BY DEF OrderInv, OnlyAccepted
<1>3. CASE UNCHANGED laneVars
  BY <1>1, <1>3 DEF OrderInv, AcceptedKept, GroupsIndexed, OnlyAccepted, EarlierAhead, Joining,
                    Unfinished, SameLane
<1>4. CASE PrepareGroupWork({m}, ordinal)
  <2>1. \A g \in Groups : work'[g] = work[g] \cup Missing(g, {m}) /\ Missing(g, {m}) \subseteq {m}
    BY <1>4 DEF PrepareGroupWork, Missing
  <2>2. ASSUME NEW g \in groups, NEW x \in Messages, 0 < ordinal[x]
        PROVE  x \in done[g] \cup expired \cup work[g]
    BY <1>2, <2>2 DEF OrderInv, AcceptedKept, GroupsIndexed, Unfinished
  <2>3. \A g \in Groups : \A y \in work[g] :
          /\ ordinal'[y] = ordinal[y]
          /\ \A x \in Messages : ordinal'[x] < ordinal'[y] => ordinal'[x] = ordinal[x]
    BY <1>1
  <2>4. \A g \in groups : \A y \in Missing(g, {m}) : \A x \in SameLane(y) :
          0 < ordinal'[x] /\ ordinal'[x] < ordinal'[y] =>
             \/ x \in done[g] \cup expired \cup work[g]
             \/ x \in Missing(g, {m}) /\ ordinal[x] < ordinal[y]
    BY <1>1, <2>2 DEF SameLane
  <2>5. EarlierAhead'
    BY <1>1, <1>4, <2>3, <2>4, PrepareOrder
  <2>6. AcceptedKept' /\ OnlyAccepted'
    BY <1>1, <1>2, <2>1 DEF OrderInv, AcceptedKept, OnlyAccepted, Joining
  <2>7. GroupsIndexed'
    BY <1>1, <2>1 DEF OrderInv, GroupsIndexed, Joining, Unfinished, TypeOK
  <2> QED BY <2>5, <2>6, <2>7 DEF OrderInv
<1> QED BY <1>3, <1>4 DEF AcceptIndex

\* A join that succeeds queues the whole unfinished backlog in cache order.
LEMMA JoinKeepsOrder ==
  ASSUME TypeOK, OrdinalOrder, RegInv, OrderInv, NEW s \in Subs, SubscribeFinish(s)
  PROVE  OrderInv'
<1>1. /\ PrepareGroupWork(cached, ordinal) /\ cached \subseteq Messages /\ stream[s] = "joining"
      /\ UNCHANGED <<ordinal, cached, accepting, expired, groups, ckpt, done>>
  BY DEF SubscribeFinish, TypeOK
<1>2. accepting = {}
  BY <1>1 DEF OrderInv, OnlyAccepted, Joining
<1>3. \A g \in Groups :
        work'[g] = work[g] \cup Missing(g, cached) /\ Missing(g, cached) \subseteq cached
  BY <1>1 DEF PrepareGroupWork, Missing
<1>4. ASSUME NEW g \in groups, NEW x \in cached
      PROVE  x \in done[g] \cup expired \cup work[g] \cup Missing(g, cached)
  BY <1>1, ListedOrDone
<1>5. \A g \in Groups : \A y \in work[g] :
        /\ ordinal'[y] = ordinal[y]
        /\ \A x \in Messages : ordinal'[x] < ordinal'[y] => ordinal'[x] = ordinal[x]
  BY <1>1
<1>6. ASSUME NEW g \in groups, NEW y \in Missing(g, cached), NEW x \in SameLane(y),
             0 < ordinal'[x], ordinal'[x] < ordinal'[y]
      PROVE  \/ x \in done[g] \cup expired \cup work[g]
             \/ x \in Missing(g, cached) /\ ordinal[x] < ordinal[y]
  <2>1. x \in Messages /\ 0 < ordinal[x] /\ ordinal[x] < ordinal[y]
    BY <1>1, <1>6 DEF SameLane
  <2>2. x \in expired \/ x \in cached
    BY <2>1 DEF OrderInv, AcceptedKept
  <2> QED BY <1>4, <2>1, <2>2
<1>7. EarlierAhead'
  BY <1>1, <1>5, <1>6, PrepareOrder
<1>8. AcceptedKept' /\ OnlyAccepted'
  BY <1>1, <1>2, <1>3 DEF OrderInv, AcceptedKept, OnlyAccepted, OrdinalOrder
<1>9. GroupsIndexed'
  BY <1>1, <1>3, <1>4 DEF GroupsIndexed, Unfinished, TypeOK
<1> QED BY <1>7, <1>8, <1>9 DEF OrderInv

\* Unlinking takes out only completed or expired messages, so what is left in front of an
\* entry is all that it has to wait for.
LEMMA UnlinkKeepsOrder ==
  ASSUME TypeOK, OrderInv, NEW Gone, work' = [g \in Groups |-> work[g] \ Gone[g]],
         ahead' = Unlinked(Gone), groups' \subseteq groups,
         \A g \in Groups : done[g] \subseteq done'[g],
         \A g \in Groups : \A m \in work[g] \cap Gone[g] : m \in done'[g] \cup expired,
         \A g \in Groups : \A m \in work[g] : ahead[g][m] \subseteq work[g],
         UNCHANGED <<ordinal, cached, accepting, expired, stream>>
  PROVE  OrderInv'
<1>1. AcceptedKept' /\ OnlyAccepted'
  BY DEF OrderInv, AcceptedKept, OnlyAccepted, Joining
<1>2. GroupsIndexed'
  BY DEF OrderInv, GroupsIndexed, Joining, Unfinished, TypeOK
<1>3. EarlierAhead'
  <2> SUFFICES ASSUME NEW g \in Groups, NEW m \in work'[g], NEW x \in SameLane(m),
                      0 < ordinal[x], ordinal[x] < ordinal[m]
               PROVE  x \in done'[g] \cup expired \cup ahead'[g][m]
    BY DEF EarlierAhead, SameLane
  <2>1. m \in work[g] /\ m \notin Gone[g] /\ m \in Messages
    BY DEF TypeOK
  <2>2. ahead'[g][m] = ahead[g][m] \ Gone[g]
    BY <2>1 DEF Unlinked
  <2>3. x \in done[g] \cup expired \cup ahead[g][m]
    BY <2>1 DEF OrderInv, EarlierAhead
  <2>4. x \in ahead[g][m] \cap Gone[g] => x \in work[g] \cap Gone[g]
    BY <2>1
  <2> QED BY <2>2, <2>3, <2>4
<1> QED BY <1>1, <1>2, <1>3 DEF OrderInv

\* While no join fails, every step keeps unfinished earlier messages in front.
LEMMA OrderStep ==
  TypeOK /\ OrdinalOrder /\ LaneInv /\ RegInv /\ OrderInv /\ [Next]_vars /\ [NoJoinFails]_vars
    => OrderInv'
<1> SUFFICES ASSUME TypeOK, OrdinalOrder, LaneInv, RegInv, OrderInv,
                    [Next]_vars, [NoJoinFails]_vars
             PROVE  OrderInv'
  OBVIOUS
<1>1. CASE /\ UNCHANGED <<work, ahead, ordinal, groups, done>>
           /\ accepting' \subseteq accepting /\ expired \subseteq expired'
           /\ cached \ expired \subseteq cached' /\ cached' \subseteq cached
           /\ Joining' <=> Joining
  BY <1>1 DEF OrderInv, AcceptedKept, GroupsIndexed, OnlyAccepted, EarlierAhead, Unfinished,
              SameLane, TypeOK
<1>2. CASE /\ UNCHANGED <<work, ahead, ordinal, groups, done, accepting, expired, stream>>
           /\ cached' \in {cached, ExpireLocked}
  <2>1. Joining' <=> Joining
    BY <1>2 DEF Joining
  <2> QED BY <1>1, <1>2, <2>1 DEF ExpireLocked
<1>3. ASSUME NEW S \in Batches, NEW rank \in Rankings(S), AcceptBatch(S, rank)
      PROVE  OrderInv'
  BY <1>3, BatchKeepsOrder
<1>4. ASSUME NEW m \in accepting, AcceptIndex(m) PROVE OrderInv'
  BY <1>4, IndexKeepsOrder
<1>5. ASSUME NEW m \in accepting, AcceptDispatch(m) PROVE OrderInv'
  <2>1. /\ UNCHANGED <<work, ahead, ordinal, groups, done, expired, cached, stream>>
        /\ accepting' \subseteq accepting
    BY <1>5 DEF AcceptDispatch
  <2>2. Joining' <=> Joining
    BY <2>1 DEF Joining
  <2> QED BY <1>1, <2>1, <2>2
<1>6. ASSUME NEW s \in Subs, SubscribeFinish(s) PROVE OrderInv'
  BY <1>6, JoinKeepsOrder
<1>7. ASSUME NEW s \in Subs, SubscribeRegister(s) PROVE OrderInv'
  <2>1. /\ CacheFree /\ stream' = [stream EXCEPT ![s] = "joining"] /\ cached' = ExpireLocked
        /\ UNCHANGED <<work, ahead, ordinal, done, accepting, expired>>
    BY <1>7 DEF SubscribeRegister
  <2>2. Joining' /\ accepting = {}
    BY <2>1 DEF Joining, CacheFree, TypeOK
  <2> QED BY <2>1, <2>2 DEF OrderInv, AcceptedKept, GroupsIndexed, OnlyAccepted, EarlierAhead,
                            SameLane, ExpireLocked
<1>8. ASSUME NEW s \in Subs,
             SubscribeReserve(s) \/ SubscribeRefuse(s) \/ StreamExit(s)
      PROVE  OrderInv'
  <2>1. /\ stream[s] # "joining" /\ cached' \in {cached, ExpireLocked}
        /\ UNCHANGED <<work, ahead, ordinal, groups, done, accepting, expired>>
        /\ \E v \in {"reserved", "idle"} : stream' = [stream EXCEPT ![s] = v]
    BY <1>8 DEF SubscribeReserve, SubscribeRefuse, StreamExit, NameFree, Running
  <2>2. \A r \in Subs : stream'[r] = "joining" <=> stream[r] = "joining"
    BY <2>1 DEF TypeOK
  <2>3. Joining' <=> Joining
    BY <2>2 DEF Joining
  <2> QED BY <1>1, <2>1, <2>3 DEF ExpireLocked
<1>9. ASSUME NEW s \in Subs, SubscribeOverflow(s) PROVE OrderInv'
  <2>1. UNCHANGED vars
    BY <1>9 DEF NoJoinFails
  <2> QED BY <1>2, <2>1
<1>10. \A g \in Groups : \A m \in work[g] : ahead[g][m] \subseteq work[g]
  BY DEF LaneInv, LaneOrder
<1>11. ASSUME NEW g \in Groups, NEW m \in Messages, PutCheckpoint(g, m),
              UNCHANGED <<cacheVars, expired, groups, stream>>
       PROVE  OrderInv'
  <2>1. CASE UNCHANGED <<laneVars, done>>
    BY <1>2, <1>11, <2>1
  <2>2. CASE /\ work' = [work EXCEPT ![g] = @ \ {m}] /\ ahead' = Unlinked(Only(g, m))
             /\ done' = [done EXCEPT ![g] = @ \cup {m}]
    <3>1. work' = [h \in Groups |-> work[h] \ Only(g, m)[h]]
      BY <2>2 DEF Only, TypeOK
    <3>2. \A h \in Groups : done'[h] = IF h = g THEN done[g] \cup {m} ELSE done[h]
      BY <2>2 DEF TypeOK
    <3>3. \A h \in Groups : Only(g, m)[h] \subseteq IF h = g THEN {m} ELSE {}
      BY DEF Only
    <3>4. \A h \in Groups : /\ done[h] \subseteq done'[h]
                            /\ \A x \in work[h] \cap Only(g, m)[h] : x \in done'[h] \cup expired
      BY <3>2, <3>3
    <3> QED BY <1>10, <1>11, <2>2, <3>1, <3>4, UnlinkKeepsOrder
  <2> QED BY <1>11, <2>1, <2>2 DEF PutCheckpoint
<1>12. ASSUME NEW p \in pending, Ack(p) PROVE OrderInv'
  BY <1>11, <1>12, OutstandingTyped DEF Ack
<1>13. ASSUME NEW g \in Groups, NEW m \in Messages, PeerCheckpoint(g, m) PROVE OrderInv'
  BY <1>11, <1>13 DEF PeerCheckpoint
<1>14. ASSUME NEW cleanup \in BOOLEAN, GroupLoop(cleanup) PROVE OrderInv'
  <2> DEFINE Gone == Swept(cleanup)
  <2>1. /\ work' = [g \in Groups |-> work[g] \ Gone[g]] /\ ahead' = Unlinked(Gone)
        /\ groups' \subseteq groups
        /\ UNCHANGED <<ordinal, cached, accepting, expired, stream, done>>
    BY <1>14 DEF GroupLoop
  <2>2. \A g \in Groups : \A m \in work[g] \cap Gone[g] : m \in done'[g] \cup expired
    BY <2>1 DEF Swept, CheckpointActive, RegInv, CheckpointsRecorded, TypeOK
  <2>3. \A g \in Groups : done[g] \subseteq done'[g]
    BY <2>1
  <2> HIDE DEF Gone
  <2> QED BY <1>10, <2>1, <2>2, <2>3, UnlinkKeepsOrder
<1>15. ASSUME NEW m \in Messages, Expire(m) PROVE OrderInv'
  <2>1. Joining' <=> Joining
    BY <1>15 DEF Expire, Joining
  <2> QED BY <1>1, <1>15, <2>1 DEF Expire
<1> QED
  BY <1>2, <1>3, <1>4, <1>5, <1>6, <1>7, <1>8, <1>9, <1>12, <1>13, <1>14, <1>15
     DEF Next, AcceptReject, WriteFrame, Nack, Deadline, BecomesDue, ExpireCache,
         MaintenancePop, RetryGroup, DrainStart, DrainSweep

\* As long as no subscription fails after registering its group, a message is outstanding
\* only when every message of its key accepted earlier is completed or expired: whatever
\* joins, duplicate publications, evicted checkpoints and retries do.
THEOREM NothingOvertaken == Spec /\ [][NoJoinFails]_vars => []NoOvertake
<1>1. Init => OrdinalOrder /\ RegInv /\ OrderInv
  <2>1. Init => OrdinalOrder /\ RegInv
    BY DEF Init, OrdinalOrder, RegInv, MemberRegistered, CheckpointsRecorded, BacklogIndexed
  <2>2. Init => OrderInv
    BY DEF Init, OrderInv, AcceptedKept, GroupsIndexed, OnlyAccepted, EarlierAhead
  <2> QED BY <2>1, <2>2
<1>2. OrderInv /\ KeyGate => NoOvertake
  BY DEF OrderInv, EarlierAhead, KeyGate, NoOvertake
<1>3. LaneOrder /\ KeyGate => LaneInv
  BY DEF LaneInv
<1> QED BY <1>1, <1>2, <1>3, Typing, LaneSafety, OrdinalStep, RegStep, OrderStep, PTL DEF Spec

-----------------------------------------------------------------------------
(* Draining.                                                                *)

\* BeginDrain cancels the registered subscribers while no subscription is between its look at
\* Broker.draining and its registration.
SweepsAlone == DrainSweep => \A s \in Subs : stream[s] # "joining"

\* After the sweep no subscription is half registered, and none can become so.
DrainInv == swept => draining /\ \A s \in Subs : stream[s] # "joining" /\ (stream[s] = "open" => s \in cancelled)

\* Every step keeps the swept broker closed, if the sweep found no subscription half registered.
LEMMA DrainStep ==
  ASSUME TypeOK, DrainInv, Next, SweepsAlone
  PROVE  DrainInv'
<1>t. stream \in [Subs -> StreamStates]
  BY DEF TypeOK
<1>s. UNCHANGED <<stream, cancelled, draining, swept>> => DrainInv'
  BY DEF DrainInv
<1>1. ASSUME NEW S \in Batches, NEW rank \in Rankings(S), AcceptBatch(S, rank) PROVE DrainInv'
  BY <1>1, <1>s DEF AcceptBatch, drainVars
<1>2. ASSUME NEW S \in Batches, AcceptReject(S) PROVE DrainInv'
  BY <1>2, <1>s DEF AcceptReject, drainVars
<1>3. ASSUME NEW m \in accepting, AcceptIndex(m) \/ AcceptDispatch(m) PROVE DrainInv'
  BY <1>3, <1>s DEF AcceptIndex, AcceptDispatch, drainVars
<1>4. ASSUME NEW s \in Subs, SubscribeReserve(s) PROVE DrainInv'
  BY <1>4, <1>t DEF SubscribeReserve, drainVars, DrainInv
<1>5. ASSUME NEW s \in Subs, SubscribeRegister(s) PROVE DrainInv'
  BY <1>5 DEF SubscribeRegister, drainVars, DrainInv
<1>6. ASSUME NEW s \in Subs, SubscribeRefuse(s) \/ SubscribeOverflow(s) PROVE DrainInv'
  BY <1>6, <1>t DEF SubscribeRefuse, SubscribeOverflow, drainVars, DrainInv
<1>7. ASSUME NEW s \in Subs, SubscribeFinish(s) PROVE DrainInv'
  BY <1>7 DEF SubscribeFinish, drainVars, DrainInv
<1>8. ASSUME NEW s \in Subs, StreamExit(s) PROVE DrainInv'
  <2>1. /\ stream' = [stream EXCEPT ![s] = "idle"] /\ cancelled' = cancelled \ {s}
        /\ draining' = draining /\ swept' = swept
    BY <1>8 DEF StreamExit, drainVars
  <2> QED BY <1>t, <2>1 DEF DrainInv
<1>9. ASSUME NEW s \in Subs, NEW d \in chan[s], WriteFrame(s, d) PROVE DrainInv'
  BY <1>9, <1>s DEF WriteFrame, drainVars
<1>10. ASSUME NEW p \in pending, Ack(p) \/ Nack(p) \/ Deadline(p) PROVE DrainInv'
  <2>1. ASSUME Ack(p) PROVE DrainInv'
    BY <2>1, <1>s DEF Ack, drainVars
  <2>2. ASSUME Nack(p) \/ Deadline(p) PROVE DrainInv'
    BY <2>2, <1>s DEF Nack, Deadline, BecomesDue, drainVars
  <2> QED BY <1>10, <2>1, <2>2
<1>11. ASSUME NEW g \in Groups, NEW m \in Messages, PeerCheckpoint(g, m) PROVE DrainInv'
  BY <1>11, <1>s DEF PeerCheckpoint, drainVars
<1>12. CASE ExpireCache \/ MaintenancePop
  BY <1>12, <1>s DEF ExpireCache, MaintenancePop, drainVars
<1>13. ASSUME NEW p \in popped, RetryGroup(p) PROVE DrainInv'
  BY <1>13, <1>s DEF RetryGroup, drainVars
<1>14. ASSUME NEW cleanup \in BOOLEAN, GroupLoop(cleanup) PROVE DrainInv'
  BY <1>14, <1>s DEF GroupLoop, drainVars
<1>15. ASSUME NEW m \in Messages, Expire(m) PROVE DrainInv'
  BY <1>15, <1>s DEF Expire, drainVars
<1>16. CASE DrainStart
  BY <1>16 DEF DrainStart, DrainInv
<1>17. CASE DrainSweep
  BY <1>17 DEF DrainSweep, SweepsAlone, DrainInv
<1> QED BY <1>1, <1>2, <1>3, <1>4, <1>5, <1>6, <1>7, <1>8, <1>9, <1>10, <1>11, <1>12, <1>13, <1>14, <1>15,
           <1>16, <1>17 DEF Next

\* BeginDrain: if no subscription is half registered when it cancels the subscribers, every stream that
\* is open afterwards, at whatever time, has been told to close.
THEOREM DrainClosesAll == Spec /\ [][SweepsAlone]_vars => []DrainClosesStreams
<1>1. Init => DrainInv
  BY DEF Init, DrainInv
<1>2. TypeOK /\ DrainInv /\ [Next]_vars /\ [SweepsAlone]_vars => DrainInv'
  <2>1. CASE UNCHANGED vars
    BY <2>1 DEF vars, drainVars, DrainInv
  <2> QED BY <2>1, DrainStep
<1>3. DrainInv => DrainClosesStreams
  BY DEF DrainInv, DrainClosesStreams
<1> QED BY <1>1, <1>2, <1>3, Typing, PTL DEF Spec
=============================================================================
