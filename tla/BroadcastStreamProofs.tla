----------------------- MODULE BroadcastStreamProofs -----------------------
(* Theorems about one broadcast consumer, for any number of messages and    *)
(* attempts and every size of the window, the channel and the deferred list.*)
EXTENDS BroadcastStream, FoldTheorems, SequenceTheorems, TLAPS

-----------------------------------------------------------------------------
(* Types.                                                                   *)

Frames == [msg : Messages, att : 1..MaxAttempts, cur : 0..MaxMessages, ok : BOOLEAN]

BrokerTypes ==
  /\ accepted \in 0..MaxMessages /\ expired \subseteq Messages /\ hand \in 0..MaxMessages
  /\ stream \in Phases /\ todo \in Seq(Messages) /\ deferred \in Seq(Messages)
  /\ chan \in Seq(Deliveries)
  /\ pending \subseteq Deliveries /\ IsFiniteSet(pending) /\ retry \subseteq Deliveries

ClientTypes ==
  /\ sentCursor \in 0..MaxMessages /\ cursor \in 0..MaxMessages
  /\ written \subseteq Messages /\ frames \in Seq(Frames)

Typed == BrokerTypes /\ ClientTypes

\* The identities of a replay are the live messages after the cursor, in order.
LEMMA ReplayFacts ==
  ASSUME accepted \in 0..MaxMessages, cursor \in 0..MaxMessages, MaxMessages \in Nat
  PROVE  /\ ReplayIDs \in Seq(Messages)
         /\ \A k \in 1..accepted : k \in expired \/ k <= cursor \/ \E j \in 1..Len(ReplayIDs) : ReplayIDs[j] = k
         /\ \A i \in 1..Len(ReplayIDs), k \in 1..accepted :
              k < ReplayIDs[i] => k \in expired \/ k <= cursor \/ \E j \in 1..(i - 1) : ReplayIDs[j] = k
         /\ \A i \in 1..Len(ReplayIDs) : ReplayIDs[i] \in 1..accepted
<1> DEFINE all == [i \in 1..accepted |-> i]
           S == {m \in 1..accepted \ expired : m > cursor}
           ids == Kept(all, S)
<1>1. accepted \in Nat /\ 1..accepted \subseteq Messages
  BY DEF Messages
<1>2. all \in Seq(1..accepted) /\ Len(all) = accepted
  BY <1>1
<1> HIDE DEF S
<1>3. ids \in Seq(1..accepted) /\ \E f : Picks(f, ids, all, S, Len(all))
  BY ONLY <1>2, KeptPicks
<1>4. PICK f : Picks(f, ids, all, S, accepted)
  BY <1>2, <1>3
<1>i. ids = ReplayIDs
  BY DEF ReplayIDs, S
<1> HIDE DEF ids
<1>5. Len(ids) \in Nat /\ \A i \in 1..Len(ids) : ids[i] \in 1..accepted
  BY <1>3
<1>6. /\ f \in [1..Len(ids) -> 1..accepted]
      /\ \A i, j \in 1..Len(ids) : i < j => f[i] < f[j]
      /\ \A j \in 1..Len(ids) : ids[j] = f[j]
      /\ \A i \in 1..accepted : i \in S => \E j \in 1..Len(ids) : f[j] = i
  BY <1>4 DEF Picks
<1>7. ASSUME NEW k \in 1..accepted, k \notin expired, ~(k <= cursor)
      PROVE  \E j \in 1..Len(ids) : ids[j] = k /\ f[j] = k
  <2>1. k \in S
    BY <1>7 DEF S
  <2> QED BY <1>6, <2>1
<1>8. ASSUME NEW i \in 1..Len(ids), NEW k \in 1..accepted, k < ids[i], k \notin expired, ~(k <= cursor)
      PROVE  \E j \in 1..(i - 1) : ids[j] = k
  <2>1. PICK j \in 1..Len(ids) : ids[j] = k /\ f[j] = k
    BY <1>7, <1>8
  <2>2. f[j] \in Int /\ f[i] \in Int /\ f[j] < f[i]
    BY <1>6, <1>8, <2>1
  <2>3. j # i
    BY <2>2
  <2>4. ~(i < j)
    BY <1>6, <2>2
  <2>5. j \in 1..(i - 1)
    BY ONLY <1>5, <2>3, <2>4, i \in 1..Len(ids), j \in 1..Len(ids)
  <2> QED BY <2>1, <2>5
<1>9. ids \in Seq(Messages)
  BY <1>1, <1>3
<1> QED BY <1>5, <1>7, <1>8, <1>9, <1>i

\* markComplete takes the longest completed prefix of the frames.
LEMMA ProgressFacts ==
  ASSUME NEW fs \in Seq(Frames), NEW i
  PROVE  \E k \in 0..Len(fs) :
           /\ \A j \in 1..k : fs[j].ok
           /\ Progress(fs, i).cursor = IF k = 0 THEN cursor ELSE fs[k].cur
           /\ Progress(fs, i).frames = SubSeq(fs, k + 1, Len(fs))
<1> DEFINE done == {k \in 0..Len(fs) : \A j \in 1..k : fs[j].ok}
           top == CHOOSE n \in done : \A x \in done : x <= n
<1>1. Len(fs) \in Nat /\ done \subseteq 0..Len(fs)
  OBVIOUS
<1>2. 0 \in done
  <2>1. 0 \in 0..Len(fs) /\ 1..0 = {}
    BY <1>1
  <2> QED BY <2>1
<1>3. \E n \in done : \A x \in done : x <= n
  <2> HIDE DEF done
  <2> QED BY <1>1, <1>2, HasMaximum
<1>4. top \in done
  <2> HIDE DEF done
  <2> QED BY <1>3, Zenon
<1>5. /\ Progress(fs, i).cursor = IF top = 0 THEN cursor ELSE fs[top].cur
      /\ Progress(fs, i).frames = SubSeq(fs, top + 1, Len(fs))
  BY DEF Progress
<1>6. top \in 0..Len(fs) /\ \A j \in 1..top : fs[j].ok
  <2> HIDE DEF top
  <2> QED BY <1>4
<1> QED BY <1>5, <1>6

\* The frames after Complete(i): those behind the completed prefix.
LEMMA CompleteFacts ==
  ASSUME Typed, NEW i \in 1..Len(frames), Complete(i)
  PROVE  \E k \in 0..Len(frames) :
           LET fs == [frames EXCEPT ![i].ok = TRUE] IN
           /\ fs \in Seq(Frames) /\ Len(fs) = Len(frames)
           /\ \A j \in 1..k : fs[j].ok
           /\ cursor' = IF k = 0 THEN cursor ELSE fs[k].cur
           /\ frames' \in Seq(Frames) /\ Len(frames') = Len(frames) - k
           /\ \A j \in 1..(Len(frames) - k) : frames'[j] = fs[j + k]
           /\ \A j \in 1..Len(frames) : fs[j].msg = frames[j].msg /\ fs[j].cur = frames[j].cur
           /\ \A j \in 1..Len(frames) : j # i => fs[j].ok = frames[j].ok
<1> DEFINE fs == [frames EXCEPT ![i].ok = TRUE]
<1>1. frames \in Seq(Frames) /\ Len(frames) \in Nat
  BY DEF Typed, ClientTypes
<1>2. \A j \in 1..Len(frames) : frames[j] \in Frames
  BY <1>1
<1>3. [frames[i] EXCEPT !.ok = TRUE] \in Frames
  BY <1>2 DEF Frames
<1>4. fs \in Seq(Frames) /\ Len(fs) = Len(frames)
  BY <1>1, <1>3
<1>5. \A j \in 1..Len(frames) : fs[j] = IF j = i THEN [frames[i] EXCEPT !.ok = TRUE] ELSE frames[j]
  BY <1>1
<1>6. \A j \in 1..Len(frames) : fs[j].msg = frames[j].msg /\ fs[j].cur = frames[j].cur
  BY <1>2, <1>5 DEF Frames
<1>7. \A j \in 1..Len(frames) : j # i => fs[j].ok = frames[j].ok
  BY <1>5
<1>8. cursor' = Progress(fs, i).cursor /\ frames' = Progress(fs, i).frames
  BY Zenon DEF Complete
<1> HIDE DEF fs
<1>9. PICK k \in 0..Len(fs) :
           /\ \A j \in 1..k : fs[j].ok
           /\ Progress(fs, i).cursor = IF k = 0 THEN cursor ELSE fs[k].cur
           /\ Progress(fs, i).frames = SubSeq(fs, k + 1, Len(fs))
  BY ONLY <1>4, ProgressFacts
<1>10. frames' = SubSeq(fs, k + 1, Len(fs)) /\ k \in 0..Len(frames)
  BY <1>4, <1>8, <1>9
<1>11. frames' \in Seq(Frames) /\ Len(frames') = Len(frames) - k
  <2>1. k + 1 \in Int /\ Len(fs) \in Int /\ \A j \in (k + 1)..Len(fs) : fs[j] \in Frames
    BY <1>1, <1>4, <1>10
  <2>2. /\ SubSeq(fs, k + 1, Len(fs)) \in Seq(Frames)
        /\ Len(SubSeq(fs, k + 1, Len(fs))) = IF k + 1 <= Len(fs) THEN Len(fs) - (k + 1) + 1 ELSE 0
    BY ONLY <2>1, SubSeqProperties
  <2> QED BY ONLY <1>1, <1>4, <1>10, <2>2
<1>12. \A j \in 1..(Len(frames) - k) : frames'[j] = fs[j + k]
  BY <1>1, <1>4, <1>10
<1>13. cursor' = IF k = 0 THEN cursor ELSE fs[k].cur
  BY <1>8, <1>9
<1> QED BY <1>4, <1>6, <1>7, <1>9, <1>10, <1>11, <1>12, <1>13 DEF fs

-----------------------------------------------------------------------------
(* Every step keeps the types.                                              *)

\* A delivery that is sent is one of the stream's deliveries.
LEMMA SendTypes ==
  ASSUME BrokerTypes, NEW d \in Deliveries, SendDelivery(d)
  PROVE  chan' \in Seq(Deliveries) /\ pending' \subseteq Deliveries /\ IsFiniteSet(pending')
<1>1. (pending' = pending \cup {d} /\ chan' = Append(chan, d)) \/ (pending' = pending /\ chan' = chan)
  BY DEF SendDelivery
<1>2. IsFiniteSet(pending \cup {d})
  BY FS_AddElement DEF BrokerTypes
<1>3. Append(chan, d) \in Seq(Deliveries)
  BY DEF BrokerTypes
<1>4. CASE pending' = pending \cup {d} /\ chan' = Append(chan, d)
  BY <1>2, <1>3, <1>4 DEF BrokerTypes
<1>5. CASE pending' = pending /\ chan' = chan
  BY <1>5 DEF BrokerTypes
<1> QED BY <1>1, <1>4, <1>5

\* A stream that ends keeps nothing.
LEMMA CloseTypes ==
  ASSUME Close
  PROVE  /\ todo' \in Seq(Messages) /\ deferred' \in Seq(Messages) /\ chan' \in Seq(Deliveries)
         /\ pending' \subseteq Deliveries /\ IsFiniteSet(pending') /\ retry' \subseteq Deliveries
         /\ stream' \in Phases
BY FS_EmptySet DEF Close, Phases

\* The broker's part of the state.
LEMMA BrokerTypesStep ==
  ASSUME Typed, [Next]_vars
  PROVE  BrokerTypes'
<1>t. BrokerTypes /\ ClientTypes
  BY DEF Typed
<1>c. MaxMessages \in Nat /\ MaxAttempts \in Nat \ {0}
  BY BroadcastTyped
<1>f. ASSUME NEW m \in Messages PROVE <<m, 1>> \in Deliveries
  BY <1>c DEF Deliveries
<1> USE DEF BrokerTypes
<1>1. CASE Publish
  <2>1. accepted' = accepted + 1 /\ accepted' \in 0..MaxMessages /\ accepted + 1 \in Messages
    BY <1>1, <1>c, <1>t DEF Publish, Messages
  <2>2. hand' \in 0..MaxMessages
    BY <1>1, <1>c, <2>1 DEF Publish
  <2>3. deferred' = deferred \/ deferred' = Append(deferred, accepted + 1)
    BY <1>1 DEF Publish
  <2>4. deferred' \in Seq(Messages)
    <3>1. Append(deferred, accepted + 1) \in Seq(Messages)
      BY <1>t, <2>1
    <3> QED BY <1>t, <2>3, <3>1
  <2> QED BY <1>1, <1>t, <2>1, <2>2, <2>4 DEF Publish
<1>2. CASE DeliverLive
  <2>1. hand \in Messages /\ SendDelivery(<<hand, 1>>) /\ hand' = 0
    BY <1>2, <1>t, <1>c DEF DeliverLive, Messages
  <2>2. chan' \in Seq(Deliveries) /\ pending' \subseteq Deliveries /\ IsFiniteSet(pending')
    BY <1>f, <1>t, <2>1, SendTypes
  <2> QED BY <1>2, <1>t, <1>c, <2>1, <2>2 DEF DeliverLive
<1>3. CASE Subscribe
  <2>1. ReplayIDs \in Seq(Messages)
    BY <1>c, <1>t, ReplayFacts DEF ClientTypes
  <2> QED BY <1>3, <1>t, <2>1 DEF Subscribe, Phases
<1>4. CASE StreamExit \/ ReplayClose
  <2>1. Close /\ accepted' = accepted /\ expired' = expired /\ hand' = hand
    BY <1>4 DEF StreamExit, ReplayClose
  <2> QED BY <1>t, <2>1, CloseTypes
<1>5. CASE ReplaySend
  <2>1. Head(todo) \in Messages /\ todo' \in Seq(Messages) /\ SendDelivery(<<Head(todo), 1>>)
    BY <1>5, <1>t DEF ReplaySend
  <2>2. chan' \in Seq(Deliveries) /\ pending' \subseteq Deliveries /\ IsFiniteSet(pending')
    BY <1>f, <1>t, <2>1, SendTypes
  <2> QED BY <1>5, <1>t, <2>1, <2>2 DEF ReplaySend
<1>6. CASE ReplayReceive \/ LiveWrite
  <2>1. chan # <<>> /\ chan' = Tail(chan)
    BY <1>6 DEF ReplayReceive, LiveWrite
  <2>2. chan' \in Seq(Deliveries)
    BY <1>t, <2>1
  <2> QED BY <1>6, <1>t, <2>2 DEF ReplayReceive, LiveWrite
<1>7. CASE ReplayNext
  BY <1>7, <1>t DEF ReplayNext, Phases
<1>8. ASSUME NEW m \in Messages, Expire(m) PROVE BrokerTypes'
  BY <1>8, <1>t DEF Expire, writerVars
<1>9. ASSUME NEW D \in SUBSET pending, MaintenancePop(D) PROVE BrokerTypes'
  <2>1. IsFiniteSet(pending \ D)
    BY <1>t, FS_Subset
  <2> QED BY <1>9, <1>t, <2>1 DEF MaintenancePop, writerVars
<1>10. ASSUME NEW d \in retry, Retry(d) PROVE BrokerTypes'
  <2>1. d \in Deliveries /\ d[2] < MaxAttempts /\ SendDelivery(<<d[1], d[2] + 1>>) /\ retry' = retry \ {d}
    BY <1>10, <1>t DEF Retry, Retriable
  <2>2. <<d[1], d[2] + 1>> \in Deliveries
    BY <1>c, <2>1 DEF Deliveries
  <2>3. chan' \in Seq(Deliveries) /\ pending' \subseteq Deliveries /\ IsFiniteSet(pending')
    BY <1>t, <2>1, <2>2, SendTypes
  <2> QED BY <1>10, <1>t, <2>1, <2>3 DEF Retry
<1>11. ASSUME NEW d \in retry, DropRetry(d) PROVE BrokerTypes'
  BY <1>11, <1>t DEF DropRetry, writerVars
<1>12. ASSUME NEW i \in 1..Len(frames), Complete(i) PROVE BrokerTypes'
  <2>1. IsFiniteSet(pending') /\ pending' \subseteq Deliveries
    <3>1. pending' \subseteq pending
      BY <1>12 DEF Complete
    <3> QED BY <1>t, <3>1, FS_Subset
  <2> QED BY <1>12, <1>t, <2>1 DEF Complete, writerVars
<1>13. ASSUME NEW i \in 1..Len(frames), Abandon(i) PROVE BrokerTypes'
  <2>1. Close /\ accepted' = accepted /\ expired' = expired /\ hand' = hand
    BY <1>13 DEF Abandon
  <2> QED BY <1>t, <2>1, CloseTypes
<1>14. CASE UNCHANGED vars
  BY <1>14, <1>t DEF vars, writerVars
<1> QED BY <1>1, <1>2, <1>3, <1>4, <1>5, <1>6, <1>7, <1>8, <1>9, <1>10, <1>11, <1>12, <1>13, <1>14, Zenon DEF Next

\* A frame that is written has its type, and so has the cursor in it.
LEMMA EmitTypes ==
  ASSUME Typed, NEW d \in Deliveries, Emit(d)
  PROVE  sentCursor' \in 0..MaxMessages /\ written' \subseteq Messages /\ frames' \in Seq(Frames)
<1>1. d[1] \in Messages /\ d[1] \in 0..MaxMessages /\ d[2] \in 1..MaxAttempts
  BY BroadcastTyped DEF Deliveries, Messages
<1>2. sentCursor' = (IF d[1] > sentCursor THEN d[1] ELSE sentCursor) /\ written' = written \cup {d[1]}
      /\ frames' = Append(frames, [msg |-> d[1], att |-> d[2], cur |-> sentCursor', ok |-> FALSE])
  BY DEF Emit
<1>3. sentCursor' \in 0..MaxMessages
  BY <1>1, <1>2 DEF Typed, ClientTypes
<1>4. [msg |-> d[1], att |-> d[2], cur |-> sentCursor', ok |-> FALSE] \in Frames
  BY <1>1, <1>3 DEF Frames
<1> QED BY <1>1, <1>2, <1>3, <1>4 DEF Typed, ClientTypes

\* The client's part of the state.
LEMMA ClientTypesStep ==
  ASSUME Typed, [Next]_vars
  PROVE  ClientTypes'
<1>t. BrokerTypes /\ ClientTypes
  BY DEF Typed
<1> USE DEF ClientTypes
<1>1. CASE UNCHANGED <<sentCursor, written, cursor, frames>>
  BY <1>1, <1>t
<1>2. CASE Subscribe
  <2>1. 1..cursor \subseteq Messages
    BY <1>t, BroadcastTyped DEF Messages
  <2> QED BY <1>2, <1>t, <2>1 DEF Subscribe
<1>3. CASE ReplayReceive \/ LiveWrite
  <2>1. Head(chan) \in Deliveries /\ Emit(Head(chan)) /\ cursor' = cursor
    BY <1>3, <1>t DEF ReplayReceive, LiveWrite, BrokerTypes
  <2>2. sentCursor' \in 0..MaxMessages /\ written' \subseteq Messages /\ frames' \in Seq(Frames)
    BY <2>1, EmitTypes
  <2> QED BY <1>t, <2>1, <2>2
<1>4. ASSUME NEW i \in 1..Len(frames), Complete(i) PROVE ClientTypes'
  <2> DEFINE fs == [frames EXCEPT ![i].ok = TRUE]
  <2>1. PICK k \in 0..Len(frames) :
           /\ fs \in Seq(Frames) /\ Len(fs) = Len(frames)
           /\ cursor' = IF k = 0 THEN cursor ELSE fs[k].cur
           /\ frames' \in Seq(Frames)
    BY <1>4, CompleteFacts
  <2> HIDE DEF fs
  <2>2. k # 0 => fs[k] \in Frames
    BY <2>1
  <2>3. cursor' \in 0..MaxMessages
    BY <1>t, <2>1, <2>2 DEF Frames
  <2>4. sentCursor' = sentCursor /\ written' = written
    BY <1>4 DEF Complete, writerVars
  <2> QED BY <1>t, <2>1, <2>3, <2>4
<1>5. ASSUME NEW i \in 1..Len(frames), Abandon(i) PROVE ClientTypes'
  BY <1>5, <1>1 DEF Abandon, Close
<1>6. CASE Publish \/ DeliverLive \/ StreamExit \/ ReplaySend \/ ReplayClose \/ ReplayNext
  BY <1>6, <1>1 DEF Publish, DeliverLive, StreamExit, ReplaySend, ReplayClose, ReplayNext, Close, clientVars
<1>7. CASE \/ \E m \in Messages : Expire(m)
           \/ \E D \in SUBSET pending : MaintenancePop(D)
           \/ \E d \in retry : Retry(d) \/ DropRetry(d)
           \/ UNCHANGED vars
  BY <1>7, <1>1 DEF Expire, MaintenancePop, Retry, DropRetry, vars, writerVars, clientVars
<1> QED BY <1>2, <1>3, <1>4, <1>5, <1>6, <1>7, Zenon DEF Next

\* Every step keeps the types.
LEMMA TypedStep == Typed /\ [Next]_vars => Typed'
BY BrokerTypesStep, ClientTypesStep DEF Typed

\* The types hold at the start.
LEMMA TypedInit == Init => Typed
<1> SUFFICES ASSUME Init PROVE Typed
  OBVIOUS
<1>1. BrokerTypes
  BY BroadcastTyped, FS_EmptySet DEF Init, BrokerTypes, Phases
<1>2. ClientTypes
  BY BroadcastTyped DEF Init, ClientTypes
<1> QED BY <1>1, <1>2 DEF Typed

-----------------------------------------------------------------------------
(* The bounds of the stream.                                                *)

\* What each phase of the stream implies: a closed stream keeps nothing, a live one has nothing left
\* to replay, only a replaying one owes a frame, and a message on its way to a stream is the last.
Phased ==
  /\ owed => stream = "replay"
  /\ stream = "live" => todo = <<>> /\ deferred = <<>>
  /\ hand # 0 => hand = accepted /\ stream # "replay"
  /\ stream = "closed" => pending = {} /\ retry = {} /\ chan = <<>> /\ ~cancelled

Bounded == StreamBounded /\ Phased

\* A delivery is sent only where there is room for it.
LEMMA SendBounded ==
  ASSUME Typed, Bounded, NEW d \in Deliveries, SendDelivery(d)
  PROVE  /\ Len(chan') <= ChanCap /\ Cardinality(pending') <= SubWindow
         /\ chan # <<>> => chan' # <<>>
         /\ stream # "closed" /\ Room => chan' # <<>>
         /\ stream = "closed" => pending' = {} /\ chan' = <<>> /\ cancelled' = cancelled
<1>t. /\ chan \in Seq(Deliveries) /\ IsFiniteSet(pending) /\ Cardinality(pending) \in Nat /\ Len(chan) \in Nat
      /\ ChanCap \in Nat /\ SubWindow \in Nat
  BY BroadcastTyped, FS_CardinalityType DEF Typed, BrokerTypes
<1>b. /\ Len(chan) <= ChanCap /\ Cardinality(pending) <= SubWindow
      /\ stream = "closed" => pending = {} /\ chan = <<>>
  BY DEF Bounded, StreamBounded, Phased
<1>1. CASE stream # "closed" /\ Room
  <2>1. pending' = pending \cup {d} /\ chan' = Append(chan, d)
    BY <1>1 DEF SendDelivery
  <2>2. Cardinality(pending) < SubWindow /\ Len(chan) < ChanCap
    BY <1>1 DEF Room
  <2>3. Cardinality(pending') \in Nat /\ Cardinality(pending') <= Cardinality(pending) + 1
    <3>1. Cardinality(pending \cup {d}) = IF d \in pending THEN Cardinality(pending) ELSE Cardinality(pending) + 1
      BY ONLY <1>t, FS_AddElement
    <3> QED BY ONLY <1>t, <2>1, <3>1
  <2>4. Len(chan') = Len(chan) + 1 /\ chan' # <<>>
    BY <1>t, <2>1
  <2>5. Len(chan') <= ChanCap /\ Cardinality(pending') <= SubWindow
    BY ONLY <1>t, <2>2, <2>3, <2>4
  <2> QED BY <1>1, <2>4, <2>5
<1>2. CASE ~(stream # "closed" /\ Room)
  <2>1. pending' = pending /\ chan' = chan /\ (stream = "closed" => cancelled' = cancelled)
    BY <1>2 DEF SendDelivery
  <2> QED BY <1>2, <1>b, <2>1
<1> QED BY <1>1, <1>2

\* The bounds of the buffers.
LEMMA BuffersStep ==
  ASSUME Typed, Bounded, [Next]_vars
  PROVE  Len(deferred') <= DeferredCap /\ Len(chan') <= ChanCap /\ Cardinality(pending') <= SubWindow
<1>t. /\ BrokerTypes /\ chan \in Seq(Deliveries) /\ deferred \in Seq(Messages) /\ todo \in Seq(Messages)
      /\ IsFiniteSet(pending) /\ Cardinality(pending) \in Nat
      /\ {ChanCap, SubWindow, DeferredCap} \subseteq Nat
  BY BroadcastTyped, FS_CardinalityType DEF Typed, BrokerTypes
<1>b. Len(deferred) <= DeferredCap /\ Len(chan) <= ChanCap /\ Cardinality(pending) <= SubWindow
  BY DEF Bounded, StreamBounded
<1>f. ASSUME NEW m \in Messages PROVE <<m, 1>> \in Deliveries
  BY BroadcastTyped DEF Deliveries
<1>0. ASSUME pending' \subseteq pending PROVE Cardinality(pending') <= SubWindow
  <2>1. Cardinality(pending') <= Cardinality(pending) /\ Cardinality(pending') \in Nat
    BY <1>0, <1>t, FS_Subset, FS_CardinalityType
  <2> QED BY ONLY <1>t, <1>b, <2>1
<1>1. CASE Publish
  <2>1. chan' = chan /\ pending' = pending
    BY <1>1 DEF Publish
  <2>2. deferred' = deferred \/ (deferred' = Append(deferred, accepted + 1) /\ ~(Len(deferred) >= DeferredCap))
    BY <1>1 DEF Publish
  <2>3. Len(deferred') <= DeferredCap
    BY <1>t, <1>b, <2>2
  <2> QED BY <1>b, <2>1, <2>3
<1>2. CASE DeliverLive
  <2>1. hand \in Messages /\ SendDelivery(<<hand, 1>>) /\ deferred' = deferred
    BY <1>2, <1>t DEF DeliverLive, BrokerTypes, Messages
  <2> QED BY <1>b, <1>f, <2>1, SendBounded
<1>3. CASE ReplaySend
  <2>1. Head(todo) \in Messages /\ SendDelivery(<<Head(todo), 1>>) /\ deferred' = deferred
    BY <1>3, <1>t DEF ReplaySend
  <2> QED BY <1>b, <1>f, <2>1, SendBounded
<1>4. ASSUME NEW d \in retry, Retry(d) PROVE Len(deferred') <= DeferredCap /\ Len(chan') <= ChanCap /\ Cardinality(pending') <= SubWindow
  <2>1. d \in Deliveries /\ d[2] < MaxAttempts /\ SendDelivery(<<d[1], d[2] + 1>>) /\ deferred' = deferred
    BY <1>4, <1>t DEF Retry, Retriable, BrokerTypes
  <2>2. <<d[1], d[2] + 1>> \in Deliveries
    BY <2>1, BroadcastTyped DEF Deliveries
  <2> QED BY <1>b, <2>1, <2>2, SendBounded
<1>5. ASSUME deferred' = deferred \/ deferred' = <<>>, chan' = chan \/ chan' = <<>> \/ (chan # <<>> /\ chan' = Tail(chan)),
             pending' \subseteq pending
      PROVE  Len(deferred') <= DeferredCap /\ Len(chan') <= ChanCap /\ Cardinality(pending') <= SubWindow
  <2>1. Len(deferred') <= DeferredCap
    BY <1>5, <1>t, <1>b
  <2>2. Len(chan') <= ChanCap
    BY <1>5, <1>t, <1>b
  <2> QED BY <1>0, <1>5, <2>1, <2>2
<1>6. CASE Subscribe \/ StreamExit \/ ReplayClose \/ ReplayReceive \/ ReplayNext \/ LiveWrite
  BY <1>5, <1>6 DEF Subscribe, StreamExit, ReplayClose, ReplayReceive, ReplayNext, LiveWrite, Close
<1>7. CASE \/ \E m \in Messages : Expire(m)
           \/ \E D \in SUBSET pending : MaintenancePop(D)
           \/ \E d \in retry : DropRetry(d)
           \/ \E i \in 1..Len(frames) : Complete(i) \/ Abandon(i)
           \/ UNCHANGED vars
  BY <1>5, <1>7 DEF Expire, MaintenancePop, DropRetry, Complete, Abandon, Close, vars, writerVars
<1> QED BY <1>1, <1>2, <1>3, <1>4, <1>6, <1>7, Zenon DEF Next

\* What each phase implies is kept.
LEMMA PhasedStep ==
  ASSUME Typed, Bounded, [Next]_vars
  PROVE  Phased' /\ (owed' => chan' # <<>>)
<1>t. BrokerTypes /\ accepted \in Nat
  BY BroadcastTyped DEF Typed, BrokerTypes
<1>p. /\ owed => stream = "replay"
      /\ stream = "live" => todo = <<>> /\ deferred = <<>>
      /\ hand # 0 => hand = accepted /\ stream # "replay"
      /\ stream = "closed" => pending = {} /\ retry = {} /\ chan = <<>>
  BY DEF Bounded, Phased
<1>n. stream = "closed" => ~cancelled
  BY Zenon DEF Bounded, Phased
<1>o. owed => chan # <<>>
  BY Zenon DEF Bounded, StreamBounded
<1>f. ASSUME NEW m \in Messages PROVE <<m, 1>> \in Deliveries
  BY BroadcastTyped DEF Deliveries
<1> DEFINE P == /\ owed' => stream' = "replay"
                /\ stream' = "live" => todo' = <<>> /\ deferred' = <<>>
                /\ hand' # 0 => hand' = accepted' /\ stream' # "replay"
                /\ stream' = "closed" => pending' = {} /\ retry' = {} /\ chan' = <<>>
                /\ stream' = "closed" => ~cancelled'
                /\ owed' => chan' # <<>>
<1>q. P => Phased' /\ (owed' => chan' # <<>>)
  BY Zenon DEF Phased
<1>s. ASSUME NEW d \in Deliveries, SendDelivery(d),
             owed' = owed, stream' = stream, todo' = todo, deferred' = deferred, hand' = hand \/ hand' = 0,
             accepted' = accepted, retry' \subseteq retry
      PROVE  P
  <2>1. /\ chan # <<>> => chan' # <<>>
        /\ stream = "closed" => pending' = {} /\ chan' = <<>> /\ cancelled' = cancelled
    BY <1>s, SendBounded
  <2>2. owed' => chan' # <<>>
    BY <1>o, <1>s, <2>1
  <2>3. stream' = "closed" => ~cancelled'
    BY <1>n, <1>s, <2>1
  <2>4. owed' => stream' = "replay"
    BY <1>p, <1>s
  <2> QED BY <1>p, <1>s, <2>1, <2>2, <2>3, <2>4
<1>1. CASE Publish
  <2>1. accepted' = accepted + 1 /\ stream' = stream /\ todo' = todo /\ pending' = pending /\ retry' = retry /\ chan' = chan
        /\ hand' = (IF stream = "live" THEN accepted + 1 ELSE 0)
    BY <1>1 DEF Publish
  <2>2. stream # "replay" => deferred' = deferred
    BY <1>1 DEF Publish
  <2>3. owed' = owed
    BY <1>1 DEF Publish
  <2>4. stream = "closed" => ~cancelled'
    <3>1. cancelled' = (cancelled \/ (stream = "replay" /\ Len(deferred) >= DeferredCap))
      BY <1>1, Zenon DEF Publish
    <3>2. stream = "closed" => stream # "replay"
      OBVIOUS
    <3> QED BY <1>n, <3>1, <3>2, Zenon
  <2>5. owed' => stream' = "replay" /\ chan' # <<>>
    BY <1>p, <1>o, <2>1, <2>3
  <2>6. hand' # 0 => hand' = accepted' /\ stream' # "replay"
    BY <2>1
  <2>7. P
    BY <1>p, <2>1, <2>2, <2>4, <2>5, <2>6
  <2> QED BY <1>q, <2>7
<1>2. CASE DeliverLive
  <2>1. /\ hand \in Messages /\ SendDelivery(<<hand, 1>>) /\ hand' = 0 /\ accepted' = accepted /\ owed' = owed
        /\ stream' = stream /\ todo' = todo /\ deferred' = deferred /\ retry' = retry
    BY <1>2, <1>t, BroadcastTyped DEF DeliverLive, BrokerTypes, Messages
  <2>2. P
    BY <1>f, <1>s, <2>1
  <2> QED BY <1>q, <2>2
<1>3. CASE Subscribe
  <2>1. hand' = 0 /\ stream' = "replay" /\ owed' = FALSE
    BY <1>3 DEF Subscribe
  <2>2. P
    BY <2>1
  <2> QED BY <1>q, <2>2
<1>4. ASSUME Close, hand' = hand, accepted' = accepted PROVE Phased' /\ (owed' => chan' # <<>>)
  <2>1. P
    BY <1>4, <1>p DEF Close
  <2> QED BY <1>q, <2>1
<1>5. CASE ReplaySend
  <2>1. /\ stream = "replay" /\ Room /\ Head(todo) \in Messages /\ SendDelivery(<<Head(todo), 1>>)
        /\ stream' = stream /\ hand' = hand /\ accepted' = accepted
    BY <1>5, <1>t DEF ReplaySend, BrokerTypes
  <2>2. chan' # <<>>
    <3>1. stream # "closed" /\ Room => chan' # <<>>
      BY <1>f, <2>1, SendBounded
    <3> QED BY <2>1, <3>1
  <2>3. P
    BY <1>p, <2>1, <2>2
  <2> QED BY <1>q, <2>3
<1>6. CASE ReplayReceive
  <2>1. /\ owed' = FALSE /\ stream' = stream /\ todo' = todo /\ deferred' = deferred /\ hand' = hand /\ accepted' = accepted
    BY <1>6 DEF ReplayReceive
  <2>2. stream = "replay"
    BY <1>6, <1>p DEF ReplayReceive
  <2>3. P
    BY <1>p, <2>1, <2>2
  <2> QED BY <1>q, <2>3
<1>7. CASE ReplayNext
  <2>1. /\ stream = "replay" /\ todo' = deferred /\ deferred' = <<>> /\ hand' = hand /\ accepted' = accepted
        /\ stream' = IF deferred = <<>> THEN "live" ELSE "replay"
    BY <1>7 DEF ReplayNext
  <2>2. ~owed'
    BY <1>7, Zenon DEF ReplayNext
  <2>3. hand = 0
    BY <1>p, <2>1
  <2>4. P
    BY <2>1, <2>2, <2>3
  <2> QED BY <1>q, <2>4
<1>8. CASE LiveWrite
  <2>1. /\ stream = "live" /\ stream' = stream /\ todo' = todo /\ deferred' = deferred /\ hand' = hand /\ accepted' = accepted
        /\ owed' = owed
    BY <1>8 DEF LiveWrite
  <2>2. ~owed
    BY <1>p, <2>1
  <2>3. P
    BY <1>p, <2>1, <2>2
  <2> QED BY <1>q, <2>3
<1>9. ASSUME NEW d \in retry, Retry(d) PROVE Phased' /\ (owed' => chan' # <<>>)
  <2>1. /\ d \in Deliveries /\ d[2] < MaxAttempts /\ SendDelivery(<<d[1], d[2] + 1>>) /\ accepted' = accepted /\ owed' = owed
        /\ stream' = stream /\ todo' = todo /\ deferred' = deferred /\ retry' \subseteq retry /\ hand' = hand
    BY <1>9, <1>t DEF Retry, Retriable, BrokerTypes
  <2>2. <<d[1], d[2] + 1>> \in Deliveries
    BY <2>1, BroadcastTyped DEF Deliveries
  <2>3. P
    BY <1>s, <2>1, <2>2
  <2> QED BY <1>q, <2>3
<1>10. ASSUME owed' = owed, stream' = stream, todo' = todo, deferred' = deferred, hand' = hand, accepted' = accepted,
              chan' = chan, pending' \subseteq pending, stream = "closed" => retry' = {}, cancelled' = cancelled
       PROVE  Phased' /\ (owed' => chan' # <<>>)
  <2>1. owed' => stream' = "replay" /\ chan' # <<>>
    BY <1>10, <1>o, <1>p
  <2>2. stream' = "closed" => ~cancelled'
    BY <1>10, <1>n
  <2>3. P
    BY <1>10, <1>p, <2>1, <2>2
  <2> QED BY <1>q, <2>3
<1>11. ASSUME NEW m \in Messages, Expire(m) PROVE Phased' /\ (owed' => chan' # <<>>)
  BY <1>10, <1>11, <1>p DEF Expire, writerVars
<1>12. ASSUME NEW D \in SUBSET pending, MaintenancePop(D) PROVE Phased' /\ (owed' => chan' # <<>>)
  BY <1>10, <1>12, <1>p DEF MaintenancePop, writerVars
<1>13. ASSUME NEW d \in retry, DropRetry(d) PROVE Phased' /\ (owed' => chan' # <<>>)
  BY <1>10, <1>13, <1>p DEF DropRetry, writerVars
<1>14. ASSUME NEW i \in 1..Len(frames), Complete(i) PROVE Phased' /\ (owed' => chan' # <<>>)
  BY <1>10, <1>14, <1>p DEF Complete, writerVars
<1>15. CASE UNCHANGED vars
  BY <1>10, <1>15, <1>p DEF vars, writerVars
<1>16. CASE StreamExit \/ ReplayClose
  BY <1>4, <1>16 DEF StreamExit, ReplayClose
<1>17. ASSUME NEW i \in 1..Len(frames), Abandon(i) PROVE Phased' /\ (owed' => chan' # <<>>)
  BY <1>4, <1>17 DEF Abandon
<1> QED BY <1>1, <1>2, <1>3, <1>5, <1>6, <1>7, <1>8, <1>9, <1>11, <1>12, <1>13, <1>14, <1>15, <1>16, <1>17, Zenon DEF Next

\* The types, the phases and the bounds hold in every reachable state.
LEMMA BoundedInvariant == Spec => [](Typed /\ Bounded)
<1>1. Init => Bounded
  <2> SUFFICES ASSUME Init PROVE Bounded
    OBVIOUS
  <2>1. /\ deferred = <<>> /\ chan = <<>> /\ pending = {} /\ retry = {} /\ todo = <<>> /\ hand = 0 /\ stream = "closed"
        /\ owed = FALSE /\ cancelled = FALSE
    BY DEF Init
  <2>2. StreamBounded
    BY <2>1, BroadcastTyped, FS_EmptySet DEF StreamBounded
  <2>3. Phased
    BY <2>1 DEF Phased
  <2> QED BY <2>2, <2>3 DEF Bounded
<1>2. ASSUME Typed, Bounded, [Next]_vars PROVE Typed' /\ Bounded'
  <2>1. Typed'
    BY <1>2, TypedStep
  <2>2. Len(deferred') <= DeferredCap /\ Len(chan') <= ChanCap /\ Cardinality(pending') <= SubWindow
    BY <1>2, BuffersStep
  <2>3. Phased' /\ (owed' => chan' # <<>>)
    BY <1>2, PhasedStep
  <2> QED BY <2>1, <2>2, <2>3, Zenon DEF Bounded, StreamBounded
<1> QED BY <1>1, <1>2, TypedInit, PTL DEF Spec

\* sendDeliveryLocked, deliver and writeReplay: for every schedule the deferred list, the channel and
\* the window keep their bounds, and writeReplay never waits on an empty channel.
THEOREM StreamStaysBounded == Spec => []StreamBounded
<1>1. Typed /\ Bounded => StreamBounded
  BY DEF Bounded
<1> QED BY <1>1, BoundedInvariant, PTL

-----------------------------------------------------------------------------
(* What the cursor of a frame covers.                                       *)

Past == written \cup expired

\* m waits in the channel, in the rest of the replay, or among the deferred messages.
InChan(m) == \E i \in 1..Len(chan) : chan[i][1] = m
InTodo(m) == \E i \in 1..Len(todo) : todo[i] = m
InDeferred(m) == \E i \in 1..Len(deferred) : deferred[i] = m

\* Whatever is written has nothing live and unwritten below it, and the cursor neither.
WrittenWhole ==
  /\ \A m \in written : \A k \in 1..m : k \in Past
  /\ 1..sentCursor \subseteq Past

\* Messages reach the channel, the replay and the deferred list in order: whatever precedes one of
\* them has gone before it.
ChanOrder ==
  \A i \in 1..Len(chan) : \A k \in 1..(chan[i][1] - 1) :
    k \in Past \/ \E j \in 1..(i - 1) : chan[j][1] = k
TodoOrder ==
  \A i \in 1..Len(todo) : \A k \in 1..(todo[i] - 1) :
    k \in Past \/ InChan(k) \/ \E j \in 1..(i - 1) : todo[j] = k
DeferredOrder ==
  \A i \in 1..Len(deferred) : \A k \in 1..(deferred[i] - 1) :
    k \in Past \/ InChan(k) \/ InTodo(k) \/ \E j \in 1..(i - 1) : deferred[j] = k

\* Every message accepted is somewhere, and what may be retried has been sent before.
NoneDropped ==
  \A k \in 1..accepted : k \in Past \/ InChan(k) \/ InTodo(k) \/ InDeferred(k) \/ k = hand
SentBefore == \A d \in pending \cup retry : d[1] \in written \/ InChan(d[1])

Line == ChanOrder /\ TodoOrder /\ DeferredOrder /\ NoneDropped /\ SentBefore

\* A cancelled stream may have dropped a message, and writes nothing any more.
Ordered == stream # "closed" => WrittenWhole /\ (~cancelled => Line)

\* The handler stops at the first look at its context after the cancellation: the select of the live
\* loop does not prefer a waiting delivery, and writeReplay does not take one.
StopsWhenCancelled == cancelled => ~ReplayReceive /\ ~LiveWrite

StreamInv == Typed /\ Bounded

\* The line of messages when a delivery is appended to the channel.
LEMMA ChanAppends ==
  ASSUME Typed, Line, NEW d \in Deliveries, chan' = Append(chan, d), written' = written, expired' = expired,
         \A k \in 1..(d[1] - 1) : k \in Past \/ InChan(k)
  PROVE  /\ ChanOrder'
         /\ \A k : InChan(k) => InChan(k)'
         /\ InChan(d[1])'
<1>1. chan \in Seq(Deliveries) /\ Len(chan) \in Nat /\ Len(chan') = Len(chan) + 1
  BY DEF Typed, BrokerTypes
<1>2. /\ \A i \in 1..Len(chan) : chan'[i] = chan[i] /\ i \in 1..Len(chan')
      /\ chan'[Len(chan) + 1] = d /\ Len(chan) + 1 \in 1..Len(chan')
  BY <1>1
<1>3. \A k : InChan(k) => InChan(k)'
  BY <1>2 DEF InChan
<1>4. InChan(d[1])'
  BY <1>2 DEF InChan
<1>5. Past' = Past
  BY DEF Past
<1>6. ASSUME NEW i \in 1..Len(chan'), NEW k \in 1..(chan'[i][1] - 1)
      PROVE  k \in Past' \/ \E j \in 1..(i - 1) : chan'[j][1] = k
  <2>1. CASE i \in 1..Len(chan)
    <3>1. k \in Past \/ \E j \in 1..(i - 1) : chan[j][1] = k
      BY <1>2, <2>1 DEF Line, ChanOrder
    <3>2. ASSUME NEW j \in 1..(i - 1) PROVE j \in 1..Len(chan)
      BY ONLY <1>1, <2>1, <3>2
    <3> QED BY <1>2, <1>5, <3>1, <3>2
  <2>2. CASE i = Len(chan) + 1
    <3>1. k \in 1..(d[1] - 1)
      BY <1>2, <2>2
    <3>2. k \in Past \/ \E j \in 1..Len(chan) : chan[j][1] = k
      BY <3>1 DEF InChan
    <3>3. 1..(i - 1) = 1..Len(chan)
      BY <1>1, <2>2
    <3> QED BY <1>2, <1>5, <3>2, <3>3
  <2>3. i \in 1..Len(chan) \/ i = Len(chan) + 1
    BY <1>1
  <2> QED BY <2>1, <2>2, <2>3
<1>7. ChanOrder'
  BY <1>6 DEF ChanOrder
<1> QED BY <1>3, <1>4, <1>7

\* The line of messages when the first delivery of the channel is written.
LEMMA ChanTakes ==
  ASSUME Typed, ChanOrder, WrittenWhole, chan # <<>>, chan' = Tail(chan), Emit(Head(chan)), expired' = expired
  PROVE  /\ ChanOrder' /\ WrittenWhole'
         /\ \A k : InChan(k) => InChan(k)' \/ k \in written'
         /\ Past \subseteq Past' /\ written \subseteq written'
<1>1. /\ chan \in Seq(Deliveries) /\ Len(chan) \in Nat /\ Len(chan) >= 1 /\ Len(chan') = Len(chan) - 1
      /\ Head(chan) = chan[1] /\ Head(chan) \in Deliveries
  BY DEF Typed, BrokerTypes
<1> DEFINE m == chan[1][1]
<1>2. /\ m \in Messages /\ m \in Nat /\ sentCursor \in Nat
      /\ written' = written \cup {m} /\ sentCursor' = (IF m > sentCursor THEN m ELSE sentCursor)
  BY <1>1, BroadcastTyped DEF Emit, Deliveries, Messages, Typed, ClientTypes
<1>3. Past' = Past \cup {m}
  BY <1>2 DEF Past
<1>4. \A k \in 1..(m - 1) : k \in Past
  <2>1. 1 \in 1..Len(chan) /\ 1..(1 - 1) = {}
    BY <1>1
  <2> QED BY <2>1 DEF ChanOrder
<1>5. \A i \in 1..Len(chan') : chan'[i] = chan[i + 1] /\ i + 1 \in 1..Len(chan)
  BY <1>1
<1> HIDE DEF m
<1>6. \A k \in 1..m : k \in Past'
  <2>1. \A k \in 1..m : k = m \/ k \in 1..(m - 1)
    BY <1>2
  <2> QED BY <1>3, <1>4, <2>1
<1>7. WrittenWhole'
  <2>1. \A w \in written' : \A k \in 1..w : k \in Past'
    BY <1>2, <1>3, <1>6 DEF WrittenWhole
  <2>2. 1..sentCursor' \subseteq Past'
    BY <1>2, <1>3, <1>6 DEF WrittenWhole
  <2> QED BY <2>1, <2>2 DEF WrittenWhole
<1>8. ASSUME NEW k, InChan(k) PROVE InChan(k)' \/ k \in written'
  <2>1. PICK i \in 1..Len(chan) : chan[i][1] = k
    BY <1>8 DEF InChan
  <2>2. CASE i = 1
    BY <1>2, <2>1, <2>2 DEF m
  <2>3. CASE i # 1
    <3>1. i - 1 \in 1..Len(chan') /\ (i - 1) + 1 = i
      BY ONLY <1>1, <2>1, <2>3
    <3>2. chan'[i - 1] = chan[i]
      BY <1>5, <3>1
    <3> QED BY <2>1, <3>1, <3>2 DEF InChan
  <2> QED BY <2>2, <2>3
<1>9. ASSUME NEW i \in 1..Len(chan'), NEW k \in 1..(chan'[i][1] - 1)
      PROVE  k \in Past' \/ \E j \in 1..(i - 1) : chan'[j][1] = k
  <2>1. k \in Past \/ \E j \in 1..((i + 1) - 1) : chan[j][1] = k
    BY <1>5 DEF ChanOrder
  <2>2. ASSUME NEW j \in 1..((i + 1) - 1), chan[j][1] = k PROVE k \in Past' \/ \E h \in 1..(i - 1) : chan'[h][1] = k
    <3>1. CASE j = 1
      BY <1>3, <2>2, <3>1 DEF m
    <3>2. CASE j # 1
      <4>1. j - 1 \in 1..(i - 1) /\ j - 1 \in 1..Len(chan') /\ (j - 1) + 1 = j
        BY ONLY <1>1, <2>2, <3>2, i \in 1..Len(chan')
      <4>2. chan'[j - 1] = chan[j]
        BY <1>5, <4>1
      <4> QED BY <2>2, <4>1, <4>2
    <3> QED BY <3>1, <3>2
  <2> QED BY <1>3, <2>1, <2>2
<1>10. ChanOrder'
  BY <1>9 DEF ChanOrder
<1> QED BY <1>2, <1>3, <1>7, <1>8, <1>10

\* The line is kept when only time passes and entries are removed.
LEMMA LineStays ==
  ASSUME chan' = chan, todo' = todo, deferred' = deferred, hand' = hand, accepted' = accepted, written' = written,
         sentCursor' = sentCursor, expired \subseteq expired', pending' \cup retry' \subseteq pending \cup retry
  PROVE  (Line => Line') /\ (WrittenWhole => WrittenWhole')
<1>1. Past \subseteq Past'
  BY DEF Past
<1>2. \A k : InChan(k)' = InChan(k) /\ InTodo(k)' = InTodo(k) /\ InDeferred(k)' = InDeferred(k)
  BY DEF InChan, InTodo, InDeferred
<1>3. WrittenWhole => WrittenWhole'
  BY <1>1 DEF WrittenWhole
<1>4. ChanOrder => ChanOrder'
  BY <1>1 DEF ChanOrder
<1>5. TodoOrder => TodoOrder'
  BY <1>1, <1>2 DEF TodoOrder
<1>6. DeferredOrder => DeferredOrder'
  BY <1>1, <1>2 DEF DeferredOrder
<1>7. NoneDropped => NoneDropped'
  BY <1>1, <1>2 DEF NoneDropped
<1>8. SentBefore => SentBefore'
  BY <1>2 DEF SentBefore
<1> QED BY <1>3, <1>4, <1>5, <1>6, <1>7, <1>8 DEF Line

\* The first delivery of a live message, or a retry, joins the line.
LEMMA LineSends ==
  ASSUME Typed, Line, NEW d \in Deliveries, SendDelivery(d), stream # "closed", Room,
         \A k \in 1..(d[1] - 1) : k \in Past \/ InChan(k),
         written' = written, expired' = expired, todo' = todo, deferred' = deferred, accepted' = accepted,
         retry' \subseteq retry, hand' = hand \/ hand = d[1]
  PROVE  Line'
<1>1. chan' = Append(chan, d) /\ pending' = pending \cup {d}
  BY DEF SendDelivery
<1>2. ChanOrder' /\ (\A k : InChan(k) => InChan(k)') /\ InChan(d[1])'
  BY <1>1, ChanAppends
<1>3. Past' = Past
  BY DEF Past
<1>4. \A k : InTodo(k)' = InTodo(k) /\ InDeferred(k)' = InDeferred(k)
  BY DEF InTodo, InDeferred
<1>5. TodoOrder'
  BY <1>2, <1>3 DEF Line, TodoOrder
<1>6. DeferredOrder'
  BY <1>2, <1>3, <1>4 DEF Line, DeferredOrder
<1>7. NoneDropped'
  BY <1>2, <1>3, <1>4 DEF Line, NoneDropped
<1>8. SentBefore'
  BY <1>1, <1>2 DEF Line, SentBefore
<1> QED BY <1>2, <1>5, <1>6, <1>7, <1>8 DEF Line

\* A message that is accepted joins the line.
LEMMA OrderedPublish ==
  ASSUME StreamInv, Ordered, Publish
  PROVE  Ordered'
<1>t. /\ accepted \in Nat /\ deferred \in Seq(Messages) /\ Len(deferred) \in Nat
      /\ stream \in Phases
  BY BroadcastTyped DEF StreamInv, Typed, BrokerTypes
<1>p. /\ hand = 0 /\ accepted' = accepted + 1 /\ stream' = stream /\ chan' = chan /\ todo' = todo /\ written' = written
      /\ sentCursor' = sentCursor /\ expired' = expired /\ pending' = pending /\ retry' = retry
      /\ hand' = IF stream = "live" THEN accepted + 1 ELSE 0
  BY DEF Publish
<1> DEFINE full == stream = "replay" /\ Len(deferred) >= DeferredCap
<1>f. /\ cancelled' = (cancelled \/ full)
      /\ deferred' = IF stream = "replay" /\ ~full THEN Append(deferred, accepted + 1) ELSE deferred
  BY Zenon DEF Publish
<1>w. Past' = Past /\ (WrittenWhole => WrittenWhole')
  BY <1>p DEF Past, WrittenWhole
<1>1. CASE stream = "closed"
  BY <1>1, <1>p DEF Ordered
<1>2. ASSUME stream # "closed", ~cancelled' PROVE Line'
  <2>1. ~cancelled /\ ~full
    BY <1>2, <1>f, Zenon
  <2>2. Line
    BY <1>2, <2>1 DEF Ordered
  <2>3. \A k : InChan(k)' = InChan(k) /\ InTodo(k)' = InTodo(k)
    BY <1>p DEF InChan, InTodo
  <2>4. deferred' = IF stream = "replay" THEN Append(deferred, accepted + 1) ELSE deferred
    BY <1>f, <2>1
  <2> HIDE DEF full
  <2>5. \A i \in 1..Len(deferred) : deferred'[i] = deferred[i] /\ i \in 1..Len(deferred')
    BY <1>t, <2>4
  <2>6. \A k : InDeferred(k) => InDeferred(k)'
    BY <2>5 DEF InDeferred
  <2>7. stream = "replay" => \A k : k = accepted + 1 => InDeferred(k)'
    <3> SUFFICES ASSUME stream = "replay" PROVE \A k : k = accepted + 1 => InDeferred(k)'
      OBVIOUS
    <3>1. Len(deferred) + 1 \in 1..Len(deferred') /\ deferred'[Len(deferred) + 1] = accepted + 1
      BY <1>t, <2>4
    <3> QED BY <3>1 DEF InDeferred
  <2>8. ChanOrder' /\ TodoOrder' /\ SentBefore'
    BY <1>p, <1>w, <2>2, <2>3 DEF Line, ChanOrder, TodoOrder, SentBefore
  <2>9. ASSUME NEW k \in 1..accepted PROVE k \in Past \/ InChan(k) \/ InTodo(k) \/ InDeferred(k)
    <3>1. k # hand
      BY <1>p, <1>t
    <3> QED BY <2>2, <3>1 DEF Line, NoneDropped
  <2>10. NoneDropped'
    <3>1. ASSUME NEW k \in 1..(accepted + 1) PROVE k \in Past' \/ InChan(k)' \/ InTodo(k)' \/ InDeferred(k)' \/ k = hand'
      <4>1. CASE k \in 1..accepted
        BY <1>w, <2>3, <2>6, <2>9, <4>1
      <4>2. CASE k = accepted + 1
        <5>1. stream \in {"live", "replay"}
          BY <1>2, <1>t DEF Phases
        <5>2. CASE stream = "live"
          BY <1>p, <4>2, <5>2
        <5>3. CASE stream = "replay"
          BY <2>7, <4>2, <5>3
        <5> QED BY <5>1, <5>2, <5>3
      <4> QED BY <1>t, <4>1, <4>2
    <3> QED BY <1>p, <3>1 DEF NoneDropped
  <2>11. DeferredOrder'
    <3>1. ASSUME NEW i \in 1..Len(deferred'), NEW k \in 1..(deferred'[i] - 1)
          PROVE  k \in Past' \/ InChan(k)' \/ InTodo(k)' \/ \E j \in 1..(i - 1) : deferred'[j] = k
      <4>1. CASE i \in 1..Len(deferred)
        <5>1. k \in Past \/ InChan(k) \/ InTodo(k) \/ \E j \in 1..(i - 1) : deferred[j] = k
          BY <2>2, <2>5, <4>1 DEF Line, DeferredOrder
        <5>2. \A j \in 1..(i - 1) : j \in 1..Len(deferred)
          BY <1>t, <4>1
        <5> QED BY <1>w, <2>3, <2>5, <5>1, <5>2
      <4>2. CASE i \notin 1..Len(deferred)
        <5>1. stream = "replay" /\ i = Len(deferred) + 1 /\ deferred'[i] = accepted + 1
          BY <1>t, <2>4, <4>2
        <5>2. k \in 1..accepted /\ 1..(i - 1) = 1..Len(deferred)
          BY <1>t, <5>1
        <5>3. InDeferred(k) => \E j \in 1..(i - 1) : deferred'[j] = k
          BY <2>5, <5>2 DEF InDeferred
        <5> QED BY <1>w, <2>3, <2>9, <5>2, <5>3
      <4> QED BY <4>1, <4>2
    <3> QED BY <3>1 DEF DeferredOrder
  <2> QED BY <2>8, <2>10, <2>11 DEF Line
<1>3. CASE stream # "closed"
  <2>1. WrittenWhole'
    BY <1>3, <1>w DEF Ordered
  <2> QED BY <1>2, <1>3, <1>p, <2>1 DEF Ordered
<1> QED BY <1>1, <1>3

\* A new subscription starts at the client's cursor with the live messages after it.
LEMMA OrderedSubscribe ==
  ASSUME StreamInv, Subscribe
  PROVE  Ordered'
<1>t. accepted \in 0..MaxMessages /\ cursor \in 0..MaxMessages /\ MaxMessages \in Nat /\ accepted \in Nat /\ cursor \in Nat
  BY BroadcastTyped DEF StreamInv, Typed, BrokerTypes, ClientTypes
<1>p. /\ stream' = "replay" /\ todo' = ReplayIDs /\ deferred' = <<>> /\ chan' = <<>> /\ sentCursor' = cursor
      /\ written' = 1..cursor /\ pending' = pending /\ retry' = retry /\ accepted' = accepted /\ expired' = expired
  BY DEF Subscribe
<1>e. pending = {} /\ retry = {}
  BY DEF StreamInv, Bounded, Phased, Subscribe
<1>1. Past' = (1..cursor) \cup expired
  BY <1>p DEF Past
<1>2. WrittenWhole'
  <2>1. \A m \in 1..cursor : \A k \in 1..m : k \in 1..cursor
    BY <1>t
  <2> QED BY <1>1, <1>p, <2>1 DEF WrittenWhole
<1>3. ChanOrder' /\ DeferredOrder' /\ SentBefore'
  <2>1. 1..Len(chan') = {} /\ 1..Len(deferred') = {} /\ pending' \cup retry' = {}
    BY <1>e, <1>p
  <2> QED BY <2>1 DEF ChanOrder, DeferredOrder, SentBefore
<1>4. /\ \A k \in 1..accepted : k \in expired \/ k <= cursor \/ \E j \in 1..Len(ReplayIDs) : ReplayIDs[j] = k
      /\ \A i \in 1..Len(ReplayIDs), k \in 1..accepted :
           k < ReplayIDs[i] => k \in expired \/ k <= cursor \/ \E j \in 1..(i - 1) : ReplayIDs[j] = k
      /\ \A i \in 1..Len(ReplayIDs) : ReplayIDs[i] \in 1..accepted
  BY ONLY <1>t, ReplayFacts
<1>5. \A k \in 1..accepted : k <= cursor => k \in Past'
  BY <1>1, <1>t
<1>6. NoneDropped'
  <2>1. ASSUME NEW k \in 1..accepted PROVE k \in Past' \/ InTodo(k)'
    BY <1>1, <1>4, <1>5, <1>p DEF InTodo
  <2> QED BY <1>p, <2>1 DEF NoneDropped
<1>7. TodoOrder'
  <2>1. ASSUME NEW i \in 1..Len(ReplayIDs), NEW k \in 1..(ReplayIDs[i] - 1)
        PROVE  k \in Past' \/ \E j \in 1..(i - 1) : ReplayIDs[j] = k
    <3>1. ReplayIDs[i] \in 1..accepted
      BY <1>4
    <3>2. k \in 1..accepted /\ k < ReplayIDs[i]
      BY ONLY <1>t, <2>1, <3>1
    <3> QED BY <1>1, <1>4, <1>5, <3>2
  <2> QED BY <1>p, <2>1 DEF TodoOrder
<1> QED BY <1>2, <1>3, <1>6, <1>7 DEF Ordered, Line

\* writeReplay moves the first identity of the replay into the channel.
LEMMA OrderedReplaySend ==
  ASSUME StreamInv, Ordered, ReplaySend
  PROVE  Ordered'
<1>p. /\ stream = "replay" /\ todo # <<>> /\ Room /\ SendDelivery(<<Head(todo), 1>>) /\ todo' = Tail(todo)
      /\ deferred' = deferred /\ written' = written /\ sentCursor' = sentCursor /\ expired' = expired
      /\ hand' = hand /\ accepted' = accepted /\ retry' = retry /\ stream' = stream
  BY DEF ReplaySend
<1>t. /\ Typed /\ todo \in Seq(Messages) /\ Len(todo) \in Nat /\ Len(todo) >= 1 /\ Len(todo') = Len(todo) - 1
      /\ Head(todo) = todo[1] /\ Head(todo) \in Messages
  BY <1>p DEF StreamInv, Typed, BrokerTypes
<1> DEFINE d == <<Head(todo), 1>>
<1>d. d \in Deliveries /\ d[1] = todo[1]
  BY <1>t, BroadcastTyped DEF Deliveries
<1>s. chan' = Append(chan, d) /\ pending' = pending \cup {d} /\ cancelled' = cancelled
  BY <1>p DEF SendDelivery
<1> HIDE DEF d
<1>w. Past' = Past /\ (WrittenWhole => WrittenWhole')
  BY <1>p DEF Past, WrittenWhole
<1>1. ASSUME ~cancelled' PROVE Line'
  <2>1. Line
    BY <1>1, <1>p, <1>s DEF Ordered
  <2>2. \A k \in 1..(d[1] - 1) : k \in Past \/ InChan(k)
    <3>1. 1 \in 1..Len(todo) /\ 1..(1 - 1) = {}
      BY <1>t
    <3> QED BY <1>d, <2>1, <3>1 DEF Line, TodoOrder
  <2>3. ChanOrder' /\ (\A k : InChan(k) => InChan(k)')
    BY <1>d, <1>p, <1>s, <1>t, <2>1, <2>2, ChanAppends
  <2>4. \A i \in 1..Len(todo') : todo'[i] = todo[i + 1] /\ i + 1 \in 1..Len(todo)
    BY <1>p, <1>t
  <2>5. ASSUME NEW k, InTodo(k) PROVE InTodo(k)' \/ InChan(k)'
    <3>1. PICK i \in 1..Len(todo) : todo[i] = k
      BY <2>5 DEF InTodo
    <3>2. CASE i = 1
      <4>1. k = d[1]
        BY <1>d, <3>1, <3>2
      <4>2. chan'[Len(chan) + 1][1] = k /\ Len(chan) + 1 \in 1..Len(chan')
        BY <1>s, <1>t, <4>1 DEF Typed, BrokerTypes
      <4> QED BY <4>2 DEF InChan
    <3>3. CASE i # 1
      <4>1. i - 1 \in 1..Len(todo') /\ (i - 1) + 1 = i
        BY ONLY <1>t, <3>1, <3>3
      <4> QED BY <2>4, <3>1, <4>1 DEF InTodo
    <3> QED BY <3>2, <3>3
  <2>6. \A k : InDeferred(k)' = InDeferred(k)
    BY <1>p DEF InDeferred
  <2>c. \A k : k = todo[1] => InChan(k)'
    <3>1. chan'[Len(chan) + 1][1] = todo[1] /\ Len(chan) + 1 \in 1..Len(chan')
      BY <1>d, <1>s, <1>t DEF Typed, BrokerTypes
    <3> QED BY <3>1 DEF InChan
  <2>7. TodoOrder'
    <3>1. ASSUME NEW i \in 1..Len(todo'), NEW k \in 1..(todo'[i] - 1)
          PROVE  k \in Past' \/ InChan(k)' \/ \E j \in 1..(i - 1) : todo'[j] = k
      <4>1. k \in Past \/ InChan(k) \/ \E j \in 1..((i + 1) - 1) : todo[j] = k
        BY <2>1, <2>4 DEF Line, TodoOrder
      <4>2. ASSUME NEW j \in 1..((i + 1) - 1), todo[j] = k PROVE InChan(k)' \/ \E h \in 1..(i - 1) : todo'[h] = k
        <5>1. CASE j = 1
          BY <2>c, <4>2, <5>1
        <5>2. CASE j # 1
          <6>1. j - 1 \in 1..(i - 1) /\ j - 1 \in 1..Len(todo') /\ (j - 1) + 1 = j
            BY ONLY <1>t, <4>2, <5>2, i \in 1..Len(todo')
          <6> QED BY <2>4, <4>2, <6>1
        <5> QED BY <5>1, <5>2
      <4> QED BY <1>w, <2>3, <4>1, <4>2
    <3> QED BY <3>1 DEF TodoOrder
  <2>8. DeferredOrder'
    BY <1>p, <1>w, <2>1, <2>3, <2>5 DEF Line, DeferredOrder
  <2>9. NoneDropped'
    BY <1>p, <1>w, <2>1, <2>3, <2>5, <2>6 DEF Line, NoneDropped
  <2>10. SentBefore'
    BY <1>p, <1>s, <2>1, <2>3, <1>d, <2>c DEF Line, SentBefore
  <2> QED BY <2>3, <2>7, <2>8, <2>9, <2>10 DEF Line
<1>2. WrittenWhole'
  BY <1>p, <1>w DEF Ordered
<1> QED BY <1>1, <1>2 DEF Ordered

\* With the replay done, what was deferred is replayed next, in order.
LEMMA OrderedReplayNext ==
  ASSUME StreamInv, Ordered, ReplayNext
  PROVE  Ordered'
<1>p. /\ stream = "replay" /\ todo = <<>> /\ todo' = deferred /\ deferred' = <<>> /\ chan' = chan /\ written' = written
      /\ sentCursor' = sentCursor /\ expired' = expired /\ hand' = hand /\ accepted' = accepted
      /\ pending' = pending /\ retry' = retry /\ cancelled' = cancelled
  BY DEF ReplayNext
<1>w. Past' = Past /\ (WrittenWhole => WrittenWhole')
  BY <1>p DEF Past, WrittenWhole
<1>1. ASSUME ~cancelled' PROVE Line'
  <2>1. Line
    BY <1>1, <1>p DEF Ordered
  <2>2. \A k : InChan(k)' = InChan(k) /\ (InTodo(k) => FALSE) /\ InTodo(k)' = InDeferred(k)
    BY <1>p DEF InChan, InTodo, InDeferred
  <2>3. ChanOrder' /\ SentBefore'
    BY <1>p, <1>w, <2>1, <2>2 DEF Line, ChanOrder, SentBefore
  <2>4. TodoOrder'
    BY <1>p, <1>w, <2>1, <2>2 DEF Line, TodoOrder, DeferredOrder
  <2>5. DeferredOrder'
    <3>1. 1..Len(deferred') = {}
      BY <1>p
    <3> QED BY <3>1 DEF DeferredOrder
  <2>6. NoneDropped'
    BY <1>p, <1>w, <2>1, <2>2 DEF Line, NoneDropped
  <2> QED BY <2>3, <2>4, <2>5, <2>6 DEF Line
<1>2. WrittenWhole'
  BY <1>p, <1>w DEF Ordered
<1> QED BY <1>1, <1>2 DEF Ordered

\* A frame is written only while nothing was dropped, so its cursor passes nothing.
LEMMA OrderedEmit ==
  ASSUME StreamInv, Ordered, ~cancelled, ReplayReceive \/ LiveWrite
  PROVE  Ordered'
<1>p. /\ stream \in {"replay", "live"} /\ stream' = stream /\ chan # <<>> /\ Emit(Head(chan)) /\ chan' = Tail(chan)
      /\ todo' = todo /\ deferred' = deferred /\ expired' = expired /\ hand' = hand /\ accepted' = accepted
      /\ pending' = pending /\ retry' = retry
  <2>1. CASE LiveWrite
    BY <2>1 DEF LiveWrite
  <2>2. CASE ReplayReceive
    <3>1. stream = "replay"
      BY <2>2, Zenon DEF ReplayReceive, StreamInv, Bounded, Phased
    <3> QED BY <2>2, <3>1 DEF ReplayReceive
  <2> QED BY <2>1, <2>2
<1>1. Typed /\ Line /\ WrittenWhole /\ ChanOrder
  BY <1>p DEF Ordered, StreamInv, Line
<1>2. /\ ChanOrder' /\ WrittenWhole'
      /\ \A k : InChan(k) => InChan(k)' \/ k \in written'
      /\ Past \subseteq Past' /\ written \subseteq written'
  BY ONLY <1>1, <1>p, ChanTakes
<1>3. \A k : k \in Past \/ InChan(k) => k \in Past' \/ InChan(k)'
  BY <1>2 DEF Past
<1>4. \A k : InTodo(k)' = InTodo(k) /\ InDeferred(k)' = InDeferred(k)
  BY <1>p DEF InTodo, InDeferred
<1> HIDE DEF Past, InChan, InTodo, InDeferred
<1>5. TodoOrder'
  BY <1>1, <1>3, <1>p DEF Line, TodoOrder
<1>6. DeferredOrder'
  BY <1>1, <1>3, <1>4, <1>p DEF Line, DeferredOrder
<1>7. NoneDropped'
  BY <1>1, <1>3, <1>4, <1>p DEF Line, NoneDropped
<1>8. SentBefore'
  BY <1>1, <1>2, <1>p DEF Line, SentBefore
<1> QED BY <1>2, <1>5, <1>6, <1>7, <1>8 DEF Ordered, Line

\* deliver hands a live stream its message: it is the last of the line, which is whole before it.
LEMMA OrderedDeliver ==
  ASSUME StreamInv, Ordered, DeliverLive
  PROVE  Ordered'
<1>p. /\ hand # 0 /\ SendDelivery(<<hand, 1>>) /\ accepted' = accepted /\ expired' = expired /\ stream' = stream
      /\ todo' = todo /\ deferred' = deferred /\ sentCursor' = sentCursor /\ written' = written /\ retry' = retry
  BY DEF DeliverLive
<1>1. CASE stream = "closed"
  BY <1>1, <1>p DEF Ordered
<1>2. CASE stream # "closed"
  <2>t. Typed /\ accepted \in Nat /\ accepted <= MaxMessages /\ MaxMessages \in Nat
    BY BroadcastTyped DEF StreamInv, Typed, BrokerTypes
  <2>1. stream = "live" /\ hand = accepted /\ todo = <<>> /\ deferred = <<>>
    BY <1>2, <1>p DEF StreamInv, Typed, BrokerTypes, Bounded, Phased, Phases
  <2>2. WrittenWhole'
    <3>1. WrittenWhole /\ Past' = Past
      BY <1>2, <1>p DEF Ordered, Past
    <3> QED BY <1>p, <3>1 DEF WrittenWhole
  <2>3. ASSUME ~cancelled' PROVE Line'
    <3>1. Room /\ ~cancelled
      BY <1>2, <1>p, <2>3 DEF SendDelivery
    <3>2. Line
      BY <1>2, <3>1 DEF Ordered
    <3> DEFINE d == <<hand, 1>>
    <3>3. d[1] = hand /\ d \in Deliveries
      BY <1>p, <2>1, <2>t, BroadcastTyped DEF Deliveries, Messages
    <3>4. \A k : ~InTodo(k) /\ ~InDeferred(k)
      BY <2>1 DEF InTodo, InDeferred
    <3>5. \A k \in 1..(hand - 1) : k \in Past \/ InChan(k)
      <4>1. \A k \in 1..(hand - 1) : k \in 1..accepted /\ k # hand
        BY <2>1, <2>t
      <4> QED BY <3>2, <3>4, <4>1 DEF Line, NoneDropped
    <3>6. SendDelivery(d) /\ hand = d[1] /\ \A k \in 1..(d[1] - 1) : k \in Past \/ InChan(k)
      BY <1>p, <3>3, <3>5
    <3>7. retry' \subseteq retry
      BY <1>p
    <3> HIDE DEF d
    <3> QED BY ONLY <1>2, <1>p, <2>t, <3>1, <3>2, <3>3, <3>6, <3>7, LineSends
  <2> QED BY <2>2, <2>3 DEF Ordered
<1> QED BY <1>1, <1>2

\* A retry is of a message that went before, so all before that one has gone too.
LEMMA OrderedRetry ==
  ASSUME StreamInv, Ordered, NEW e \in retry, Retry(e)
  PROVE  Ordered'
<1>p. /\ SendDelivery(<<e[1], e[2] + 1>>) /\ accepted' = accepted /\ expired' = expired /\ stream' = stream
      /\ hand' = hand /\ todo' = todo /\ deferred' = deferred /\ sentCursor' = sentCursor /\ written' = written
      /\ retry' \subseteq retry
  BY DEF Retry
<1>1. CASE stream = "closed"
  BY <1>1, <1>p DEF Ordered
<1>2. CASE stream # "closed"
  <2>t. Typed
    BY DEF StreamInv
  <2>2. WrittenWhole'
    <3>1. WrittenWhole /\ Past' = Past
      BY <1>2, <1>p DEF Ordered, Past
    <3> QED BY <1>p, <3>1 DEF WrittenWhole
  <2>3. ASSUME ~cancelled' PROVE Line'
    <3>1. Room /\ ~cancelled
      BY <1>2, <1>p, <2>3 DEF SendDelivery
    <3>2. Line /\ WrittenWhole
      BY <1>2, <3>1 DEF Ordered
    <3> DEFINE d == <<e[1], e[2] + 1>>
    <3>e. e \in Deliveries /\ e[1] \in Messages /\ e[1] \in Nat /\ e[2] \in 1..MaxAttempts /\ e[2] < MaxAttempts
      BY <2>t, BroadcastTyped DEF Typed, BrokerTypes, Deliveries, Messages, Retry, Retriable
    <3>3. d[1] = e[1] /\ d \in Deliveries
      BY <3>e, BroadcastTyped DEF Deliveries
    <3>4. e[1] \in written \/ InChan(e[1])
      BY <3>2 DEF Line, SentBefore
    <3>5. \A k \in 1..(e[1] - 1) : k \in Past \/ InChan(k)
      <4>1. CASE e[1] \in written
        <5>1. \A k \in 1..(e[1] - 1) : k \in 1..e[1]
          BY <3>e
        <5> QED BY <3>2, <4>1, <5>1 DEF WrittenWhole
      <4>2. CASE InChan(e[1])
        <5>1. PICK i \in 1..Len(chan) : chan[i][1] = e[1]
          BY <4>2 DEF InChan
        <5>2. \A k \in 1..(e[1] - 1) : k \in Past \/ \E j \in 1..(i - 1) : chan[j][1] = k
          BY <3>2, <5>1 DEF Line, ChanOrder
        <5>3. \A j \in 1..(i - 1) : j \in 1..Len(chan)
          BY <2>t DEF Typed, BrokerTypes
        <5> QED BY <5>2, <5>3 DEF InChan
      <4> QED BY <3>4, <4>1, <4>2
    <3>6. SendDelivery(d) /\ \A k \in 1..(d[1] - 1) : k \in Past \/ InChan(k)
      BY <1>p, <3>3, <3>5
    <3> HIDE DEF d
    <3> QED BY ONLY <1>2, <1>p, <2>t, <3>1, <3>2, <3>3, <3>6, LineSends
  <2> QED BY <2>2, <2>3 DEF Ordered
<1> QED BY <1>1, <1>2

\* Every step keeps the line, as long as a cancelled handler writes nothing more.
LEMMA OrderedStep ==
  ASSUME StreamInv, Ordered, [Next]_vars, StopsWhenCancelled
  PROVE  Ordered'
<1> DEFINE Quiet == /\ stream' = stream /\ cancelled' = cancelled
                    /\ chan' = chan /\ todo' = todo /\ deferred' = deferred /\ hand' = hand /\ accepted' = accepted
                    /\ written' = written /\ sentCursor' = sentCursor /\ expired \subseteq expired'
                    /\ pending' \cup retry' \subseteq pending \cup retry
<1>q. Quiet => Ordered'
  <2> SUFFICES ASSUME Quiet PROVE Ordered'
    OBVIOUS
  <2>1. (Line => Line') /\ (WrittenWhole => WrittenWhole')
    BY LineStays
  <2> QED BY <2>1 DEF Ordered
<1>c. stream' = "closed" => Ordered'
  BY DEF Ordered
<1>1. CASE Publish
  BY <1>1, OrderedPublish
<1>2. CASE DeliverLive
  BY <1>2, OrderedDeliver
<1>3. CASE Subscribe
  BY <1>3, OrderedSubscribe
<1>4. CASE StreamExit
  BY <1>4, <1>c DEF StreamExit, Close
<1>5. CASE ReplaySend
  BY <1>5, OrderedReplaySend
<1>6. CASE ReplayClose
  BY <1>6, <1>c DEF ReplayClose, Close
<1>7. CASE ReplayReceive
  BY <1>7, OrderedEmit DEF StopsWhenCancelled
<1>8. CASE ReplayNext
  BY <1>8, OrderedReplayNext
<1>9. CASE LiveWrite
  BY <1>9, OrderedEmit DEF StopsWhenCancelled
<1>10. ASSUME NEW m \in Messages, Expire(m) PROVE Ordered'
  <2>1. Quiet
    BY <1>10 DEF Expire, writerVars
  <2> QED BY <1>q, <2>1
<1>11. ASSUME NEW D \in SUBSET pending, MaintenancePop(D) PROVE Ordered'
  <2>1. Quiet
    BY <1>11 DEF MaintenancePop, writerVars
  <2> QED BY <1>q, <2>1
<1>12. ASSUME NEW d \in retry, Retry(d) PROVE Ordered'
  BY <1>12, OrderedRetry
<1>13. ASSUME NEW d \in retry, DropRetry(d) PROVE Ordered'
  <2>1. Quiet
    BY <1>13 DEF DropRetry, writerVars
  <2> QED BY <1>q, <2>1
<1>14. ASSUME NEW i \in 1..Len(frames), Complete(i) PROVE Ordered'
  <2>1. Quiet
    BY <1>14 DEF Complete, writerVars
  <2> QED BY <1>q, <2>1
<1>15. ASSUME NEW i \in 1..Len(frames), Abandon(i) PROVE Ordered'
  BY <1>15, <1>c DEF Abandon, Close
<1>16. CASE UNCHANGED vars
  <2>1. Quiet
    BY <1>16 DEF vars, writerVars
  <2> QED BY <1>q, <2>1
<1> HIDE DEF Quiet
<1> QED BY <1>1, <1>2, <1>3, <1>4, <1>5, <1>6, <1>7, <1>8, <1>9, <1>10, <1>11, <1>12, <1>13, <1>14, <1>15, <1>16
     DEF Next

\* The types, the bounds and the line hold together while cancelled handlers stop.
LEMMA LineInvariant == Spec /\ [][StopsWhenCancelled]_vars => [](StreamInv /\ Ordered)
<1>1. Init => Ordered
  BY DEF Init, Ordered
<1>2. StreamInv /\ Ordered /\ [Next]_vars /\ [StopsWhenCancelled]_vars => Ordered'
  <2>1. CASE UNCHANGED vars
    <3>1. /\ chan' = chan /\ todo' = todo /\ deferred' = deferred /\ hand' = hand /\ accepted' = accepted
          /\ written' = written /\ sentCursor' = sentCursor /\ expired \subseteq expired' /\ stream' = stream
          /\ pending' \cup retry' \subseteq pending \cup retry /\ cancelled' = cancelled
      BY <2>1 DEF vars, writerVars
    <3>2. (Line => Line') /\ (WrittenWhole => WrittenWhole')
      BY <3>1, LineStays
    <3> QED BY <3>1, <3>2 DEF Ordered
  <2>2. CASE StopsWhenCancelled
    BY <2>2, OrderedStep
  <2> QED BY <2>1, <2>2
<1>3. Typed /\ Bounded <=> StreamInv
  BY DEF StreamInv
<1> QED BY <1>1, <1>2, <1>3, BoundedInvariant, PTL DEF Spec

\* deliver, writeReplay and the live loop: if a handler whose context is cancelled writes nothing
\* more, then the cursor of a frame never passes a live message that the stream has not written.
THEOREM CursorNeverPasses == Spec /\ [][StopsWhenCancelled]_vars => []CursorCovers
<1>1. StreamInv /\ Ordered => CursorCovers
  BY DEF Ordered, WrittenWhole, Past, CursorCovers
<1> QED BY <1>1, LineInvariant, PTL

-----------------------------------------------------------------------------
(* What the cursor of the client covers.                                    *)

Done(m) == m \in processed \cup expired

\* m has a frame among the first n.
FrameOf(m, n) == \E j \in 1..n : frames[j].msg = m

\* Nothing below the cursor of a frame is missing: it is done, or in this frame or an earlier one.
\* A completed frame's message has been processed, and whatever was written is done or waits.
FramesWhole == \A i \in 1..Len(frames) : \A m \in 1..frames[i].cur : Done(m) \/ FrameOf(m, i)
FramesDone == \A i \in 1..Len(frames) : frames[i].ok => frames[i].msg \in processed
WrittenFramed == stream # "closed" => \A m \in written : Done(m) \/ FrameOf(m, Len(frames))

Covered == FramesWhole /\ FramesDone /\ WrittenFramed /\ NoSilentSkip

\* A frame is written behind the frames of all that its cursor passes.
LEMMA CoveredEmit ==
  ASSUME StreamInv, Covered, Ordered', ReplayReceive \/ LiveWrite
  PROVE  Covered'
<1>p. /\ stream # "closed" /\ stream' = stream /\ chan # <<>> /\ Emit(Head(chan))
      /\ expired' = expired /\ cursor' = cursor /\ processed' = processed
  <2>1. CASE LiveWrite
    BY <2>1 DEF LiveWrite
  <2>2. CASE ReplayReceive
    <3>1. stream = "replay"
      BY <2>2, Zenon DEF ReplayReceive, StreamInv, Bounded, Phased
    <3> QED BY <2>2, <3>1 DEF ReplayReceive
  <2> QED BY <2>1, <2>2
<1> DEFINE w == Head(chan)[1]
           f == [msg |-> w, att |-> Head(chan)[2], cur |-> sentCursor', ok |-> FALSE]
           n == Len(frames)
<1>1. frames \in Seq(Frames) /\ n \in Nat
  BY DEF StreamInv, Typed, ClientTypes
<1>2. frames' = Append(frames, f) /\ written' = written \cup {w}
  BY <1>p DEF Emit
<1>3. f.msg = w /\ f.cur = sentCursor' /\ f.ok = FALSE
  OBVIOUS
<1> HIDE DEF w, f
<1>4. /\ Len(frames') = n + 1 /\ frames'[n + 1] = f /\ \A j \in 1..n : frames'[j] = frames[j]
  BY <1>1, <1>2
<1> HIDE DEF n
<1>d. \A m : Done(m)' = Done(m)
  BY <1>p DEF Done
<1>5. \A m : \A i \in 1..n : FrameOf(m, i) => \E j \in 1..i : frames'[j].msg = m
  <2>1. \A i \in 1..n : \A j \in 1..i : j \in 1..n
    BY <1>1
  <2> QED BY <1>4, <2>1 DEF FrameOf
<1>6. \A m \in written' : Done(m) \/ \E j \in 1..(n + 1) : frames'[j].msg = m
  <2> SUFFICES ASSUME NEW m \in written', ~Done(m) PROVE \E j \in 1..(n + 1) : frames'[j].msg = m
    OBVIOUS
  <2>1. CASE m = w
    <3>1. n + 1 \in 1..(n + 1)
      BY <1>1
    <3> QED BY <1>3, <1>4, <2>1, <3>1
  <2>2. CASE m \in written
    <3>1. \E j \in 1..n : frames[j].msg = m
      BY <1>p, <2>2 DEF Covered, WrittenFramed, FrameOf, n
    <3>2. \A j \in 1..n : j \in 1..(n + 1)
      BY <1>1
    <3> QED BY <1>4, <3>1, <3>2
  <2> QED BY <1>2, <2>1, <2>2
<1>7. \A m \in 1..sentCursor' : Done(m) \/ \E j \in 1..(n + 1) : frames'[j].msg = m
  <2>1. \A m \in 1..sentCursor' : m \in written' \/ m \in expired
    BY <1>p DEF Ordered, WrittenWhole, Past
  <2> QED BY <1>6, <2>1 DEF Done
<1>8. \A i \in 1..(n + 1) : i \in 1..n \/ i = n + 1
  BY <1>1
<1>9. FramesWhole'
  <2>1. ASSUME NEW i \in 1..(n + 1), NEW m \in 1..frames'[i].cur
        PROVE  Done(m) \/ \E j \in 1..i : frames'[j].msg = m
    <3>1. CASE i \in 1..n
      <4>1. Done(m) \/ FrameOf(m, i)
        BY <1>4, <3>1 DEF Covered, FramesWhole, n
      <4> QED BY <1>5, <3>1, <4>1
    <3>2. CASE i = n + 1
      BY <1>3, <1>4, <1>7, <3>2
    <3> QED BY <1>8, <3>1, <3>2
  <2> QED BY <1>4, <1>d, <2>1 DEF FramesWhole, FrameOf
<1>10. FramesDone'
  <2>1. ASSUME NEW i \in 1..(n + 1), frames'[i].ok PROVE frames'[i].msg \in processed
    <3>1. i # n + 1
      BY <1>3, <1>4, <2>1
    <3>2. i \in 1..n /\ frames'[i] = frames[i]
      BY <1>4, <1>8, <3>1
    <3> QED BY <2>1, <3>2 DEF Covered, FramesDone, n
  <2> QED BY <1>4, <1>p, <2>1 DEF FramesDone
<1>11. WrittenFramed'
  BY <1>4, <1>6, <1>d DEF WrittenFramed, FrameOf
<1>12. NoSilentSkip'
  BY <1>p DEF Covered, NoSilentSkip
<1> QED BY <1>9, <1>10, <1>11, <1>12 DEF Covered

\* markComplete moves the cursor over completed frames only.
LEMMA CoveredComplete ==
  ASSUME StreamInv, Covered, NEW i \in 1..Len(frames), Complete(i)
  PROVE  Covered'
<1> DEFINE fs == [frames EXCEPT ![i].ok = TRUE]
           n == Len(frames)
<1>t. Typed /\ frames \in Seq(Frames) /\ n \in Nat
  BY DEF StreamInv, Typed, ClientTypes
<1>1. PICK k \in 0..n :
           /\ \A j \in 1..k : fs[j].ok
           /\ cursor' = IF k = 0 THEN cursor ELSE fs[k].cur
           /\ Len(frames') = n - k
           /\ \A j \in 1..(n - k) : frames'[j] = fs[j + k]
           /\ \A j \in 1..n : fs[j].msg = frames[j].msg /\ fs[j].cur = frames[j].cur
           /\ \A j \in 1..n : j # i => fs[j].ok = frames[j].ok
  BY <1>t, CompleteFacts
<1>p. /\ stream' = stream /\ written' = written /\ expired' = expired /\ processed' = processed \cup {frames[i].msg}
  BY DEF Complete, writerVars
<1> HIDE DEF fs
<1>k. n \in Nat /\ k \in Nat /\ k <= n
  BY <1>t, <1>1
<1> HIDE DEF n
<1>d. \A m : Done(m) => Done(m)'
  BY <1>p DEF Done
<1>r. \A m : m \in processed' => Done(m)'
  BY DEF Done
<1>2. \A h \in 1..n : fs[h].ok => frames[h].msg \in processed'
  BY <1>1, <1>p DEF Covered, FramesDone, n
<1>3. ASSUME NEW b \in 1..n, NEW m, FrameOf(m, b)
      PROVE  m \in processed' \/ (k < b /\ \E j \in 1..(b - k) : frames'[j].msg = m)
  <2>1. PICK h \in 1..b : frames[h].msg = m
    BY <1>3 DEF FrameOf
  <2>2. h \in 1..n
    BY ONLY <1>k, <2>1, b \in 1..n
  <2>3. CASE h <= k
    <3>1. h \in 1..k
      BY <2>3
    <3> QED BY <1>1, <1>2, <2>1, <2>2, <3>1
  <2>4. CASE ~(h <= k)
    <3>1. h - k \in 1..(b - k) /\ h - k \in 1..(n - k) /\ (h - k) + k = h /\ k < b
      BY ONLY <1>k, <2>1, <2>4, b \in 1..n
    <3>2. frames'[h - k] = fs[h]
      BY <1>1, <3>1
    <3> QED BY <1>1, <2>1, <2>2, <3>1, <3>2
  <2> QED BY <2>3, <2>4
<1>4. FramesWhole'
  <2>1. ASSUME NEW j \in 1..(n - k), NEW m \in 1..frames'[j].cur
        PROVE  Done(m)' \/ \E h \in 1..j : frames'[h].msg = m
    <3>1. j + k \in 1..n /\ (j + k) - k = j
      BY ONLY <1>k, <2>1
    <3>2. frames'[j].cur = frames[j + k].cur
      BY <1>1, <3>1
    <3>3. Done(m) \/ FrameOf(m, j + k)
      BY <3>1, <3>2 DEF Covered, FramesWhole, n
    <3>4. FrameOf(m, j + k) => m \in processed' \/ \E h \in 1..j : frames'[h].msg = m
      BY <1>3, <3>1
    <3> QED BY <1>d, <1>r, <3>3, <3>4
  <2> QED BY <1>1, <2>1 DEF FramesWhole, FrameOf
<1>5. FramesDone'
  <2>1. ASSUME NEW j \in 1..(n - k), frames'[j].ok PROVE frames'[j].msg \in processed'
    <3>1. j + k \in 1..n /\ frames'[j] = fs[j + k]
      BY <1>k, <1>1
    <3> QED BY <1>1, <1>2, <2>1, <3>1
  <2> QED BY <1>1, <2>1 DEF FramesDone
<1>6. WrittenFramed'
  <2>1. ASSUME stream # "closed", NEW m \in written PROVE Done(m)' \/ \E h \in 1..(n - k) : frames'[h].msg = m
    <3>1. Done(m) \/ FrameOf(m, n)
      BY <2>1 DEF Covered, WrittenFramed, n
    <3>2. FrameOf(m, n) => n \in 1..n
      BY <1>k DEF FrameOf
    <3>3. FrameOf(m, n) => m \in processed' \/ \E h \in 1..(n - k) : frames'[h].msg = m
      BY <1>3, <3>2
    <3> QED BY <1>d, <1>r, <3>1, <3>3
  <2> QED BY <1>1, <1>p, <2>1 DEF WrittenFramed, FrameOf
<1>7. NoSilentSkip'
  <2>1. CASE k = 0
    BY <1>1, <1>p, <2>1 DEF Covered, NoSilentSkip
  <2>2. CASE k # 0
    <3>0. k \in 1..n
      BY ONLY <1>k, <2>2
    <3>1. k \in 1..n /\ cursor' = frames[k].cur
      <4>1. cursor' = fs[k].cur /\ fs[k].cur = frames[k].cur
        BY <1>1, <2>2, <3>0
      <4> QED BY <3>0, <4>1
    <3>2. ASSUME NEW m \in 1..frames[k].cur PROVE Done(m)'
      <4>1. Done(m) \/ FrameOf(m, k)
        BY <3>1 DEF Covered, FramesWhole, n
      <4>2. FrameOf(m, k) => m \in processed'
        BY <1>3, <3>1
      <4> QED BY <1>d, <1>r, <4>1, <4>2
    <3> QED BY <3>1, <3>2 DEF NoSilentSkip, Done
  <2> QED BY <2>1, <2>2
<1> QED BY <1>4, <1>5, <1>6, <1>7 DEF Covered

\* Every step keeps what the cursors cover.
LEMMA CoveredStep ==
  ASSUME StreamInv, Covered, Ordered', [Next]_vars
  PROVE  Covered'
<1> DEFINE Quiet == /\ frames' = frames /\ cursor' = cursor /\ written' = written
                    /\ processed \subseteq processed' /\ expired \subseteq expired'
                    /\ stream' # "closed" => stream # "closed"
<1>q. Quiet => Covered'
  <2> SUFFICES ASSUME Quiet PROVE Covered'
    OBVIOUS
  <2>1. \A m : Done(m) => Done(m)'
    BY DEF Done
  <2>2. \A m, b : FrameOf(m, b) => \E j \in 1..b : frames'[j].msg = m
    BY DEF FrameOf
  <2>3. FramesWhole'
    BY <2>1 DEF Covered, FramesWhole, FrameOf
  <2>4. FramesDone'
    BY DEF Covered, FramesDone
  <2>5. WrittenFramed'
    BY <2>1 DEF Covered, WrittenFramed, FrameOf
  <2>6. NoSilentSkip'
    BY DEF Covered, NoSilentSkip
  <2> QED BY <2>3, <2>4, <2>5, <2>6 DEF Covered
<1>1. CASE Publish
  BY <1>1, <1>q DEF Publish, clientVars
<1>2. CASE DeliverLive
  BY <1>2, <1>q DEF DeliverLive, clientVars
<1>3. CASE Subscribe
  <2>1. /\ frames' = <<>> /\ cursor' = cursor /\ written' = 1..cursor /\ processed' = processed /\ expired' = expired
    BY <1>3 DEF Subscribe
  <2>2. 1..Len(frames') = {}
    BY <2>1
  <2> QED BY <2>1, <2>2 DEF Covered, FramesWhole, FramesDone, WrittenFramed, NoSilentSkip, Done
<1>4. CASE StreamExit
  BY <1>4, <1>q DEF StreamExit, Close, clientVars
<1>5. CASE ReplaySend
  BY <1>5, <1>q DEF ReplaySend, clientVars
<1>6. CASE ReplayClose
  BY <1>6, <1>q DEF ReplayClose, Close, clientVars
<1>7. CASE ReplayReceive \/ LiveWrite
  BY <1>7, CoveredEmit
<1>8. CASE ReplayNext
  BY <1>8, <1>q DEF ReplayNext, clientVars
<1>10. ASSUME NEW m \in Messages, Expire(m) PROVE Covered'
  BY <1>10, <1>q DEF Expire, writerVars, clientVars
<1>11. ASSUME NEW D \in SUBSET pending, MaintenancePop(D) PROVE Covered'
  BY <1>11, <1>q DEF MaintenancePop, writerVars, clientVars
<1>12. ASSUME NEW d \in retry, Retry(d) \/ DropRetry(d) PROVE Covered'
  BY <1>12, <1>q DEF Retry, DropRetry, writerVars, clientVars
<1>14. ASSUME NEW i \in 1..Len(frames), Complete(i) PROVE Covered'
  BY <1>14, CoveredComplete
<1>15. ASSUME NEW i \in 1..Len(frames), Abandon(i) PROVE Covered'
  <2>1. Quiet
    BY <1>15 DEF Abandon, Close
  <2> QED BY <1>q, <2>1
<1>16. CASE UNCHANGED vars
  BY <1>16, <1>q DEF vars, writerVars, clientVars
<1> HIDE DEF Quiet
<1> QED BY <1>1, <1>2, <1>3, <1>4, <1>5, <1>6, <1>7, <1>8, <1>10, <1>11, <1>12, <1>14, <1>15, <1>16 DEF Next

\* The cursor, subscribeOnce and markComplete: if a handler whose context is cancelled writes nothing
\* more, then the cursor a client resumes from never passes a message that no handler completed.
THEOREM NothingSkipped == Spec /\ [][StopsWhenCancelled]_vars => []NoSilentSkip
<1>1. Init => Covered
  <2>1. ASSUME Init PROVE 1..Len(frames) = {} /\ stream = "closed" /\ 1..cursor = {}
    BY <2>1 DEF Init
  <2> QED BY <2>1 DEF Covered, FramesWhole, FramesDone, WrittenFramed, NoSilentSkip
<1>2. StreamInv /\ Covered /\ Ordered' /\ [Next]_vars => Covered'
  BY CoveredStep
<1>3. Covered => NoSilentSkip
  BY DEF Covered
<1> QED BY <1>1, <1>2, <1>3, LineInvariant, PTL DEF Spec
=============================================================================
