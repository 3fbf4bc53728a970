------------------------ MODULE ProducerBatcherProofs ------------------------
(***************************************************************************)
(* What the Go client's batcher does for any number of publications,       *)
(* flushes and closers, any batch size and any queue depth: every slot is  *)
(* accounted for, a Flush covers what was submitted before it, nobody is   *)
(* left waiting, and the batcher implements BatchPromise.                  *)
(***************************************************************************)
EXTENDS ProducerBatcher, FoldTheorems, SequenceTheorems, TLAPS

Barriers == Flushers \cup {Closing}

\* The command the worker has taken from the queue and not put anywhere yet.
Held == IF then[1] \in {"append", "barrier", "failed"} THEN {then[2]} ELSE {}

\* Where the commands the batcher has not answered are.
Queued == ToSet(queue)
Batch == ToSet(pending)
Out == ToSet(calling)

Distinct(s) == \A i, j \in 1..Len(s) : s[i] = s[j] => i = j

CallTyped ==
  /\ pc \in [Callers \cup Closers -> {"idle", "reserving", "reserved", "waiting", "returned"}]
  /\ ended \subseteq Publishers \cup Flushers \cup Closers
  /\ closeErr \in {None, Failed, Cancelled, Closed, Flushed}
  /\ slots \in Int /\ stop \in BOOLEAN /\ aborted \in BOOLEAN /\ first \in Closers \cup {None}

ThenTyped ==
  \/ then = <<"select">> \/ then = <<"drain">> \/ then = <<"full">>
  \/ \E p \in Publishers : then = <<"append", p>>
  \/ \E c \in Barriers : then = <<"barrier", c>> \/ then = <<"failed", c>>

WorkTyped ==
  /\ queue \in Seq(Callers) /\ pending \in Seq(Publishers) /\ calling \in Seq(Publishers)
  /\ done \in BOOLEAN /\ timer \in BOOLEAN /\ sent \in SUBSET Publishers /\ ThenTyped
  /\ answer \in [Callers -> Publishers \cup {None, Failed, Cancelled, Closed, Flushed}]
  /\ covers \in [Callers -> SUBSET Publishers]
  /\ \A c \in Barriers : answer[c] \in {None, Failed, Closed, Flushed}

\* No slot is taken twice and none is lost: the ledger, and what may still be free.
SlotBound == slots <= QueueDepth

\* The batcher has, or had, the command.
Known(c) == c \in Queued \/ c \in Batch \/ c \in Held \/ answer[c] # None

\* A caller that has not submitted its command is not known; one that waits is.
Unsubmitted == \A c \in Callers : pc[c] \in {"idle", "reserving", "reserved"} => ~Known(c)
Located == \A c \in Callers : pc[c] = "waiting" => Known(c)

\* Every command is in one place, once.
Apart ==
  /\ Distinct(queue) /\ Distinct(pending)
  /\ Queued \cap Batch = {} /\ Queued \cap Held = {} /\ Batch \cap Held = {}

\* What is in a place is unanswered, save the members of the batch that the request leaves out.
Open ==
  /\ \A c \in Queued \cup Held : answer[c] = None
  /\ \A p \in Batch : answer[p] # None => calling # <<>> /\ p \notin Out
Request ==
  /\ Out \subseteq Batch /\ Len(calling) <= Len(pending)
  /\ \A p \in Out : answer[p] = None
  /\ calling # <<>> => \A p \in Batch : p \notin Out => answer[p] # None
  /\ then[1] \in {"full", "failed"} => calling = <<>>

\* The batch is compatible and bounded, and empty where the code has just flushed it.
Compatible ==
  /\ Len(pending) <= MaxMessages /\ \A p, q \in Batch : Class[p] = Class[q]
  /\ calling = <<>> /\ then[1] = "append" =>
       pending = <<>> \/ (Len(pending) < MaxMessages /\ \A q \in Batch : Class[q] = Class[then[2]])
  /\ calling = <<>> /\ then[1] \in {"barrier", "failed", "drain"} => pending = <<>>

Ending ==
  /\ then[1] = "drain" => stop
  /\ done => stop /\ then[1] = "drain" /\ calling = <<>> /\ queue = <<>>
  /\ then[1] # "drain" => \A c \in Callers : answer[c] # Closed

SentAnswered == \A p \in sent : answer[p] # None

\* What a Flush covers is ahead of its barrier, in the batch or answered.
Settled(p) == p \in Batch \/ p \in Held \/ answer[p] # None
QueueAhead ==
  \A j \in 1..Len(queue) : \A p \in covers[queue[j]] :
    Settled(p) \/ \E i \in 1..Len(queue) : i < j /\ queue[i] = p
Ahead ==
  then[1] # "drain" =>
    /\ QueueAhead
    /\ then[1] = "barrier" => \A p \in covers[then[2]] : p \in Batch \/ answer[p] # None
    /\ then[1] = "failed" => \A p \in covers[then[2]] : answer[p] # None

CallerInv == CallTyped /\ SlotLedger /\ SlotBound /\ Unsubmitted /\ Located
WorkInv ==
  /\ WorkTyped /\ Apart /\ Open /\ Request /\ Compatible /\ Ending /\ SentAnswered /\ Ahead /\ FlushCovers
Inv == CallerInv /\ WorkInv

-----------------------------------------------------------------------------
(* Lists of commands.                                                       *)

\* The members of a list are what it holds at its places.
LEMMA Members ==
  ASSUME NEW T, NEW s \in Seq(T)
  PROVE  ToSet(s) \subseteq T /\ \A x : x \in ToSet(s) <=> \E i \in 1..Len(s) : s[i] = x
BY DEF ToSet

\* Append puts the element last.
LEMMA AppendMembers ==
  ASSUME NEW T, NEW s \in Seq(T), NEW e \in T
  PROVE  /\ Append(s, e) \in Seq(T) /\ ToSet(Append(s, e)) = ToSet(s) \cup {e}
         /\ Distinct(s) /\ e \notin ToSet(s) => Distinct(Append(s, e))
<1> DEFINE u == Append(s, e)
<1>1. /\ u \in Seq(T) /\ Len(u) = Len(s) + 1 /\ Len(s) \in Nat
      /\ (\A i \in 1..Len(s) : u[i] = s[i]) /\ u[Len(s) + 1] = e
  OBVIOUS
<1> HIDE DEF u
<1>2. \A i \in 1..Len(u) : i \in 1..Len(s) \/ i = Len(s) + 1
  BY <1>1
<1>3. ToSet(u) = ToSet(s) \cup {e}
  <2>1. ASSUME NEW x PROVE x \in ToSet(u) <=> x \in ToSet(s) \cup {e}
    BY <1>1, <1>2, Members
  <2> QED BY <2>1
<1>4. ASSUME Distinct(s), e \notin ToSet(s) PROVE Distinct(u)
  BY <1>1, <1>2, <1>4, Members DEF Distinct
<1> QED BY <1>1, <1>3, <1>4 DEF u

\* The head leaves the list, and is not met in the rest of it.
LEMMA TailMembers ==
  ASSUME NEW T, NEW s \in Seq(T), s # <<>>, Distinct(s)
  PROVE  /\ Tail(s) \in Seq(T) /\ Head(s) \in T /\ Len(Tail(s)) = Len(s) - 1 /\ Distinct(Tail(s))
         /\ Head(s) \in ToSet(s) /\ ToSet(Tail(s)) = ToSet(s) \ {Head(s)}
<1> DEFINE u == Tail(s)
           h == Head(s)
<1>1. /\ u \in Seq(T) /\ Len(u) = Len(s) - 1 /\ Len(s) \in Nat \ {0} /\ h \in T /\ h = s[1]
      /\ \A i \in 1..Len(u) : u[i] = s[i + 1]
  OBVIOUS
<1> HIDE DEF u, h
<1>2. Distinct(u)
  BY <1>1 DEF Distinct
<1>3. h \in ToSet(s)
  BY <1>1, Members
<1>4. ASSUME NEW x \in ToSet(u) PROVE x \in ToSet(s) /\ x # h
  <2>1. PICK i \in 1..Len(u) : u[i] = x
    BY <1>1, <1>4, Members
  <2>2. i + 1 \in 1..Len(s) /\ s[i + 1] = x /\ i + 1 # 1
    BY <1>1, <2>1
  <2> QED BY <1>1, <2>2, Members DEF Distinct
<1>5. ASSUME NEW x \in ToSet(s), x # h PROVE x \in ToSet(u)
  <2>1. PICK i \in 1..Len(s) : s[i] = x
    BY <1>5, Members
  <2>2. i - 1 \in 1..Len(u)
    BY <1>1, <1>5, <2>1
  <2>3. u[i - 1] = x
    BY <1>1, <2>1, <2>2
  <2> QED BY <1>1, <2>2, <2>3, Members
<1>6. ToSet(u) = ToSet(s) \ {h}
  BY <1>4, <1>5
<1> QED BY <1>1, <1>2, <1>3, <1>6 DEF u, h

\* A list of n elements has n places.
LEMMA Places == ASSUME NEW n \in Nat PROVE IsFiniteSet(1..n) /\ Cardinality(1..n) = n
<1>1. 1 \in Int /\ n \in Int
  OBVIOUS
<1>2. IsFiniteSet(1..n) /\ Cardinality(1..n) = IF 1 > n THEN 0 ELSE n - 1 + 1
  BY <1>1, FS_Interval, Zenon
<1> QED BY <1>2

\* A list has at least as many places as members.
LEMMA MembersCounted ==
  ASSUME NEW T, NEW s \in Seq(T)
  PROVE  IsFiniteSet(ToSet(s)) /\ Cardinality(ToSet(s)) <= Len(s)
<1>1. Len(s) \in Nat /\ IsFiniteSet(1..Len(s)) /\ Cardinality(1..Len(s)) = Len(s)
  BY Places
<1> DEFINE f == [i \in 1..Len(s) |-> s[i]]
<1>2. f \in Surjection(1..Len(s), ToSet(s))
  BY <1>1, Members DEF Surjection
<1> HIDE DEF f
<1>3. PICK D : D = 1..Len(s)
  OBVIOUS
<1>4. IsFiniteSet(ToSet(s)) /\ Cardinality(ToSet(s)) <= Cardinality(D)
  BY <1>1, <1>2, <1>3, FS_Surjection
<1> QED BY <1>1, <1>3, <1>4

\* What Active keeps of the batch: the members whose context has not ended.
LEMMA KeptMembers ==
  ASSUME NEW T, NEW s \in Seq(T), NEW S
  PROVE  /\ Kept(s, S) \in Seq(T) /\ ToSet(Kept(s, S)) = ToSet(s) \cap S /\ Len(Kept(s, S)) <= Len(s)
<1> DEFINE u == Kept(s, S)
<1>1. u \in Seq(T) /\ \E f : Picks(f, u, s, S, Len(s))
  BY KeptPicks
<1>2. PICK f : Picks(f, u, s, S, Len(s))
  BY <1>1
<1> HIDE DEF u
<1>3. /\ f \in [1..Len(u) -> 1..Len(s)]
      /\ \A i, j \in 1..Len(u) : i < j => f[i] < f[j]
      /\ \A j \in 1..Len(u) : u[j] = s[f[j]] /\ u[j] \in S
      /\ \A i \in 1..Len(s) : s[i] \in S => \E j \in 1..Len(u) : f[j] = i
  BY <1>2 DEF Picks
<1>4. ASSUME NEW x PROVE x \in ToSet(u) <=> x \in ToSet(s) /\ x \in S
  <2>1. ASSUME NEW j \in 1..Len(u) PROVE \E i \in 1..Len(s) : s[i] = u[j]
    BY <1>3
  <2>2. ASSUME NEW i \in 1..Len(s), s[i] \in S PROVE \E j \in 1..Len(u) : u[j] = s[i]
    <3>1. PICK j \in 1..Len(u) : f[j] = i
      BY <1>3, <2>2
    <3> QED BY <1>3, <3>1
  <2>3. x \in ToSet(u) <=> \E j \in 1..Len(u) : u[j] = x
    BY <1>1, Members
  <2>4. x \in ToSet(s) <=> \E i \in 1..Len(s) : s[i] = x
    BY Members
  <2>5. \A j \in 1..Len(u) : u[j] \in S
    BY <1>3
  <2> QED BY ONLY <2>1, <2>2, <2>3, <2>4, <2>5
<1>5. Len(u) <= Len(s)
  <2>1. Len(u) \in Nat /\ Len(s) \in Nat
    BY <1>1
  <2>2. /\ IsFiniteSet(1..Len(u)) /\ Cardinality(1..Len(u)) = Len(u)
        /\ IsFiniteSet(1..Len(s)) /\ Cardinality(1..Len(s)) = Len(s)
    <3>1. IsFiniteSet(1..Len(u)) /\ Cardinality(1..Len(u)) = Len(u)
      BY <2>1, Places
    <3>2. IsFiniteSet(1..Len(s)) /\ Cardinality(1..Len(s)) = Len(s)
      BY <2>1, Places
    <3> QED BY <3>1, <3>2
  <2>3. f \in Injection(1..Len(u), 1..Len(s))
    <3>1. ASSUME NEW i \in 1..Len(u), NEW j \in 1..Len(u), f[i] = f[j] PROVE i = j
      <4>1. f[i] \in Int /\ f[j] \in Int
        BY <1>3
      <4>2. ~(i < j) /\ ~(j < i)
        BY <1>3, <3>1, <4>1
      <4> QED BY <2>1, <4>2
    <3> QED BY <1>3, <3>1 DEF Injection, IsInjective
  <2> QED BY <2>2, <2>3, FS_Injection
<1> QED BY <1>1, <1>4, <1>5 DEF u

-----------------------------------------------------------------------------
(* What a step leaves as it was.                                            *)

\* The command the worker has in hand is a publication to append or a barrier to answer.
LEMMA ThenFacts ==
  ASSUME ThenTyped
  PROVE  /\ then[1] \in {"select", "drain", "full", "append", "barrier", "failed"}
         /\ then[1] = "append" => then[2] \in Publishers
         /\ then[1] \in {"barrier", "failed"} => then[2] \in Barriers
         /\ \A p : then = <<"append", p>> <=> then[1] = "append" /\ then[2] = p
         /\ Held \in SUBSET Callers /\ (then[1] \in {"select", "drain", "full"} => Held = {})
<1> USE DEF Held, Callers, Barriers
<1>1. CASE then = <<"select">> \/ then = <<"drain">> \/ then = <<"full">>
  <2>1. then[1] \in {"select", "drain", "full"}
    BY <1>1
  <2>2. \A p : then # <<"append", p>>
    BY <2>1
  <2> QED BY <2>1, <2>2
<1>2. CASE \E p \in Publishers : then = <<"append", p>>
  <2>1. PICK p \in Publishers : then = <<"append", p>>
    BY <1>2
  <2> QED BY <2>1
<1>3. CASE \E c \in Barriers : then = <<"barrier", c>> \/ then = <<"failed", c>>
  <2>1. PICK c \in Barriers : then = <<"barrier", c>> \/ then = <<"failed", c>>
    BY <1>3
  <2>2. then[1] \in {"barrier", "failed"} /\ then[2] = c
    BY <2>1
  <2>3. \A p : then # <<"append", p>>
    BY <2>2
  <2> QED BY <2>1, <2>2, <2>3
<1> QED BY <1>1, <1>2, <1>3 DEF ThenTyped

\* A step that touches neither the queue, the worker nor an answer keeps the worker's part.
LEMMA WorkQuiet ==
  ASSUME WorkInv, UNCHANGED <<queue, answer, covers, workVars>>, stop => stop'
  PROVE  WorkInv' /\ \A c \in Callers : Known(c)' <=> Known(c)
<1> USE DEF WorkInv, workVars
<1>1. Queued' = Queued /\ Batch' = Batch /\ Out' = Out /\ Held' = Held
  BY DEF Queued, Batch, Out, Held
<1>2. WorkTyped'
  BY DEF WorkTyped, ThenTyped
<1>3. Apart' /\ Open' /\ Request' /\ Compatible'
  BY <1>1 DEF Apart, Open, Request, Compatible, Distinct
<1>4. Ending' /\ SentAnswered' /\ FlushCovers'
  BY DEF Ending, SentAnswered, FlushCovers
<1>5. Ahead'
  BY <1>1 DEF Ahead, QueueAhead, Settled
<1> QED BY <1>1, <1>2, <1>3, <1>4, <1>5 DEF Known

\* An answer, once given, stays; a barrier that gets one here gets ErrBatcherClosed.
Firm == \A c \in Callers : /\ answer[c] # None => answer'[c] = answer[c]
                           /\ c \in Barriers => answer'[c] \in {answer[c], Closed}

\* A step that changes no answer once given keeps what an answered barrier stands for.
LEMMA CoversFirm ==
  ASSUME WorkInv, Firm, covers' = covers
  PROVE  FlushCovers'
<1> SUFFICES ASSUME NEW c \in Flushers \cup {Closing}, answer'[c] \in {Flushed, Failed}, NEW p \in covers[c]
             PROVE  answer'[p] \notin {None, Closed}
  BY DEF FlushCovers
<1>1. c \in Callers /\ c \in Barriers /\ p \in Callers
  BY DEF Callers, Barriers, WorkInv, WorkTyped
<1>2. answer[c] \in {Flushed, Failed}
  BY <1>1, BatcherTyped DEF Firm
<1>3. answer[p] \notin {None, Closed}
  BY <1>2 DEF WorkInv, FlushCovers
<1> QED BY <1>1, <1>3 DEF Firm

\* What was in the batch or answered is so after the step, the command in hand included.
Settles == \A p \in Publishers : Settled(p) => Settled(p)'

\* The queue stays: what is ahead of each barrier is still ahead of it or settled.
LEMMA QueueAheadSame ==
  ASSUME WorkInv, QueueAhead, Settles, queue' = queue, covers' = covers
  PROVE  QueueAhead'
<1> SUFFICES ASSUME NEW j \in 1..Len(queue), NEW p \in covers[queue[j]]
             PROVE  Settled(p)' \/ \E i \in 1..Len(queue) : i < j /\ queue[i] = p
  BY DEF QueueAhead
<1>1. p \in Publishers
  BY DEF WorkInv, WorkTyped
<1> QED BY <1>1 DEF QueueAhead, Settles

\* The head leaves the queue: the ones behind it now find it in the batch, in hand or answered.
LEMMA QueueAheadTail ==
  ASSUME WorkInv, QueueAhead, Settles, queue # <<>>, queue' = Tail(queue), covers' = covers,
         NEW h, h = Head(queue), h \in Publishers => Settled(h)'
  PROVE  QueueAhead'
<1>1. /\ queue \in Seq(Callers) /\ Len(queue) \in Nat \ {0} /\ Len(queue') = Len(queue) - 1 /\ h = queue[1]
      /\ \A i \in 1..Len(queue') : queue'[i] = queue[i + 1]
  BY DEF WorkInv, WorkTyped
<1> SUFFICES ASSUME NEW j \in 1..Len(queue'), NEW p \in covers[queue'[j]]
             PROVE  Settled(p)' \/ \E i \in 1..Len(queue') : i < j /\ queue'[i] = p
  BY DEF QueueAhead
<1>3. queue'[j] = queue[j + 1] /\ j + 1 \in 1..Len(queue) /\ queue[j + 1] \in Callers
  BY <1>1
<1>4. p \in Publishers
  BY <1>3 DEF WorkInv, WorkTyped
<1>5. Settled(p) \/ \E i \in 1..Len(queue) : i < j + 1 /\ queue[i] = p
  BY <1>3 DEF QueueAhead
<1>6. CASE Settled(p)
  BY <1>4, <1>6 DEF Settles
<1>7. ASSUME NEW i \in 1..Len(queue), i < j + 1, queue[i] = p
      PROVE  Settled(p)' \/ \E m \in 1..Len(queue') : m < j /\ queue'[m] = p
  <2>1. CASE i = 1
    BY <1>1, <1>4, <1>7, <2>1
  <2>2. CASE i # 1
    <3>1. i - 1 \in 1..Len(queue') /\ i - 1 < j
      BY <1>1, <1>7, <2>2
    <3>2. queue'[i - 1] = p
      BY <1>1, <1>7, <3>1
    <3> QED BY <3>1, <3>2
  <2> QED BY <2>1, <2>2
<1> QED BY <1>5, <1>6, <1>7

-----------------------------------------------------------------------------
(* The callers' steps.                                                      *)

Reserved == {c \in Callers : pc[c] = "reserved"}

\* The callers that hold a slot can be counted.
LEMMA ReservedCounted == IsFiniteSet(Callers) /\ IsFiniteSet(Reserved) /\ Cardinality(Reserved) \in Nat
<1>1. IsFiniteSet(Publishers \cup Flushers) /\ IsFiniteSet({Closing})
  BY BatcherTyped, FS_Union, FS_Singleton
<1>2. IsFiniteSet(Callers)
  BY <1>1, FS_Union DEF Callers
<1> QED BY <1>2, FS_Subset, FS_CardinalityType DEF Reserved

\* A caller that starts or ceases to hold a slot counts for one.
LEMMA ReservedChange ==
  ASSUME CallTyped, NEW c \in Callers, \A d \in Callers : d # c => pc'[d] = pc[d]
  PROVE  /\ pc[c] # "reserved" /\ pc'[c] = "reserved" => Cardinality(Reserved') = Cardinality(Reserved) + 1
         /\ pc[c] = "reserved" /\ pc'[c] # "reserved" => Cardinality(Reserved') = Cardinality(Reserved) - 1
         /\ pc[c] # "reserved" /\ pc'[c] # "reserved" => Reserved' = Reserved
<1>1. ASSUME pc[c] # "reserved", pc'[c] = "reserved" PROVE Cardinality(Reserved') = Cardinality(Reserved) + 1
  <2>1. Reserved' = Reserved \cup {c} /\ c \notin Reserved
    BY <1>1 DEF Reserved
  <2> QED BY <2>1, ReservedCounted, FS_AddElement
<1>2. ASSUME pc[c] = "reserved", pc'[c] # "reserved" PROVE Cardinality(Reserved') = Cardinality(Reserved) - 1
  <2>1. Reserved' = Reserved \ {c} /\ c \in Reserved
    BY <1>2 DEF Reserved
  <2> QED BY <2>1, ReservedCounted, FS_RemoveElement
<1>3. ASSUME pc[c] # "reserved", pc'[c] # "reserved" PROVE Reserved' = Reserved
  BY <1>3 DEF Reserved
<1> QED BY <1>1, <1>2, <1>3

\* A step of a caller that submits nothing: the ledger is what it has to keep.
LEMMA CallerQuiet ==
  ASSUME Inv, CallTyped', UNCHANGED <<queue, answer, covers, workVars>>, stop => stop',
         \A c \in Callers : pc'[c] \in {"idle", "reserving", "reserved"} => pc[c] \in {"idle", "reserving", "reserved"},
         \A c \in Callers : pc'[c] = "waiting" => pc[c] = "waiting",
         slots' - Cardinality(Reserved') = slots - Cardinality(Reserved), slots' <= QueueDepth
  PROVE  Inv'
<1>1. WorkInv' /\ \A c \in Callers : Known(c)' <=> Known(c)
  BY WorkQuiet DEF Inv
<1>2. Unsubmitted' /\ Located'
  BY <1>1 DEF Inv, CallerInv, Unsubmitted, Located
<1>3. SlotLedger' /\ SlotBound'
  <2>1. Cardinality(Reserved) \in Nat /\ slots \in Int /\ slots = Len(queue) + Cardinality(Reserved)
    BY ReservedCounted DEF Inv, CallerInv, CallTyped, SlotLedger, Reserved
  <2>2. Cardinality(Reserved') \in Nat
    <3>1. Reserved' \subseteq Callers
      BY DEF Reserved
    <3> QED BY <3>1, ReservedCounted, FS_Subset, FS_CardinalityType
  <2>3. slots' \in Int /\ Len(queue) \in Nat
    BY DEF Inv, CallTyped, WorkInv, WorkTyped
  <2>4. slots' = Len(queue') + Cardinality(Reserved')
    BY <2>1, <2>2, <2>3
  <2> QED BY <2>4 DEF SlotLedger, SlotBound, Reserved
<1> QED BY <1>1, <1>2, <1>3 DEF Inv, CallerInv

\* A caller goes from one place to another without a slot.
LEMMA PcQuiet ==
  ASSUME Inv, NEW c \in Callers, NEW w, pc' = [pc EXCEPT ![c] = w], w \in {"reserving", "returned"},
         w = "reserving" => pc[c] = "idle",
         pc[c] # "reserved", slots' = slots,
         closeErr' \in {None, Failed, Cancelled, Closed, Flushed},
         UNCHANGED <<ended, answer, queue, stop, aborted, workVars, histories>>
  PROVE  Inv'
<1>1. CallTyped'
  BY DEF Inv, CallerInv, CallTyped, histories
<1>2. pc'[c] = w /\ \A d \in Callers : d # c => pc'[d] = pc[d]
  BY DEF Inv, CallerInv, CallTyped
<1>3. Reserved' = Reserved
  BY <1>2, ReservedChange DEF Inv, CallerInv
<1>4. /\ UNCHANGED <<queue, answer, covers, workVars>> /\ (stop => stop')
      /\ \A d \in Callers : pc'[d] \in {"idle", "reserving", "reserved"} => pc[d] \in {"idle", "reserving", "reserved"}
      /\ \A d \in Callers : pc'[d] = "waiting" => pc[d] = "waiting"
      /\ slots' <= QueueDepth /\ slots' - Cardinality(Reserved') = slots - Cardinality(Reserved)
  BY <1>2, <1>3 DEF histories, Inv, CallerInv, SlotBound
<1> QED BY <1>1, <1>4, CallerQuiet

\* What a call may return with is what Close may have to report.
LEMMA ReturnsTyped ==
  ASSUME Inv, NEW c, NEW r, Returns(c, r), r \in {None, Failed, Cancelled, Closed, Flushed} \/ c # Closing
  PROVE  pc' = [pc EXCEPT ![c] = "returned"] /\ closeErr' \in {None, Failed, Cancelled, Closed, Flushed}
BY DEF Returns, Inv, CallerInv, CallTyped

\* A caller takes a free slot.
LEMMA TakesSlot ==
  ASSUME Inv, NEW c \in Callers, pc[c] \in {"idle", "reserving"}, slots < QueueDepth,
         pc' = [pc EXCEPT ![c] = "reserved"], slots' = slots + 1,
         UNCHANGED <<ended, closeErr, answer, queue, stop, aborted, workVars, histories>>
  PROVE  Inv'
<1>1. CallTyped'
  BY DEF Inv, CallerInv, CallTyped, histories
<1>2. pc'[c] = "reserved" /\ \A d \in Callers : d # c => pc'[d] = pc[d]
  BY DEF Inv, CallerInv, CallTyped
<1>3. Cardinality(Reserved') = Cardinality(Reserved) + 1 /\ Cardinality(Reserved) \in Nat
  BY <1>2, ReservedChange, ReservedCounted DEF Inv, CallerInv
<1>4. /\ UNCHANGED <<queue, answer, covers, workVars>> /\ (stop => stop')
      /\ \A d \in Callers : pc'[d] \in {"idle", "reserving", "reserved"} => pc[d] \in {"idle", "reserving", "reserved"}
      /\ \A d \in Callers : pc'[d] = "waiting" => pc[d] = "waiting"
      /\ slots' <= QueueDepth /\ slots' - Cardinality(Reserved') = slots - Cardinality(Reserved)
  BY <1>2, <1>3, BatcherTyped DEF histories, Inv, CallerInv, CallTyped
<1> QED BY <1>1, <1>4, CallerQuiet

\* reserve, at once or after a wait.
LEMMA CallKeeps == ASSUME Inv, NEW c \in Callers, Call(c) PROVE Inv'
<1>1. pc[c] = "idle" /\ c # Closing /\ UNCHANGED <<ended, answer, queue, stop, aborted, workVars, histories>>
  BY BatcherTyped DEF Call
<1>2. CASE UNCHANGED slots /\ \E e \in {Closed, Cancelled} : Returns(c, e)
  <2>1. PICK e \in {Closed, Cancelled} : Returns(c, e)
    BY <1>2
  <2> QED BY <1>1, <1>2, <2>1, ReturnsTyped, PcQuiet
<1>3. CASE slots < QueueDepth /\ pc' = [pc EXCEPT ![c] = "reserved"] /\ slots' = slots + 1 /\ UNCHANGED closeErr
  BY <1>1, <1>3, TakesSlot
<1>4. CASE pc' = [pc EXCEPT ![c] = "reserving"] /\ UNCHANGED <<slots, closeErr>>
  <2>1. closeErr' \in {None, Failed, Cancelled, Closed, Flushed}
    BY <1>4 DEF Inv, CallerInv, CallTyped
  <2> QED BY <1>1, <1>4, <2>1, PcQuiet
<1> QED BY <1>2, <1>3, <1>4 DEF Call

\* reserve, after a wait for a slot.
LEMMA ReserveKeeps == ASSUME Inv, NEW c \in Callers, Reserve(c) PROVE Inv'
BY TakesSlot DEF Reserve

\* reserve gives up: the batcher closed or the context ended.
LEMMA ReserveFailsKeeps == ASSUME Inv, NEW c \in Callers, ReserveFails(c) PROVE Inv'
<1>1. PICK e \in {Closed, Cancelled} : Returns(c, e)
  BY DEF ReserveFails
<1>2. pc[c] = "reserving" /\ UNCHANGED <<ended, answer, slots, queue, stop, aborted, workVars, histories>>
  BY DEF ReserveFails
<1> QED BY <1>1, <1>2, ReturnsTyped, PcQuiet

\* Publish and Flush return with their answer, or because their context ended.
LEMMA AnsweredKeeps == ASSUME Inv, NEW c \in Callers, Answered(c) PROVE Inv'
<1>1. PICK e \in {answer[c], Cancelled} : Returns(c, e)
  BY DEF Answered
<1>2. pc[c] = "waiting" /\ UNCHANGED <<ended, answer, slots, queue, stop, aborted, workVars, histories>>
  BY DEF Answered
<1>3. e \in {None, Failed, Cancelled, Closed, Flushed} \/ c # Closing
  BY <1>1 DEF Inv, WorkInv, WorkTyped, Barriers
<1> QED BY <1>1, <1>2, <1>3, ReturnsTyped, PcQuiet

\* A context ends; nothing else changes.
LEMMA EndContextKeeps == ASSUME Inv, NEW c \in Cancellable, EndContext(c) PROVE Inv'
<1>1. /\ UNCHANGED <<pc, closeErr, answer, slots, queue, stop, aborted, workVars, histories>>
      /\ ended' = ended \cup {c}
  BY DEF EndContext
<1>2. CallTyped'
  BY <1>1, BatcherTyped DEF Inv, CallerInv, CallTyped, histories
<1>3. Reserved' = Reserved
  BY <1>1 DEF Reserved
<1>4. slots' <= QueueDepth /\ slots' - Cardinality(Reserved') = slots - Cardinality(Reserved)
  BY <1>1, <1>3 DEF Inv, CallerInv, SlotBound
<1> QED BY <1>1, <1>2, <1>4, CallerQuiet DEF histories

\* Close starts its Flush once, with the first closer's context.
LEMMA CallCloseKeeps == ASSUME Inv, NEW k \in Closers, CallClose(k) PROVE Inv'
<1>1. /\ UNCHANGED <<ended, closeErr, answer, slots, queue, stop, aborted, workVars, covers>>
      /\ pc' = [pc EXCEPT ![k] = "waiting",
                          ![Closing] = IF pc[Closing] = "idle" THEN "reserving" ELSE pc[Closing]]
      /\ first' \in {k, first}
  BY DEF CallClose
<1>2. k \notin Callers /\ Closing \in Callers /\ k # Closing
  BY BatcherTyped DEF Callers
<1>3. /\ pc'[Closing] = IF pc[Closing] = "idle" THEN "reserving" ELSE pc[Closing]
      /\ \A d \in Callers : d # Closing => pc'[d] = pc[d]
  BY <1>1, <1>2 DEF Inv, CallerInv, CallTyped
<1>4. CallTyped'
  BY <1>1, <1>2 DEF Inv, CallerInv, CallTyped
<1>5. Reserved' = Reserved
  BY <1>3 DEF Reserved
<1>6. slots' <= QueueDepth /\ slots' - Cardinality(Reserved') = slots - Cardinality(Reserved)
  BY <1>1, <1>5 DEF Inv, CallerInv, SlotBound
<1>7. /\ \A d \in Callers : pc'[d] \in {"idle", "reserving", "reserved"} => pc[d] \in {"idle", "reserving", "reserved"}
      /\ \A d \in Callers : pc'[d] = "waiting" => pc[d] = "waiting"
  BY <1>3
<1> QED BY <1>1, <1>4, <1>6, <1>7, CallerQuiet

\* Close returns when the worker has ended, or cancels it because its own context ended.
LEMMA CloseReturnsKeeps == ASSUME Inv, NEW k \in Closers, CloseReturns(k) PROVE Inv'
<1>0. k \notin Callers /\ k # Closing
  BY BatcherTyped DEF Callers
<1>1. /\ UNCHANGED <<ended, closeErr, answer, slots, queue, stop, workVars, histories>>
      /\ pc' = [pc EXCEPT ![k] = "returned"] /\ aborted' \in BOOLEAN
  BY <1>0 DEF CloseReturns, Returns, Inv, CallerInv, CallTyped
<1>3. \A d \in Callers : pc'[d] = pc[d]
  BY <1>0, <1>1 DEF Inv, CallerInv, CallTyped
<1>4. CallTyped'
  BY <1>1 DEF Inv, CallerInv, CallTyped, histories
<1>5. Reserved' = Reserved
  BY <1>3 DEF Reserved
<1>6. slots' <= QueueDepth /\ slots' - Cardinality(Reserved') = slots - Cardinality(Reserved)
  BY <1>1, <1>5 DEF Inv, CallerInv, SlotBound
<1> QED BY <1>1, <1>3, <1>4, <1>6, CallerQuiet DEF histories

\* close(stop) changes nothing but stop.
LEMMA CloseStopKeeps == ASSUME Inv, CloseStop PROVE Inv'
<1>1. UNCHANGED <<callVars, answer, slots, queue, aborted, workVars, histories>> /\ stop' = TRUE
  BY DEF CloseStop
<1>2. CallTyped'
  BY <1>1 DEF Inv, CallerInv, CallTyped, histories, callVars
<1>3. Reserved' = Reserved
  BY <1>1 DEF Reserved, callVars
<1>4. slots' <= QueueDepth /\ slots' - Cardinality(Reserved') = slots - Cardinality(Reserved)
  BY <1>1, <1>3 DEF Inv, CallerInv, SlotBound
<1> QED BY <1>1, <1>2, <1>4, CallerQuiet DEF histories, callVars

\* enqueueReserved: a refused caller gives its slot back.
LEMMA RefusedKeeps ==
  ASSUME Inv, NEW c \in Callers, pc[c] = "reserved", Returns(c, Closed), slots' = slots - 1,
         UNCHANGED <<ended, answer, queue, stop, aborted, workVars, histories>>
  PROVE  Inv'
<1>1. CallTyped'
  BY ReturnsTyped DEF Inv, CallerInv, CallTyped, histories
<1>2. pc'[c] = "returned" /\ \A d \in Callers : d # c => pc'[d] = pc[d]
  BY DEF Inv, CallerInv, CallTyped, Returns
<1>3. Cardinality(Reserved') = Cardinality(Reserved) - 1 /\ Cardinality(Reserved) \in Nat
  BY <1>2, ReservedChange, ReservedCounted DEF Inv, CallerInv
<1>4. /\ UNCHANGED <<queue, answer, covers, workVars>> /\ (stop => stop')
      /\ \A d \in Callers : pc'[d] \in {"idle", "reserving", "reserved"} => pc[d] \in {"idle", "reserving", "reserved"}
      /\ \A d \in Callers : pc'[d] = "waiting" => pc[d] = "waiting"
      /\ slots' <= QueueDepth /\ slots' - Cardinality(Reserved') = slots - Cardinality(Reserved)
  BY <1>2, <1>3, BatcherTyped DEF histories, Inv, CallerInv, CallTyped, SlotBound
<1> QED BY <1>1, <1>4, CallerQuiet

\* A submitted command joins the end of the queue; a Flush covers what was submitted before it.
LEMMA SubmitKeeps ==
  ASSUME Inv, NEW c \in Callers, pc[c] = "reserved", ~stop, Submit(c),
         UNCHANGED <<ended, answer, stop, aborted, workVars>>
  PROVE  Inv'
<1> USE DEF Inv, CallerInv, WorkInv
<1>1. /\ queue' = Append(queue, c) /\ pc' = [pc EXCEPT ![c] = "waiting"] /\ UNCHANGED <<slots, closeErr, first>>
      /\ covers' = [covers EXCEPT ![c] = IF c \in Publishers THEN {} ELSE Submitted]
  BY DEF Submit
<1>2. UNCHANGED <<done, pending, timer, calling, then, sent, answer>>
  BY DEF workVars
<1>3. ~Known(c)
  BY DEF Unsubmitted
<1>4. /\ queue' \in Seq(Callers) /\ Queued' = Queued \cup {c} /\ Distinct(queue') /\ Len(queue') = Len(queue) + 1
      /\ queue'[Len(queue) + 1] = c /\ (\A i \in 1..Len(queue) : queue'[i] = queue[i]) /\ Len(queue) \in Nat
  <2>1. queue \in Seq(Callers) /\ Distinct(queue) /\ c \notin ToSet(queue)
    BY <1>3 DEF WorkTyped, Apart, Known, Queued
  <2> QED BY <1>1, <2>1, AppendMembers DEF Queued
<1>5. Batch' = Batch /\ Out' = Out /\ Held' = Held
  BY <1>2 DEF Batch, Out, Held
<1>6. \A d \in Callers : Known(d)' <=> Known(d) \/ d = c
  BY <1>2, <1>4, <1>5 DEF Known
<1>7. pc'[c] = "waiting" /\ \A d \in Callers : d # c => pc'[d] = pc[d]
  BY <1>1 DEF CallTyped
<1>8. CallerInv'
  <2>1. CallTyped'
    BY <1>1 DEF CallTyped
  <2>2. Unsubmitted' /\ Located'
    BY <1>6, <1>7 DEF Unsubmitted, Located
  <2>3. Cardinality(Reserved') = Cardinality(Reserved) - 1 /\ Cardinality(Reserved) \in Nat
    BY <1>7, ReservedChange, ReservedCounted
  <2>4. slots = Len(queue) + Cardinality(Reserved)
    BY DEF SlotLedger, Reserved
  <2>5. slots' = Len(queue') + Cardinality(Reserved')
    BY <1>1, <1>4, <2>3, <2>4
  <2> QED BY <1>1, <2>1, <2>2, <2>5 DEF SlotLedger, SlotBound, Reserved
<1>9. /\ covers' \in [Callers -> SUBSET Publishers] /\ \A d \in Callers : d # c => covers'[d] = covers[d]
      /\ covers'[c] \subseteq {p \in Publishers : Known(p)}
  <2>1. Submitted \subseteq {p \in Publishers : Known(p)}
    BY ThenFacts DEF Submitted, Known, Queued, Batch, Held, WorkTyped
  <2>2. (IF c \in Publishers THEN {} ELSE Submitted) \in SUBSET {p \in Publishers : Known(p)}
    BY <2>1
  <2>3. PICK v \in SUBSET {p \in Publishers : Known(p)} : covers' = [covers EXCEPT ![c] = v]
    BY <1>1, <2>2
  <2>4. covers \in [Callers -> SUBSET Publishers]
    BY DEF WorkTyped
  <2> QED BY ONLY <2>3, <2>4, c \in Callers
<1>10. WorkTyped'
  BY <1>2, <1>4, <1>9 DEF WorkTyped, ThenTyped
<1>11. Apart' /\ Open' /\ Request' /\ Compatible'
  BY <1>2, <1>3, <1>4, <1>5 DEF Apart, Open, Request, Compatible, Known, Distinct
<1>12. Ending' /\ SentAnswered'
  BY <1>2 DEF Ending, SentAnswered
<1>13. FlushCovers'
  <2>1. answer[c] = None
    BY <1>3 DEF Known
  <2> QED BY <1>2, <1>9, <2>1, BatcherTyped DEF FlushCovers, Callers
<1>14. Ahead'
  <2>1. then[1] # "drain"
    BY DEF Ending
  <2>2. QueueAhead
    BY <2>1 DEF Ahead
  <2>3. \A p : Settled(p)' <=> Settled(p)
    BY <1>2, <1>5 DEF Settled
  <2>4. ASSUME NEW j \in 1..Len(queue'), NEW p \in covers'[queue'[j]]
        PROVE  Settled(p) \/ \E i \in 1..Len(queue') : i < j /\ queue'[i] = p
    <3>1. CASE j = Len(queue) + 1
      <4>1. p \in Queued \/ Settled(p)
        BY <1>4, <1>9, <2>4, <3>1 DEF Known, Settled
      <4>2. CASE p \in Queued
        <5>1. PICK i \in 1..Len(queue) : queue[i] = p
          BY <4>2, Members DEF Queued, WorkTyped
        <5>2. i \in 1..Len(queue') /\ i < j /\ queue'[i] = p
          BY <1>4, <3>1, <5>1
        <5> QED BY <5>2
      <4> QED BY <4>1, <4>2
    <3>2. CASE j # Len(queue) + 1
      <4>1. j \in 1..Len(queue) /\ queue'[j] = queue[j]
        BY <1>4, <3>2
      <4>2. queue[j] \in Callers /\ queue[j] \in Queued
        BY <4>1, Members DEF WorkTyped, Queued
      <4>3. queue[j] # c
        BY <1>3, <4>2 DEF Known
      <4>4. p \in covers[queue[j]]
        BY <1>9, <2>4, <4>1, <4>2, <4>3
      <4>5. Settled(p) \/ \E i \in 1..Len(queue) : i < j /\ queue[i] = p
        BY <2>2, <4>1, <4>4 DEF QueueAhead
      <4> QED BY <1>4, <4>1, <4>5
    <3> QED BY <3>1, <3>2
  <2>5. QueueAhead'
    BY <2>3, <2>4 DEF QueueAhead
  <2>6. then[1] \in {"barrier", "failed"} => then[2] # c /\ then[2] \in Callers
    <3>1. then[1] \in {"barrier", "failed"} => then[2] \in Held /\ Held \subseteq Callers
      BY ThenFacts DEF WorkTyped, Held
    <3> QED BY <1>3, <3>1 DEF Known
  <2> QED BY <1>2, <1>5, <1>9, <2>1, <2>5, <2>6 DEF Ahead
<1> QED BY <1>8, <1>10, <1>11, <1>12, <1>13, <1>14

\* enqueueReserved refuses the caller or submits its command.
LEMMA EnqueueKeeps == ASSUME Inv, NEW c \in Callers, Enqueue(c) PROVE Inv'
<1>1. pc[c] = "reserved" /\ UNCHANGED <<ended, answer, stop, aborted, workVars>>
  BY DEF Enqueue
<1>2. CASE stop
  BY <1>1, <1>2, RefusedKeeps DEF Enqueue
<1>3. CASE ~stop
  BY <1>1, <1>3, SubmitKeeps DEF Enqueue
<1> QED BY <1>2, <1>3

\* Whatever a caller or a closer does keeps the invariant.
LEMMA CallerKeeps == ASSUME Inv, NEW c \in Callers, Caller(c) PROVE Inv'
BY CallKeeps, ReserveKeeps, ReserveFailsKeeps, EnqueueKeeps, AnsweredKeeps DEF Caller

-----------------------------------------------------------------------------
(* The worker's steps.                                                      *)

\* A step of the worker: callers stay where they are, no command is lost or made up, and a command
\* that leaves the queue gives one slot back.
Works ==
  /\ UNCHANGED <<callVars, stop, first>> /\ aborted' \in BOOLEAN
  /\ \A c \in Callers : Known(c)' <=> Known(c)
  /\ \/ UNCHANGED <<queue, slots>>
     \/ queue # <<>> /\ queue' = Tail(queue) /\ slots' = slots - 1

\* A step of the worker keeps the callers' part of the invariant.
LEMMA CallerWorks ==
  ASSUME Inv, Works PROVE CallerInv'
<1> USE DEF Inv, CallerInv, Works
<1>1. pc' = pc /\ Reserved' = Reserved
  BY DEF callVars, Reserved
<1>2. Unsubmitted' /\ Located'
  BY <1>1 DEF Unsubmitted, Located
<1>3. CallTyped'
  BY DEF CallTyped, callVars
<1>4. slots' = Len(queue') + Cardinality(Reserved') /\ slots' <= QueueDepth
  <2>1. Cardinality(Reserved) \in Nat /\ slots \in Int /\ slots = Len(queue) + Cardinality(Reserved) /\ slots <= QueueDepth
    BY ReservedCounted DEF CallTyped, SlotLedger, Reserved, SlotBound
  <2>2. CASE UNCHANGED <<queue, slots>>
    BY <1>1, <2>1, <2>2
  <2>3. CASE queue # <<>> /\ queue' = Tail(queue) /\ slots' = slots - 1
    <3>1. Len(queue') = Len(queue) - 1 /\ Len(queue) \in Nat
      BY <2>3 DEF WorkInv, WorkTyped
    <3>2. slots' = slots - 1 /\ QueueDepth \in Nat /\ Cardinality(Reserved') = Cardinality(Reserved)
      BY <1>1, <2>3, BatcherTyped
    <3> QED BY ONLY <2>1, <3>1, <3>2
  <2> QED BY <2>2, <2>3
<1> QED BY <1>2, <1>3, <1>4 DEF SlotLedger, SlotBound, Reserved

\* flush, its first half: the members whose context ended are answered, the others are what the
\* request is for, and a batch with nobody left is reset.
LEMMA StartFlushFacts ==
  ASSUME WorkInv, calling = <<>>, NEW what, StartFlush(what)
  PROVE  /\ calling' \in Seq(Publishers) /\ Out' = Batch \ ended /\ Len(calling') <= Len(pending)
         /\ (calling' = <<>> => pending' = <<>> /\ Batch \subseteq ended) /\ (calling' # <<>> => pending' = pending)
         /\ (calling' = <<>> <=> Out' = {}) /\ then' = what
         /\ pending' \in Seq(Publishers) /\ Distinct(pending') /\ Batch' = (IF calling' = <<>> THEN {} ELSE Batch)
         /\ timer' \in BOOLEAN /\ (\A p \in Batch : answer[p] = None)
         /\ answer' = [c \in Callers |-> IF c \in Batch /\ c \in ended THEN Cancelled ELSE answer[c]]
<1> USE DEF WorkInv
<1>1. /\ calling' = Kept(pending, Publishers \ ended) /\ then' = what
      /\ answer' = [c \in Callers |-> IF c \in Batch /\ c \in ended THEN Cancelled ELSE answer[c]]
      /\ IF calling' = <<>> THEN pending' = <<>> /\ timer' = FALSE ELSE UNCHANGED <<pending, timer>>
  BY DEF StartFlush, Active, Batch
<1>2. pending \in Seq(Publishers) /\ Batch \subseteq Publishers
  BY Members DEF WorkTyped, Batch
<1>3. calling' \in Seq(Publishers) /\ Out' = Batch \cap (Publishers \ ended) /\ Len(calling') <= Len(pending)
  BY <1>1, <1>2, KeptMembers DEF Out, Batch
<1>4. calling' = <<>> <=> Out' = {}
  <2>1. calling' = <<>> => Out' = {}
    BY DEF Out, ToSet
  <2>2. ASSUME calling' # <<>> PROVE Out' # {}
    <3>1. Len(calling') \in Nat \ {0}
      BY <1>3, <2>2
    <3>2. calling'[1] \in Out'
      BY <1>3, <3>1, Members DEF Out
    <3> QED BY <3>2
  <2> QED BY <2>1, <2>2
<1>5. pending' \in Seq(Publishers) /\ Distinct(pending') /\ timer' \in BOOLEAN
  <2>1. CASE calling' = <<>>
    <3>1. pending' = <<>> /\ timer' = FALSE
      BY <1>1, <2>1
    <3>2. pending' \in Seq(Publishers) /\ Len(pending') = 0
      BY <3>1
    <3>3. timer' \in BOOLEAN
      BY <3>1
    <3>4. Distinct(pending')
      BY ONLY <3>2 DEF Distinct
    <3> QED BY <3>2, <3>3, <3>4
  <2>2. CASE calling' # <<>>
    <3>1. pending' = pending /\ timer' = timer
      BY <1>1, <2>2
    <3>2. Distinct(pending) /\ timer \in BOOLEAN
      BY DEF WorkTyped, Apart
    <3> QED BY ONLY <1>2, <3>1, <3>2 DEF Distinct
  <2> QED BY <2>1, <2>2
<1>6. Batch' = IF calling' = <<>> THEN {} ELSE Batch
  BY <1>1 DEF Batch, ToSet
<1>7. \A p \in Batch : answer[p] = None
  BY DEF Open
<1> QED BY <1>1, <1>2, <1>3, <1>4, <1>5, <1>6, <1>7

\* A flush begins, with a command taken from the queue or with none.
LEMMA StartFlushKeeps ==
  ASSUME WorkInv, calling = <<>>, then[1] \in {"select", "full"}, ~done, NEW what, StartFlush(what), ThenTyped',
         UNCHANGED <<done, sent, covers, stop>>,
         then'[1] \in {"select", "drain", "barrier", "append"}, then'[1] = "drain" => stop,
         queue' \in Seq(Callers), Distinct(queue'), Queued = Queued' \cup Held', Queued' \cap Held' = {}
  PROVE  /\ WorkTyped' /\ Apart' /\ Open' /\ Request' /\ Compatible' /\ Ending' /\ SentAnswered' /\ FlushCovers'
         /\ Settles /\ \A c \in Callers : Known(c)' <=> Known(c)
<1> USE DEF WorkInv
<1>1. /\ calling' \in Seq(Publishers) /\ Out' = Batch \ ended /\ Len(calling') <= Len(pending)
      /\ (calling' = <<>> => pending' = <<>> /\ Batch \subseteq ended) /\ (calling' # <<>> => pending' = pending)
      /\ (calling' = <<>> <=> Out' = {}) /\ then' = what
      /\ pending' \in Seq(Publishers) /\ Distinct(pending') /\ Batch' = (IF calling' = <<>> THEN {} ELSE Batch)
      /\ timer' \in BOOLEAN /\ (\A p \in Batch : answer[p] = None)
      /\ answer' = [c \in Callers |-> IF c \in Batch /\ c \in ended THEN Cancelled ELSE answer[c]]
  BY StartFlushFacts
<1>2. /\ Held = {} /\ Batch \subseteq Publishers /\ Publishers \subseteq Callers /\ Barriers \cap Publishers = {}
      /\ Queued \subseteq Callers /\ Queued' \subseteq Callers /\ Held' \subseteq Callers
  <2>1. Held = {} /\ Publishers \subseteq Callers /\ Barriers \cap Publishers = {}
    BY ThenFacts, BatcherTyped DEF WorkTyped, Callers, Barriers
  <2>2. Batch \subseteq Publishers /\ Queued \subseteq Callers
    BY Members DEF WorkTyped, Batch, Queued
  <2> QED BY <2>1, <2>2
<1>3. /\ \A c \in Callers : answer'[c] = IF c \in Batch /\ c \in ended THEN Cancelled ELSE answer[c]
      /\ answer \in [Callers -> Publishers \cup {None, Failed, Cancelled, Closed, Flushed}]
      /\ Cancelled # None /\ Cancelled # Closed
  BY <1>1, BatcherTyped DEF WorkTyped
<1>4. WorkTyped'
  <2>1. answer' \in [Callers -> Publishers \cup {None, Failed, Cancelled, Closed, Flushed}]
    BY <1>1, <1>3
  <2>2. \A c \in Barriers : answer'[c] \in {None, Failed, Closed, Flushed}
    <3>1. ASSUME NEW c \in Barriers PROVE answer'[c] = answer[c]
      <4>1. c \in Callers /\ c \notin Batch
        BY <1>2 DEF Barriers, Callers
      <4> QED BY <1>3, <4>1
    <3> QED BY <3>1 DEF WorkTyped
  <2>3. done' \in BOOLEAN /\ sent' \in SUBSET Publishers /\ covers' \in [Callers -> SUBSET Publishers]
    BY DEF WorkTyped
  <2> QED BY <1>1, <2>1, <2>2, <2>3 DEF WorkTyped
<1>5. Apart'
  BY <1>1, <1>2 DEF Apart
<1>6. Open'
  <2>1. ASSUME NEW c \in Queued' \cup Held' PROVE answer'[c] = None
    <3>1. c \in Queued /\ c \in Callers /\ c \notin Batch
      BY <1>2, <2>1 DEF Apart
    <3> QED BY <1>3, <3>1 DEF Open
  <2>2. ASSUME NEW p \in Batch', answer'[p] # None PROVE calling' # <<>> /\ p \notin Out'
    BY <1>1, <1>2, <1>3, <2>2
  <2> QED BY <2>1, <2>2 DEF Open
<1>7. Request'
  <2>1. Out' \subseteq Batch' /\ Len(calling') <= Len(pending')
    BY <1>1
  <2>2. \A p \in Out' : answer'[p] = None
    BY <1>1, <1>2, <1>3
  <2>3. calling' # <<>> => \A p \in Batch' : p \notin Out' => answer'[p] # None
    BY <1>1, <1>2, <1>3
  <2> QED BY <2>1, <2>2, <2>3 DEF Request
<1>8. Compatible'
  BY <1>1, BatcherTyped DEF Compatible
<1>9. Ending' /\ SentAnswered'
  <2>1. \A c \in Callers : answer[c] # Closed
    BY DEF Ending
  <2>2. \A p \in sent : answer[p] # None /\ p \in Callers
    BY <1>2 DEF SentAnswered, WorkTyped
  <2> QED BY <1>3, <2>1, <2>2 DEF Ending, SentAnswered
<1>10. Firm
  BY <1>1, <1>2, <1>3 DEF Firm
<1>11. FlushCovers'
  BY <1>10, CoversFirm
<1>12. Settles
  BY <1>1, <1>2, <1>3 DEF Settles, Settled
<1>13. \A c \in Callers : Known(c)' <=> Known(c)
  BY <1>1, <1>2, <1>3 DEF Known
<1> QED BY <1>4, <1>5, <1>6, <1>7, <1>8, <1>9, <1>11, <1>12, <1>13

\* SelectStop, SelectTimer and FlushFull flush and take nothing from the queue.
LEMMA FlushOnlyKeeps ==
  ASSUME Inv, calling = <<>>, then[1] \in {"select", "full"}, ~done, NEW what, StartFlush(what),
         what = <<"select">> \/ (what = <<"drain">> /\ stop),
         UNCHANGED <<callVars, slots, queue, stop, aborted, done, sent, histories>>
  PROVE  WorkInv' /\ Works
<1> USE DEF Inv, WorkInv
<1>1. then' = what /\ ThenTyped' /\ then'[1] \in {"select", "drain"} /\ (then'[1] = "drain" => stop)
  BY StartFlushFacts DEF ThenTyped
<1>2. Held' = {} /\ Queued' = Queued
  BY <1>1 DEF Held, Queued
<1>3. queue' \in Seq(Callers) /\ Distinct(queue')
  BY DEF WorkTyped, Apart, Distinct
<1>4. /\ WorkTyped' /\ Apart' /\ Open' /\ Request' /\ Compatible' /\ Ending' /\ SentAnswered' /\ FlushCovers'
      /\ Settles /\ \A c \in Callers : Known(c)' <=> Known(c)
  <2>1. then'[1] \in {"select", "drain", "barrier", "append"} /\ Queued = Queued' \cup Held' /\ Queued' \cap Held' = {}
    BY <1>1, <1>2
  <2>2. UNCHANGED <<done, sent, covers, stop>>
    BY DEF histories
  <2>3. WorkInv
    OBVIOUS
  <2> HIDE DEF Inv, WorkInv
  <2> QED BY <1>1, <1>3, <2>1, <2>2, <2>3, StartFlushKeeps
<1>5. Ahead'
  <2>1. then[1] # "drain" /\ QueueAhead
    BY DEF Ahead
  <2>2. QueueAhead'
    BY <1>4, <2>1, QueueAheadSame DEF histories
  <2> QED BY <1>1, <2>2 DEF Ahead
<1>6. Works
  BY <1>4 DEF Works, histories, CallerInv, CallTyped
<1> QED BY <1>4, <1>5, <1>6

\* The head of the queue, taken.
LEMMA ReceiveFacts ==
  ASSUME Inv, Receive
  PROVE  \E h \in Callers :
           /\ h = Head(queue) /\ queue # <<>> /\ queue' = Tail(queue) /\ slots' = slots - 1
           /\ queue' \in Seq(Callers) /\ Distinct(queue') /\ h \in Queued /\ Queued' = Queued \ {h}
           /\ answer[h] = None /\ h \notin Batch
<1> USE DEF Inv, WorkInv
<1>1. queue # <<>> /\ queue' = Tail(queue) /\ slots' = slots - 1 /\ queue \in Seq(Callers) /\ Distinct(queue)
  BY DEF Receive, WorkTyped, Apart
<1>2. /\ Head(queue) \in Callers /\ queue' \in Seq(Callers) /\ Distinct(queue')
      /\ Head(queue) \in Queued /\ Queued' = Queued \ {Head(queue)}
  BY <1>1, TailMembers DEF Queued
<1> QED BY <1>1, <1>2 DEF Open, Apart

\* SelectBarrier and SelectPublish flush with the command in hand.
LEMMA FlushTakenKeeps ==
  ASSUME Inv, calling = <<>>, then[1] = "select", ~done, Receive, NEW k \in {"barrier", "append"},
         NEW h, h = Head(queue), StartFlush(<<k, h>>), IF k = "append" THEN h \in Publishers ELSE h \in Barriers,
         UNCHANGED <<callVars, stop, aborted, done, sent, histories>>
  PROVE  WorkInv' /\ Works
<1> USE DEF Inv, WorkInv
<1>1. then' = <<k, h>> /\ ThenTyped' /\ then'[1] = k /\ then'[2] = h
  BY StartFlushFacts DEF ThenTyped
<1>2. /\ queue # <<>> /\ queue' = Tail(queue) /\ slots' = slots - 1 /\ h \in Callers
      /\ queue' \in Seq(Callers) /\ Distinct(queue') /\ h \in Queued /\ Queued' = Queued \ {h}
      /\ answer[h] = None /\ h \notin Batch
  BY ReceiveFacts
<1>3. Held' = {h}
  BY <1>1 DEF Held
<1>4. /\ WorkTyped' /\ Apart' /\ Open' /\ Request' /\ Compatible' /\ Ending' /\ SentAnswered' /\ FlushCovers'
      /\ Settles /\ \A c \in Callers : Known(c)' <=> Known(c)
  <2>1. /\ then'[1] \in {"select", "drain", "barrier", "append"} /\ then'[1] # "drain"
        /\ Queued = Queued' \cup Held' /\ Queued' \cap Held' = {}
    BY <1>1, <1>2, <1>3
  <2>2. UNCHANGED <<done, sent, covers, stop>>
    BY DEF histories
  <2>3. WorkInv
    OBVIOUS
  <2> HIDE DEF Inv, WorkInv
  <2> QED BY <1>1, <1>2, <2>1, <2>2, <2>3, StartFlushKeeps
<1>5. Ahead'
  <2>1. QueueAhead
    BY DEF Ahead
  <2>2. Settled(h)'
    BY <1>3 DEF Settled
  <2>3. QueueAhead'
    BY <1>2, <1>4, <2>1, <2>2, QueueAheadTail DEF histories
  <2>4. ASSUME k = "barrier", NEW p \in covers[h] PROVE p \in Batch' \/ answer'[p] # None
    <3>1. h = queue[1] /\ 1 \in 1..Len(queue) /\ Len(queue) \in Nat
      BY <1>2 DEF WorkTyped
    <3>2. Settled(p)
      BY <2>1, <2>4, <3>1 DEF QueueAhead
    <3>3. p \in Publishers
      BY <1>2, <2>4 DEF WorkTyped
    <3>4. Settled(p)'
      BY <1>4, <3>2, <3>3 DEF Settles
    <3>5. p # h
      BY <2>4, <3>3, BatcherTyped DEF Barriers
    <3> QED BY <1>3, <3>4, <3>5 DEF Settled
  <2> QED BY <1>1, <2>3, <2>4 DEF Ahead, histories
<1>6. Works
  BY <1>2, <1>4 DEF Works, histories, CallerInv, CallTyped
<1> QED BY <1>4, <1>5, <1>6

\* run takes a command that needs no flush first, or a member joins the batch.
LEMMA SelectPublishKeeps == ASSUME Inv, SelectPublish PROVE WorkInv' /\ Works
<1> USE DEF Inv, WorkInv
<1>0. PICK h : h = Head(queue)
  OBVIOUS
<1>1. /\ then = <<"select">> /\ then[1] = "select" /\ calling = <<>> /\ ~done /\ Receive /\ h \in Publishers
      /\ UNCHANGED <<callVars, stop, aborted, done, sent, histories>>
  BY <1>0 DEF SelectPublish, Selecting
<1>2. /\ queue # <<>> /\ queue' = Tail(queue) /\ slots' = slots - 1 /\ h \in Callers
      /\ queue' \in Seq(Callers) /\ Distinct(queue') /\ h \in Queued /\ Queued' = Queued \ {h}
      /\ answer[h] = None /\ h \notin Batch
  BY <1>0, <1>1, ReceiveFacts
<1>3. CASE StartFlush(<<"append", h>>)
  <2>1. WorkInv' /\ Works
    <3> HIDE DEF Inv, WorkInv
    <3> QED BY <1>0, <1>1, <1>3, FlushTakenKeeps
  <2> QED BY <2>1
<1>a. UNCHANGED <<covers, done, sent, stop>>
  BY <1>1 DEF histories
<1>b. Held = {} /\ then[1] # "drain" /\ QueueAhead /\ Publishers \subseteq Callers /\ Publishers \cap Barriers = {}
  BY <1>1, BatcherTyped DEF Held, Ahead, Callers, Barriers
<1>4. CASE answer' = [answer EXCEPT ![h] = Cancelled] /\ UNCHANGED <<pending, timer, calling, then>>
  <2>1. Batch' = Batch /\ Out' = Out /\ Held' = {}
    BY <1>4, <1>b DEF Batch, Out, Held
  <2>2. /\ answer'[h] = Cancelled /\ (\A c \in Callers : c # h => answer'[c] = answer[c])
        /\ Cancelled # None /\ Cancelled # Closed
        /\ answer' \in [Callers -> Publishers \cup {None, Failed, Cancelled, Closed, Flushed}]
    BY <1>2, <1>4, BatcherTyped DEF WorkTyped
  <2>3. WorkTyped'
    BY <1>1, <1>2, <1>4, <1>a, <1>b, <2>2 DEF WorkTyped, ThenTyped, Barriers, Callers
  <2>4. Apart' /\ Open' /\ Request' /\ Compatible'
    <3>1. Batch \subseteq Callers /\ Out \subseteq Callers /\ Queued \subseteq Callers
      BY <1>b, Members DEF WorkTyped, Batch, Out, Queued
    <3>2. Apart'
      BY <1>2, <1>4, <2>1 DEF Apart, Distinct
    <3>3. Open' /\ Request'
      BY <1>1, <1>2, <1>4, <2>1, <2>2, <3>1 DEF Open, Request
    <3>4. Compatible'
      BY <1>4, <2>1 DEF Compatible
    <3> QED BY <3>2, <3>3, <3>4
  <2>5. Ending' /\ SentAnswered'
    BY <1>1, <1>2, <1>4, <1>a, <1>b, <2>2 DEF Ending, SentAnswered, WorkTyped
  <2>6. Firm
    BY <1>1, <1>2, <1>b, <2>2 DEF Firm
  <2>7. FlushCovers'
    BY <1>a, <2>6, CoversFirm
  <2>8. Settles /\ Settled(h)' /\ \A c \in Callers : Known(c)' <=> Known(c)
    BY <1>2, <1>b, <2>1, <2>2 DEF Settles, Settled, Known
  <2>9. QueueAhead'
    BY <1>0, <1>2, <1>a, <1>b, <2>8, QueueAheadTail
  <2>10. Ahead'
    BY <1>1, <1>4, <2>9 DEF Ahead
  <2>11. Works
    BY <1>1, <1>2, <2>8 DEF Works, histories, CallerInv, CallTyped
  <2> QED BY <2>3, <2>4, <2>5, <2>7, <2>10, <2>11
<1>5. CASE ~Incompatible(h) /\ then' = <<"append", h>> /\ UNCHANGED <<answer, pending, timer, calling>>
  <2>1. Batch' = Batch /\ Out' = Out /\ Held' = {h} /\ then'[1] = "append" /\ then'[2] = h
    BY <1>5 DEF Batch, Out, Held
  <2>2. WorkTyped'
    BY <1>1, <1>2, <1>5, <1>a DEF WorkTyped, ThenTyped
  <2>3. Apart' /\ Open' /\ Request'
    <3>1. Apart'
      BY <1>2, <1>5, <2>1 DEF Apart, Distinct
    <3>2. Open' /\ Request'
      BY <1>1, <1>2, <1>5, <2>1 DEF Open, Request
    <3> QED BY <3>1, <3>2
  <2>4. Compatible'
    <3>1. pending = <<>> \/ (Len(pending) < MaxMessages /\ \A q \in Batch : Class[q] = Class[h])
      <4> SUFFICES ASSUME pending # <<>> PROVE Len(pending) < MaxMessages /\ \A q \in Batch : Class[q] = Class[h]
        OBVIOUS
      <4>1. Class[pending[1]] = Class[h] /\ Len(pending) < MaxMessages
        BY <1>5, BatcherTyped DEF Incompatible, WorkTyped
      <4>2. pending[1] \in Batch
        BY Members DEF WorkTyped, Batch
      <4> QED BY <4>1, <4>2 DEF Compatible
    <3> QED BY <1>5, <2>1, <3>1 DEF Compatible
  <2>5. Ending' /\ SentAnswered'
    BY <1>1, <1>5, <1>a, <1>b, <2>1 DEF Ending, SentAnswered
  <2>6. FlushCovers'
    BY <1>5, <1>a DEF FlushCovers
  <2>7. Settles /\ Settled(h)' /\ \A c \in Callers : Known(c)' <=> Known(c)
    BY <1>2, <1>5, <1>b, <2>1 DEF Settles, Settled, Known
  <2>8. QueueAhead'
    BY <1>0, <1>2, <1>a, <1>b, <2>7, QueueAheadTail
  <2>9. Ahead'
    BY <2>1, <2>8 DEF Ahead
  <2>10. Works
    BY <1>1, <1>2, <2>7 DEF Works, histories, CallerInv, CallTyped
  <2> QED BY <2>2, <2>3, <2>4, <2>5, <2>6, <2>9, <2>10
<1> QED BY <1>0, <1>3, <1>4, <1>5 DEF SelectPublish

\* The publication in hand joins the batch.
LEMMA AppendPendingKeeps == ASSUME Inv, AppendPending PROVE WorkInv' /\ Works
<1> USE DEF Inv, WorkInv
<1>0. PICK p : p = then[2]
  OBVIOUS
<1>1. /\ calling = <<>> /\ then[1] = "append" /\ pending' = Append(pending, p) /\ p \in Publishers
      /\ (then' = <<"full">> \/ then' = <<"select">>) /\ timer' = (timer \/ pending = <<>>)
      /\ UNCHANGED <<callVars, answer, slots, queue, stop, aborted, done, calling, sent, histories>>
  BY <1>0, ThenFacts DEF AppendPending, WorkTyped
<1>2. Held = {p} /\ Held' = {} /\ then'[1] \in {"full", "select"} /\ Queued' = Queued /\ Out' = Out /\ UNCHANGED covers
  BY <1>0, <1>1 DEF Held, Queued, Out, histories
<1>3. p \in Callers /\ p \notin Batch /\ p \notin Queued /\ answer[p] = None /\ ~done
  BY <1>1, <1>2 DEF Apart, Open, Callers, Ending
<1>4. /\ pending' \in Seq(Publishers) /\ Batch' = Batch \cup {p} /\ Distinct(pending')
      /\ Len(pending') = Len(pending) + 1 /\ Len(pending) \in Nat
  <2>1. pending \in Seq(Publishers) /\ Distinct(pending) /\ p \notin ToSet(pending)
    BY <1>3 DEF WorkTyped, Apart, Batch
  <2> QED BY <1>1, <2>1, AppendMembers DEF Batch
<1>5. WorkTyped'
  <2>1. ThenTyped'
    BY <1>1 DEF ThenTyped
  <2>2. timer' \in BOOLEAN
    BY <1>1
  <2> QED BY <1>1, <1>2, <1>4, <2>1, <2>2 DEF WorkTyped
<1>6. Apart'
  BY <1>1, <1>2, <1>3, <1>4 DEF Apart, Distinct
<1>7. Open' /\ Request'
  <2>1. Out = {} /\ Len(calling) = 0
    BY <1>1 DEF Out, ToSet
  <2> QED BY <1>1, <1>2, <1>3, <1>4, <2>1 DEF Open, Request
<1>8. Compatible'
  <2>1. pending = <<>> \/ (Len(pending) < MaxMessages /\ \A q \in Batch : Class[q] = Class[p])
    BY <1>0, <1>1 DEF Compatible
  <2>2. CASE pending = <<>>
    <3>1. Batch = {} /\ Len(pending) = 0
      BY <2>2 DEF Batch, ToSet
    <3> QED BY <1>2, <1>4, <3>1, BatcherTyped DEF Compatible
  <2>3. CASE Len(pending) < MaxMessages /\ \A q \in Batch : Class[q] = Class[p]
    BY <1>2, <1>4, <2>3, BatcherTyped DEF Compatible
  <2> QED BY <2>1, <2>2, <2>3
<1>9. Ending' /\ SentAnswered' /\ FlushCovers'
  BY <1>1, <1>2, <1>3 DEF Ending, SentAnswered, FlushCovers
<1>10. Settles /\ \A c \in Callers : Known(c)' <=> Known(c)
  BY <1>1, <1>2, <1>4 DEF Settles, Settled, Known
<1>11. Ahead'
  <2>1. QueueAhead
    BY <1>1 DEF Ahead
  <2>2. QueueAhead'
    BY <1>1, <1>2, <1>10, <2>1, QueueAheadSame
  <2> QED BY <1>2, <2>2 DEF Ahead
<1>12. Works
  BY <1>1, <1>10 DEF Works, histories, CallerInv, CallTyped
<1> QED BY <1>5, <1>6, <1>7, <1>8, <1>9, <1>11, <1>12

\* What the request answers, member by member.
LEMMA FlushAnswers ==
  ASSUME WorkInv, NEW ok \in BOOLEAN, FlushDone(ok)
  PROVE  \A c \in Callers : answer'[c] = IF c \in Out THEN (IF ok THEN c ELSE Failed) ELSE answer[c]
<1> SUFFICES ASSUME NEW c \in Callers
             PROVE  answer'[c] = IF c \in Out THEN (IF ok THEN c ELSE Failed) ELSE answer[c]
  OBVIOUS
<1> DEFINE i == CHOOSE j \in 1..Len(calling) : calling[j] = c
<1>1. answer'[c] = IF c \in Out THEN (IF ok THEN calling[i] ELSE Failed) ELSE answer[c]
  <2>1. answer' = [d \in Callers |->
          IF d \in Out
          THEN (IF ok THEN calling[CHOOSE j \in 1..Len(calling) : calling[j] = d] ELSE Failed) ELSE answer[d]]
    BY Zenon DEF FlushDone, Out
  <2> QED BY <2>1, Zenon
<1>2. c \in Out => \E j \in 1..Len(calling) : calling[j] = c
  BY Members DEF Out, WorkInv, WorkTyped
<1>3. c \in Out => calling[i] = c
  BY <1>2, Zenon
<1> HIDE DEF i
<1> QED BY <1>1, <1>3

\* The request returned: every member it was for has its answer and the batch is empty.
LEMMA FlushDoneKeeps == ASSUME Inv, NEW ok \in BOOLEAN, FlushDone(ok) PROVE WorkInv' /\ Works
<1> USE DEF Inv, WorkInv
<1>1. /\ calling # <<>> /\ sent' = sent \cup Out /\ calling' = <<>> /\ pending' = <<>> /\ timer' = FALSE
      /\ then' = (IF then[1] = "barrier" /\ ~ok THEN <<"failed", then[2]>> ELSE then)
      /\ UNCHANGED <<callVars, slots, queue, stop, aborted, done, histories>>
  BY DEF FlushDone, Out
<1>2. /\ ThenTyped' /\ Held' = Held
      /\ (then'[1] = then[1] /\ then'[2] = then[2]) \/ (then[1] = "barrier" /\ then'[1] = "failed" /\ then'[2] = then[2])
  <2>1. CASE then[1] = "barrier" /\ ~ok
    <3>1. then' = <<"failed", then[2]>> /\ then[2] \in Barriers
      BY <1>1, <2>1, ThenFacts DEF WorkTyped
    <3>2. then'[1] = "failed" /\ then'[2] = then[2]
      BY <3>1
    <3> QED BY <2>1, <3>1, <3>2 DEF ThenTyped, Held
  <2>2. CASE ~(then[1] = "barrier" /\ ~ok)
    <3>1. then' = then
      BY <1>1, <2>2
    <3> QED BY <3>1 DEF ThenTyped, Held, WorkTyped
  <2> QED BY <2>1, <2>2
<1>3. Queued' = Queued /\ Batch' = {} /\ Out' = {} /\ UNCHANGED covers
  BY <1>1 DEF Queued, Batch, Out, ToSet, histories
<1>4. /\ Out \subseteq Publishers /\ Batch \subseteq Publishers /\ Publishers \subseteq Callers /\ Publishers \cap Barriers = {}
      /\ Out \subseteq Batch /\ Queued \subseteq Callers /\ Held \subseteq Callers
      /\ \A p \in Publishers : p # None /\ p # Closed
  <2>1. Out \subseteq Publishers /\ Batch \subseteq Publishers /\ Queued \subseteq Callers
    BY Members DEF WorkTyped, Out, Batch, Queued
  <2>2. Held \subseteq Callers
    BY ThenFacts DEF WorkTyped
  <2> QED BY <2>1, <2>2, BatcherTyped DEF Callers, Barriers, Request
<1>5. \A c \in Callers : answer'[c] = IF c \in Out THEN (IF ok THEN c ELSE Failed) ELSE answer[c]
  BY FlushAnswers
<1>6. /\ \A c \in Callers : c \notin Out => answer'[c] = answer[c]
      /\ \A c \in Out : answer'[c] \in Publishers \cup {Failed} /\ answer'[c] # None /\ answer'[c] # Closed
  BY <1>4, <1>5, BatcherTyped
<1>7. \A p \in Batch : answer'[p] # None /\ (then[1] # "drain" => answer'[p] # Closed)
  <2> TAKE p \in Batch
  <2>1. CASE p \in Out
    BY <1>6, <2>1
  <2>2. CASE p \notin Out
    BY <1>1, <1>4, <1>6, <2>2 DEF Request, Ending
  <2> QED BY <2>1, <2>2
<1>8. WorkTyped'
  <2>1. answer' \in [Callers -> Publishers \cup {None, Failed, Cancelled, Closed, Flushed}]
    <3>1. answer' = [c \in Callers |-> answer'[c]]
      BY DEF FlushDone
    <3>2. \A c \in Callers : answer'[c] \in Publishers \cup {None, Failed, Cancelled, Closed, Flushed}
      BY <1>6 DEF WorkTyped
    <3> QED BY <3>1, <3>2
  <2>2. \A c \in Barriers : answer'[c] \in {None, Failed, Closed, Flushed}
    BY <1>4, <1>6 DEF WorkTyped, Barriers, Callers
  <2>3. calling' \in Seq(Publishers) /\ pending' \in Seq(Publishers) /\ timer' \in BOOLEAN
    <3>1. <<>> \in Seq(Publishers) /\ FALSE \in BOOLEAN
      OBVIOUS
    <3> QED BY ONLY <1>1, <3>1, Zenon
  <2>4. sent' \in SUBSET Publishers
    BY <1>1, <1>4 DEF WorkTyped
  <2> QED BY <1>1, <1>2, <1>3, <2>1, <2>2, <2>3, <2>4 DEF WorkTyped
<1>9. Apart'
  <2>1. Distinct(queue') /\ Distinct(pending')
    BY <1>1 DEF Apart, Distinct
  <2> QED BY <1>2, <1>3, <2>1 DEF Apart
<1>10. Open'
  <2>1. \A c \in Queued \cup Held : c \notin Out /\ c \in Callers
    BY <1>4 DEF Apart
  <2> QED BY <1>2, <1>3, <1>6, <2>1 DEF Open
<1>11. Request' /\ Compatible'
  <2>1. Len(calling') = 0 /\ Len(pending') = 0
    BY <1>1
  <2> QED BY <1>1, <1>3, <2>1, BatcherTyped DEF Request, Compatible
<1>12. Ending' /\ SentAnswered'
  <2>1. Ending'
    BY <1>1, <1>2, <1>6 DEF Ending
  <2>2. SentAnswered'
    BY <1>1, <1>4, <1>6 DEF SentAnswered, WorkTyped
  <2> QED BY <2>1, <2>2
<1>13. Firm
  <2>1. \A c \in Out : answer[c] = None
    BY DEF Request
  <2> QED BY <1>4, <1>6, <2>1 DEF Firm
<1>14. FlushCovers'
  BY <1>3, <1>13, CoversFirm
<1>15. Settles /\ \A c \in Callers : Known(c)' <=> Known(c)
  <2>1. \A c \in Callers : answer'[c] # None <=> answer[c] # None \/ c \in Batch
    <3> TAKE c \in Callers
    <3>1. CASE c \in Batch
      BY <1>7, <3>1
    <3>2. CASE c \notin Batch
      BY <1>4, <1>6, <3>2
    <3> QED BY <3>1, <3>2
  <2> QED BY <1>2, <1>3, <1>4, <2>1 DEF Settles, Settled, Known
<1>16. Ahead'
  <2> SUFFICES ASSUME then[1] # "drain" PROVE Ahead'
    BY <1>2 DEF Ahead
  <2>1. QueueAhead
    BY DEF Ahead
  <2>2. QueueAhead'
    BY <1>1, <1>3, <1>15, <2>1, QueueAheadSame
  <2>3. ASSUME then[1] = "barrier", NEW p \in covers[then[2]] PROVE answer'[p] # None
    <3>1. p \in Batch \/ answer[p] # None
      BY <2>3 DEF Ahead
    <3>2. p \in Callers
      <4>1. then[2] \in Callers
        BY <2>3, ThenFacts DEF WorkTyped, Barriers, Callers
      <4> QED BY <1>4, <2>3, <4>1 DEF WorkTyped
    <3> QED BY <1>7, <1>13, <3>1, <3>2 DEF Firm
  <2>4. then[1] # "failed"
    BY <1>1 DEF Request
  <2> QED BY <1>2, <1>3, <2>2, <2>3, <2>4 DEF Ahead
<1>17. Works
  BY <1>1, <1>15 DEF Works, histories, CallerInv, CallTyped
<1> QED BY <1>8, <1>9, <1>10, <1>11, <1>12, <1>14, <1>16, <1>17

\* The barrier gets its answer: everything it covers has one.
LEMMA BarrierDoneKeeps == ASSUME Inv, BarrierDone PROVE WorkInv' /\ Works
<1> USE DEF Inv, WorkInv
<1>0. PICK b : b = then[2]
  OBVIOUS
<1>1. /\ calling = <<>> /\ then[1] \in {"barrier", "failed"} /\ then' = <<"select">> /\ then'[1] = "select"
      /\ UNCHANGED <<callVars, slots, queue, stop, aborted, done, pending, timer, calling, sent, histories>>
  BY DEF BarrierDone
<1>2. PICK r \in {Flushed, Failed} : answer' = [answer EXCEPT ![b] = r]
  BY <1>0 DEF BarrierDone
<1>3. b \in Barriers /\ b \in Callers /\ b \notin Publishers /\ Held = {b} /\ Held' = {} /\ pending = <<>>
  BY <1>0, <1>1, ThenFacts, BatcherTyped DEF WorkTyped, Barriers, Callers, Held, Compatible
<1>4. /\ Queued' = Queued /\ Batch = {} /\ Batch' = {} /\ Out = {} /\ Out' = {} /\ UNCHANGED covers
      /\ b \notin Queued /\ answer[b] = None
  BY <1>1, <1>3 DEF Queued, Batch, Out, ToSet, histories, Apart, Open
<1>5. /\ answer'[b] = r /\ (\A c \in Callers : c # b => answer'[c] = answer[c]) /\ r # None /\ r # Closed
      /\ answer' \in [Callers -> Publishers \cup {None, Failed, Cancelled, Closed, Flushed}]
  BY <1>2, <1>3, BatcherTyped DEF WorkTyped
<1>6. ~done
  BY <1>1 DEF Ending
<1>7. WorkTyped'
  <2>1. ThenTyped'
    BY <1>1 DEF ThenTyped
  <2>2. \A c \in Barriers : answer'[c] \in {None, Failed, Closed, Flushed}
    BY <1>5 DEF WorkTyped, Barriers, Callers
  <2> QED BY <1>1, <1>4, <1>5, <2>1, <2>2 DEF WorkTyped
<1>8. Apart' /\ Request' /\ Compatible'
  BY <1>1, <1>3, <1>4 DEF Apart, Request, Compatible, Distinct
<1>9. Open'
  <2>1. \A c \in Queued : c \in Callers /\ c # b
    BY <1>4, Members DEF WorkTyped, Queued
  <2> QED BY <1>3, <1>4, <1>5, <2>1 DEF Open
<1>10. Ending' /\ SentAnswered'
  <2>1. \A c \in Callers : answer[c] # Closed
    BY <1>1 DEF Ending
  <2>2. \A p \in sent : p \in Callers /\ p # b
    BY <1>3 DEF WorkTyped, Callers
  <2> QED BY <1>1, <1>5, <1>6, <2>1, <2>2 DEF Ending, SentAnswered
<1>11. ASSUME NEW p \in covers[b] PROVE p \in Callers /\ p # b /\ answer[p] \notin {None, Closed}
  <2>1. p \in Publishers
    BY <1>3, <1>11 DEF WorkTyped
  <2>2. p \in Callers /\ p # b
    BY <1>3, <2>1 DEF Callers
  <2>3. answer[p] # None
    BY <1>0, <1>1, <1>4, <1>11 DEF Ahead
  <2>4. answer[p] # Closed
    BY <1>1, <2>2 DEF Ending
  <2> QED BY <2>2, <2>3, <2>4
<1>12. FlushCovers'
  <2> SUFFICES ASSUME NEW c \in Flushers \cup {Closing}, answer'[c] \in {Flushed, Failed}, NEW p \in covers[c]
               PROVE  answer'[p] \notin {None, Closed}
    BY <1>4 DEF FlushCovers
  <2>1. CASE c = b
    BY <1>5, <1>11, <2>1
  <2>2. CASE c # b
    <3>1. c \in Callers /\ answer'[c] = answer[c]
      BY <1>5, <2>2 DEF Callers
    <3>2. answer[p] \notin {None, Closed} /\ p \in Callers /\ p # b
      <4>1. p \in Publishers
        BY <3>1 DEF WorkTyped
      <4> QED BY <1>3, <3>1, <4>1 DEF FlushCovers, Callers
    <3> QED BY <1>5, <3>2
  <2> QED BY <2>1, <2>2
<1>13. Settles /\ \A c \in Callers : Known(c)' <=> Known(c)
  BY <1>3, <1>4, <1>5 DEF Settles, Settled, Known, Callers
<1>14. Ahead'
  <2>1. QueueAhead
    BY <1>1 DEF Ahead
  <2>2. QueueAhead'
    BY <1>1, <1>4, <1>13, <2>1, QueueAheadSame
  <2> QED BY <1>1, <2>2 DEF Ahead
<1>15. Works
  BY <1>1, <1>13 DEF Works, histories, CallerInv, CallTyped
<1> QED BY <1>7, <1>8, <1>9, <1>10, <1>12, <1>14, <1>15

\* After close(stop) every command left in the queue is refused, and then the worker ends.
LEMMA DrainKeeps == ASSUME Inv, Drain PROVE WorkInv' /\ Works
<1> USE DEF Inv, WorkInv
<1>1. /\ calling = <<>> /\ then = <<"drain">> /\ then[1] = "drain" /\ ~done /\ Held = {} /\ pending = <<>> /\ stop
      /\ UNCHANGED <<callVars, stop, pending, timer, calling, then, sent, histories>>
  <2>1. calling = <<>> /\ then = <<"drain">> /\ then[1] = "drain"
    BY DEF Drain
  <2> QED BY <2>1 DEF Drain, Held, Compatible, Ending
<1>2. Batch = {} /\ Batch' = {} /\ Out = {} /\ Out' = {} /\ Held' = {} /\ UNCHANGED covers
  BY <1>1 DEF Batch, Out, Held, ToSet, histories
<1>3. CASE queue = <<>> /\ done' = TRUE /\ aborted' = TRUE /\ UNCHANGED <<queue, slots, answer>>
  <2>1. Queued' = Queued
    BY <1>3 DEF Queued
  <2>2. WorkTyped'
    BY <1>1, <1>2, <1>3 DEF WorkTyped, ThenTyped
  <2>3. Apart' /\ Open' /\ Request' /\ Compatible'
    BY <1>1, <1>2, <1>3, <2>1 DEF Apart, Open, Request, Compatible, Distinct
  <2>4. Ending' /\ SentAnswered' /\ FlushCovers' /\ Ahead'
    BY <1>1, <1>2, <1>3 DEF Ending, SentAnswered, FlushCovers, Ahead
  <2>5. Works
    BY <1>1, <1>2, <1>3, <2>1 DEF Works, Known, histories
  <2> QED BY <2>2, <2>3, <2>4, <2>5
<1>4. CASE Receive /\ answer' = [answer EXCEPT ![Head(queue)] = Closed] /\ UNCHANGED <<done, aborted>>
  <2>1. PICK h \in Callers :
          /\ h = Head(queue) /\ queue # <<>> /\ queue' = Tail(queue) /\ slots' = slots - 1
          /\ queue' \in Seq(Callers) /\ Distinct(queue') /\ h \in Queued /\ Queued' = Queued \ {h}
          /\ answer[h] = None /\ h \notin Batch
    BY <1>4, ReceiveFacts
  <2>2. /\ answer'[h] = Closed /\ (\A c \in Callers : c # h => answer'[c] = answer[c]) /\ Closed # None
        /\ answer' \in [Callers -> Publishers \cup {None, Failed, Cancelled, Closed, Flushed}]
    <3>1. answer' = [answer EXCEPT ![h] = Closed]
      BY <1>4, <2>1
    <3> QED BY <2>1, <3>1, BatcherTyped DEF WorkTyped
  <2>3. WorkTyped'
    BY <1>1, <1>2, <1>4, <2>1, <2>2 DEF WorkTyped, ThenTyped, Barriers, Callers
  <2>4. Apart' /\ Request' /\ Compatible'
    BY <1>1, <1>2, <2>1 DEF Apart, Request, Compatible, Distinct
  <2>5. Open'
    <3>1. \A c \in Queued : c \in Callers
      BY Members DEF WorkTyped, Queued
    <3> QED BY <1>2, <2>1, <2>2, <3>1 DEF Open
  <2>6. Ending' /\ SentAnswered' /\ Ahead'
    <3>1. \A p \in sent : p \in Callers
      BY DEF WorkTyped, Callers
    <3> QED BY <1>1, <1>4, <2>2, <3>1 DEF Ending, SentAnswered, Ahead
  <2>7. Firm
    BY <2>1, <2>2 DEF Firm
  <2>8. FlushCovers'
    BY <1>2, <2>7, CoversFirm
  <2>9. Works
    <3>1. ASSUME NEW c \in Callers PROVE Known(c)' <=> Known(c)
      <4>1. CASE c = h
        BY ONLY <2>1, <2>2, <4>1 DEF Known
      <4>2. CASE c # h
        BY ONLY <1>1, <1>2, <2>1, <2>2, <3>1, <4>2 DEF Known
      <4> QED BY <4>1, <4>2
    <3> QED BY <1>1, <1>4, <2>1, <3>1 DEF Works, histories, CallerInv, CallTyped
  <2> QED BY <2>3, <2>4, <2>5, <2>6, <2>8, <2>9
<1> QED BY <1>3, <1>4 DEF Drain

\* Whatever the worker does keeps its part of the invariant and loses no command.
LEMMA WorkerKeeps == ASSUME Inv, Worker PROVE WorkInv' /\ Works
<1>1. CASE SelectStop
  <2>1. then[1] = "select" /\ calling = <<>> /\ ~done /\ stop /\ StartFlush(<<"drain">>)
    BY <1>1 DEF SelectStop, Selecting
  <2> QED BY <1>1, <2>1, FlushOnlyKeeps DEF SelectStop
<1>2. CASE SelectTimer
  <2>1. then[1] = "select" /\ calling = <<>> /\ ~done /\ StartFlush(<<"select">>)
    BY <1>2 DEF SelectTimer, Selecting
  <2> QED BY <1>2, <2>1, FlushOnlyKeeps DEF SelectTimer
<1>3. CASE FlushFull
  <2>1. then[1] = "full" /\ StartFlush(<<"select">>)
    BY <1>3 DEF FlushFull
  <2>2. calling = <<>> /\ ~done
    BY <2>1 DEF Inv, WorkInv, Request, Ending
  <2> QED BY <1>3, <2>1, <2>2, FlushOnlyKeeps DEF FlushFull
<1>4. CASE SelectBarrier
  <2>1. PICK h : h = Head(queue)
    OBVIOUS
  <2>2. /\ then[1] = "select" /\ calling = <<>> /\ ~done /\ Receive /\ StartFlush(<<"barrier", h>>)
        /\ UNCHANGED <<callVars, stop, aborted, done, sent, histories>>
    BY <1>4, <2>1 DEF SelectBarrier, Selecting
  <2>3. h \in Barriers
    BY <1>4, <2>1, <2>2, ReceiveFacts DEF SelectBarrier, Callers, Barriers
  <2> QED BY <2>1, <2>2, <2>3, FlushTakenKeeps
<1> QED
  BY <1>1, <1>2, <1>3, <1>4, SelectPublishKeeps, BarrierDoneKeeps, AppendPendingKeeps, DrainKeeps, FlushDoneKeeps
  DEF Worker

-----------------------------------------------------------------------------
(* The invariant and what follows from it.                                  *)

\* NewProducerBatcher: nothing is reserved, queued, pending or answered.
LEMMA Initially == Init => Inv
<1> SUFFICES ASSUME Init PROVE Inv
  OBVIOUS
<1> USE DEF Init
<1>1. Queued = {} /\ Batch = {} /\ Out = {} /\ Held = {} /\ then[1] = "select" /\ Len(queue) = 0 /\ Len(pending) = 0
  BY DEF Queued, Batch, Out, Held, ToSet
<1>2. CallTyped /\ WorkTyped
  <2>1. CallTyped
    <3>1. pc \in [Callers \cup Closers -> {"idle", "reserving", "reserved", "waiting", "returned"}]
      OBVIOUS
    <3>2. stop \in BOOLEAN /\ aborted \in BOOLEAN
      OBVIOUS
    <3> QED BY <3>1, <3>2 DEF CallTyped
  <2>2. <<>> \in Seq(Callers) /\ <<>> \in Seq(Publishers) /\ ThenTyped
    BY DEF ThenTyped
  <2>3. WorkTyped
    BY <2>2 DEF WorkTyped, Barriers, Callers
  <2> QED BY <2>1, <2>3
<1>3. Unsubmitted /\ Located
  BY <1>1 DEF Unsubmitted, Located, Known
<1>4. SlotLedger /\ SlotBound
  <2>1. {c \in Callers : pc[c] = "reserved"} = {}
    OBVIOUS
  <2>2. Cardinality({c \in Callers : pc[c] = "reserved"}) = 0
    BY <2>1, FS_EmptySet
  <2> HIDE DEF Init
  <2>3. slots = 0
    BY DEF Init
  <2> QED BY <1>1, <2>2, <2>3, BatcherTyped DEF SlotLedger, SlotBound
<1>5. Apart /\ Open /\ Request /\ Compatible
  BY <1>1, BatcherTyped DEF Apart, Open, Request, Compatible, Distinct
<1>6. Ending /\ SentAnswered /\ FlushCovers /\ Ahead
  BY <1>1, BatcherTyped DEF Ending, SentAnswered, FlushCovers, Ahead, QueueAhead, Callers
<1> QED BY <1>2, <1>3, <1>4, <1>5, <1>6 DEF Inv, CallerInv, WorkInv

\* Every step of a caller, of a closer or of the worker keeps it.
LEMMA StepKeeps == Inv /\ [Next]_vars => Inv'
<1> SUFFICES ASSUME Inv, [Next]_vars PROVE Inv'
  OBVIOUS
<1>1. CASE Worker
  BY <1>1, WorkerKeeps, CallerWorks DEF Inv
<1>2. CASE UNCHANGED vars
  <2>1. UNCHANGED <<pc, slots, ended, closeErr, aborted, first, stop, queue, answer, covers, workVars>>
    BY <1>2 DEF vars, callVars, histories
  <2>2. CallTyped'
    BY <2>1 DEF Inv, CallerInv, CallTyped
  <2>3. Reserved' = Reserved
    BY <2>1 DEF Reserved
  <2>4. slots' <= QueueDepth /\ slots' - Cardinality(Reserved') = slots - Cardinality(Reserved)
    BY <2>1, <2>3 DEF Inv, CallerInv, SlotBound
  <2> QED BY <2>1, <2>2, <2>4, CallerQuiet
<1> QED
  BY <1>1, <1>2, CloseStopKeeps, CallerKeeps, CallCloseKeeps, CloseReturnsKeeps, EndContextKeeps DEF Next

\* So it holds in every reachable state.
LEMMA AlwaysInv == Spec => []Inv
BY Initially, StepKeeps, PTL DEF Spec

\* Every variable keeps its type, and no more slots are taken than the queue has.
THEOREM BatcherTypes == Spec => []TypeOK
<1>1. Inv => TypeOK
  <2> SUFFICES ASSUME Inv PROVE TypeOK
    OBVIOUS
  <2>1. slots \in 0..QueueDepth
    <3>1. slots = Len(queue) + Cardinality(Reserved) /\ slots <= QueueDepth
      BY DEF Inv, CallerInv, SlotLedger, SlotBound, Reserved
    <3>2. Len(queue) \in Nat /\ Cardinality(Reserved) \in Nat
      BY ReservedCounted DEF Inv, WorkInv, WorkTyped
    <3> QED BY ONLY <3>1, <3>2, BatcherTyped
  <2>2. {stop, done, aborted, timer} \subseteq BOOLEAN
    BY DEF Inv, CallerInv, CallTyped, WorkInv, WorkTyped
  <2>3. then[1] \in {"select", "drain", "barrier", "failed", "append", "full"}
    BY ThenFacts DEF Inv, WorkInv, WorkTyped
  <2> QED BY <2>1, <2>2, <2>3 DEF TypeOK, Inv, CallerInv, CallTyped, WorkInv, WorkTyped
<1> QED BY <1>1, AlwaysInv, PTL

\* reserve, enqueueReserved, run: for any queue depth and any number of callers, the slots taken are
\* those of the queued commands and of the callers about to submit, so that the send under enqueueMu
\* never blocks.
THEOREM SlotsAccounted == Spec => []SlotLedger
<1>1. Inv => SlotLedger
  BY DEF Inv, CallerInv
<1> QED BY <1>1, AlwaysInv, PTL

\* Flush, Close: whatever contexts end, batches fail or callers interleave, an answered barrier has
\* behind it an answer for every publication submitted before it, and none was refused by the close.
THEOREM FlushAlwaysCovers == Spec => []FlushCovers
<1>1. Inv => FlushCovers
  BY DEF Inv, WorkInv
<1> QED BY <1>1, AlwaysInv, PTL

\* run, Close: when the worker is gone, no caller waits for an answer that nobody will give.
THEOREM NobodyStranded == Spec => []NoneStranded
<1>1. Inv => NoneStranded
  <2> SUFFICES ASSUME Inv, done PROVE queue = <<>> /\ \A c \in Callers : pc[c] = "waiting" => answer[c] # None
    BY DEF NoneStranded
  <2>1. queue = <<>> /\ then[1] = "drain" /\ calling = <<>> /\ pending = <<>>
    BY DEF Inv, WorkInv, Ending, Compatible
  <2>2. Queued = {} /\ Batch = {} /\ Held = {}
    BY <2>1 DEF Queued, Batch, Held, ToSet
  <2> QED BY <2>1, <2>2 DEF Inv, CallerInv, Located, Known
<1> QED BY <1>1, AlwaysInv, PTL

-----------------------------------------------------------------------------
(* The batcher implements BatchPromise.                                     *)

\* The publications in the batcher's hands are those it knows.
SubmittedIs == Submitted = {p \in Publishers : Known(p)}

\* Submitted, as the refinement mapping reads it, is what the batcher knows.
LEMMA SubmittedKnown == ASSUME WorkTyped PROVE SubmittedIs
<1>1. \A p : then = <<"append", p>> <=> then[1] = "append" /\ then[2] = p
  BY ThenFacts DEF WorkTyped
<1>2. \A p \in Publishers : p \in Held <=> then[1] = "append" /\ then[2] = p
  <2>1. then[1] \in {"barrier", "failed"} => then[2] \in Barriers
    BY ThenFacts DEF WorkTyped
  <2> QED BY <2>1, BatcherTyped DEF Held, Barriers
<1>3. ASSUME NEW p \in Publishers
      PROVE  (p \in ToSet(queue) \cup ToSet(pending) \/ then = <<"append", p>> \/ answer[p] # None) <=> Known(p)
  BY <1>1, <1>2 DEF Known, Queued, Batch
<1> QED BY <1>3 DEF Submitted, SubmittedIs

\* The answers given to publications that did not leave are a Return.
LEMMA ReturnStep ==
  ASSUME Inv, SubmittedIs, SubmittedIs', sent' = sent, \A p \in Publishers : Known(p)' <=> Known(p),
         NEW S \in SUBSET Publishers, NEW a \in {Cancelled, Closed},
         \A p \in S : Known(p) /\ answer[p] = None,
         \A p \in Publishers : answer'[p] = IF p \in S THEN a ELSE answer[p]
  PROVE  Promise!Return
<1> DEFINE f == [p \in Publishers |-> answer[p]]
<1>1. Submitted = {p \in Publishers : Known(p)}
  BY DEF SubmittedIs
<1>2. Submitted' = Submitted
  BY DEF SubmittedIs
<1>3. S \in SUBSET (Promise!Waiting \ sent)
  <2>1. \A p \in S : p \in Submitted /\ answer[p] = None /\ p \notin sent
    BY <1>1 DEF Inv, WorkInv, SentAnswered
  <2> QED BY <2>1 DEF Promise!Waiting
<1>4. f' = [p \in Publishers |-> IF p \in S THEN a ELSE f[p]]
  OBVIOUS
<1> HIDE DEF f
<1>5. /\ \E Y \in SUBSET (Promise!Waiting \ sent), y \in {Cancelled, Closed} :
           f' = [p \in Publishers |-> IF p \in Y THEN y ELSE f[p]]
      /\ Submitted' = Submitted /\ sent' = sent
  BY <1>2, <1>3, <1>4
<1> QED BY <1>5 DEF Promise!Return, f

\* A step that neither submits, sends nor answers a publication.
LEMMA SilentStep ==
  ASSUME Inv, SubmittedIs, SubmittedIs', sent' = sent, \A p \in Publishers : Known(p)' <=> Known(p),
         \A p \in Publishers : answer'[p] = answer[p]
  PROVE  Promise!Return
<1>1. {} \in SUBSET Publishers /\ Cancelled \in {Cancelled, Closed} /\ \A p \in {} : Known(p) /\ answer[p] = None
  OBVIOUS
<1>2. \A p \in Publishers : answer'[p] = IF p \in {} THEN Cancelled ELSE answer[p]
  OBVIOUS
<1>3. PICK S \in SUBSET Publishers : S = {}
  BY <1>1
<1>4. PICK a \in {Cancelled, Closed} : a = Cancelled
  OBVIOUS
<1>5. (\A p \in S : Known(p) /\ answer[p] = None) /\ \A p \in Publishers : answer'[p] = IF p \in S THEN a ELSE answer[p]
  BY <1>3
<1> QED BY <1>5, ReturnStep

\* flush answers the members whose context ended before it makes the request.
LEMMA FlushReturns ==
  ASSUME Inv, SubmittedIs, SubmittedIs', calling = <<>>, NEW what, StartFlush(what), sent' = sent,
         \A p \in Publishers : Known(p)' <=> Known(p)
  PROVE  Promise!Return
<1>1. /\ \A p \in Batch : answer[p] = None
      /\ answer' = [c \in Callers |-> IF c \in Batch /\ c \in ended THEN Cancelled ELSE answer[c]]
  BY StartFlushFacts DEF Inv
<1>2. Batch \subseteq Publishers /\ Publishers \subseteq Callers
  BY Members DEF Inv, WorkInv, WorkTyped, Batch, Callers
<1>3. PICK S \in SUBSET Publishers : S = Batch \cap ended
  BY <1>2
<1>4. PICK a \in {Cancelled, Closed} : a = Cancelled
  OBVIOUS
<1>5. \A p \in S : Known(p) /\ answer[p] = None
  BY <1>1, <1>3 DEF Known
<1>6. \A p \in Publishers : answer'[p] = IF p \in S THEN a ELSE answer[p]
  BY <1>1, <1>2, <1>3, <1>4
<1> QED BY <1>5, <1>6, ReturnStep

\* A publication refused or cancelled on its own.
LEMMA OneReturns ==
  ASSUME Inv, SubmittedIs, SubmittedIs', sent' = sent, \A p \in Publishers : Known(p)' <=> Known(p),
         NEW h \in Callers, Known(h), answer[h] = None, NEW a \in {Cancelled, Closed},
         answer' = [answer EXCEPT ![h] = a]
  PROVE  Promise!Return
<1>1. PICK S \in SUBSET Publishers : S = {h} \cap Publishers
  OBVIOUS
<1>2. \A p \in Publishers : answer'[p] = IF p \in S THEN a ELSE answer[p]
  BY <1>1 DEF Inv, WorkInv, WorkTyped, Callers
<1>3. \A p \in S : Known(p) /\ answer[p] = None
  BY <1>1
<1> QED BY <1>2, <1>3, ReturnStep

\* The request itself: a batch of compatible publications, none of which was answered or sent before.
LEMMA RequestSends ==
  ASSUME Inv, SubmittedIs, SubmittedIs', NEW ok \in BOOLEAN, FlushDone(ok), \A p \in Publishers : Known(p)' <=> Known(p)
  PROVE  Promise!Send
<1> DEFINE f == [p \in Publishers |-> answer[p]]
<1>1. \A c \in Callers : answer'[c] = IF c \in Out THEN (IF ok THEN c ELSE Failed) ELSE answer[c]
  BY FlushAnswers DEF Inv
<1>2. calling # <<>> /\ sent' = sent \cup Out /\ calling \in Seq(Publishers) /\ Out \subseteq Publishers
  BY Members DEF FlushDone, Out, Inv, WorkInv, WorkTyped
<1>3. Submitted = {p \in Publishers : Known(p)}
  BY DEF SubmittedIs
<1>4. Submitted' = Submitted
  BY DEF SubmittedIs
<1>5. Out \in SUBSET (Promise!Waiting \ sent)
  <2>1. \A p \in Out : p \in Batch /\ answer[p] = None /\ p \notin sent
    BY DEF Inv, WorkInv, Request, SentAnswered
  <2>2. \A p \in Out : p \in Submitted
    BY <1>2, <1>3, <2>1 DEF Known
  <2> QED BY <1>2, <2>1, <2>2 DEF Promise!Waiting
<1>6. Out # {}
  <2>1. Len(calling) \in Nat \ {0}
    BY <1>2
  <2>2. 1 \in 1..Len(calling)
    BY ONLY <2>1
  <2>3. calling[1] \in ToSet(calling)
    BY ONLY <1>2, <2>2, Members
  <2> QED BY ONLY <2>3 DEF Out
<1>7. Cardinality(Out) <= MaxMessages
  <2>1. Cardinality(Out) <= Len(calling) /\ IsFiniteSet(Out)
    BY <1>2, MembersCounted DEF Out
  <2>2. Len(calling) <= Len(pending) /\ Len(pending) <= MaxMessages
    BY DEF Inv, WorkInv, Request, Compatible
  <2>3. Cardinality(Out) \in Nat /\ Len(calling) \in Nat /\ Len(pending) \in Nat
    BY <1>2, <2>1, FS_CardinalityType DEF Inv, WorkInv, WorkTyped
  <2> QED BY <2>1, <2>2, <2>3, BatcherTyped
<1>8. \A p, q \in Out : Class[p] = Class[q]
  BY DEF Inv, WorkInv, Request, Compatible
<1>9. \/ f' = [p \in Publishers |-> IF p \in Out THEN p ELSE f[p]]
      \/ f' = [p \in Publishers |-> IF p \in Out THEN Failed ELSE f[p]]
  <2>1. \A p \in Publishers : answer'[p] = IF p \in Out THEN (IF ok THEN p ELSE Failed) ELSE answer[p]
    BY <1>1 DEF Callers
  <2>2. CASE ok = TRUE
    BY <2>1, <2>2
  <2>3. CASE ok = FALSE
    BY <2>1, <2>3
  <2> QED BY <2>2, <2>3
<1>10. PICK S \in SUBSET (Promise!Waiting \ sent) : S = Out
  BY <1>5
<1>11. /\ S # {} /\ Cardinality(S) <= MaxMessages /\ \A p, q \in S : Class[p] = Class[q]
       /\ sent' = sent \cup S
       /\ \/ f' = [p \in Publishers |-> IF p \in S THEN p ELSE f[p]]
          \/ f' = [p \in Publishers |-> IF p \in S THEN Failed ELSE f[p]]
  BY <1>2, <1>6, <1>7, <1>8, <1>9, <1>10
<1> HIDE DEF f
<1>12. \E Y \in SUBSET (Promise!Waiting \ sent) :
         /\ Y # {} /\ Cardinality(Y) <= MaxMessages /\ \A p, q \in Y : Class[p] = Class[q]
         /\ sent' = sent \cup Y
         /\ \/ f' = [p \in Publishers |-> IF p \in Y THEN p ELSE f[p]]
            \/ f' = [p \in Publishers |-> IF p \in Y THEN Failed ELSE f[p]]
         /\ Submitted' = Submitted
  BY ONLY <1>4, <1>10, <1>11, Zenon
<1>13. \A Y : Promise!Cardinality(Y) = Cardinality(Y)
  BY Zenon DEF Promise!Cardinality, Cardinality
<1> QED BY ONLY <1>12, <1>13 DEF Promise!Send, f

\* A submission adds one publication, or a barrier that BatchPromise does not see.
LEMMA SubmitStep ==
  ASSUME Inv, SubmittedIs, SubmittedIs', NEW c \in Callers, Enqueue(c), ~stop
  PROVE  Promise!Submit \/ Promise!Return
<1>1. /\ queue' = Append(queue, c) /\ UNCHANGED <<answer, pending, then, sent>> /\ pc[c] = "reserved"
  BY DEF Enqueue, Submit, workVars
<1>2. Queued' = Queued \cup {c} /\ Batch' = Batch /\ Held' = Held
  BY <1>1, AppendMembers DEF Queued, Batch, Held, Inv, WorkInv, WorkTyped
<1>3. \A p \in Publishers : Known(p)' <=> Known(p) \/ p = c
  BY <1>1, <1>2 DEF Known
<1>4. CASE c \in Publishers
  <2>1. c \notin Submitted
    BY <1>1, <1>4 DEF SubmittedIs, Inv, CallerInv, Unsubmitted
  <2>2. Submitted' = Submitted \cup {c}
    BY <1>3, <1>4 DEF SubmittedIs
  <2>3. c \in Publishers \ Submitted
    BY <1>4, <2>1
  <2>4. UNCHANGED <<[p \in Publishers |-> answer[p]], sent>>
    BY <1>1
  <2> QED BY <2>2, <2>3, <2>4 DEF Promise!Submit
<1>5. CASE c \notin Publishers
  BY <1>1, <1>3, <1>5, SilentStep
<1> QED BY <1>4, <1>5

\* A step that leaves the queue, the worker and the answers alone is silent.
LEMMA QuietStep ==
  ASSUME Inv, SubmittedIs, SubmittedIs', UNCHANGED <<answer, queue, workVars>>
  PROVE  Promise!Return
<1>1. UNCHANGED <<answer, queue, pending, then, sent>>
  BY DEF workVars
<1>2. \A p \in Publishers : Known(p)' <=> Known(p)
  BY <1>1 DEF Known, Queued, Batch, Held
<1> QED BY <1>1, <1>2, SilentStep

\* Each step of the worker is a request, a return or silent.
LEMMA WorkerStep ==
  ASSUME Inv, SubmittedIs, SubmittedIs', Worker
  PROVE  Promise!Next
<1>0. \A p \in Publishers : Known(p)' <=> Known(p)
  BY WorkerKeeps DEF Works, Callers
<1> USE DEF Promise!Next
<1>1. ASSUME NEW what, StartFlush(what), calling = <<>>, sent' = sent PROVE Promise!Next
  BY <1>0, <1>1, FlushReturns
<1>2. CASE SelectStop
  BY <1>1, <1>2 DEF SelectStop, Selecting
<1>3. CASE SelectTimer
  BY <1>1, <1>3 DEF SelectTimer, Selecting
<1>4. CASE SelectBarrier
  <2>1. StartFlush(<<"barrier", Head(queue)>>) /\ calling = <<>> /\ sent' = sent
    BY <1>4 DEF SelectBarrier, Selecting
  <2> QED BY <1>0, <2>1, FlushReturns
<1>5. CASE FlushFull
  <2>1. StartFlush(<<"select">>) /\ sent' = sent /\ then[1] = "full"
    BY <1>5 DEF FlushFull
  <2>2. calling = <<>>
    BY <2>1 DEF Inv, WorkInv, Request
  <2> QED BY <1>1, <2>1, <2>2
<1>6. CASE SelectPublish
  <2>1. calling = <<>> /\ sent' = sent /\ Receive
    BY <1>6 DEF SelectPublish, Selecting
  <2>2. PICK h \in Callers : h = Head(queue) /\ h \in Queued /\ answer[h] = None
    BY <2>1, ReceiveFacts
  <2>3. CASE answer' = [answer EXCEPT ![h] = Cancelled]
    <3>1. PICK a \in {Cancelled, Closed} : a = Cancelled
      OBVIOUS
    <3> QED BY <1>0, <2>1, <2>2, <2>3, <3>1, OneReturns DEF Known
  <2>4. CASE StartFlush(<<"append", h>>)
    BY <1>0, <2>1, <2>4, FlushReturns
  <2>5. CASE answer' = answer
    BY <1>0, <2>1, <2>5, SilentStep
  <2> QED BY <1>6, <2>2, <2>3, <2>4, <2>5 DEF SelectPublish
<1>7. CASE BarrierDone
  <2>1. then[2] \notin Publishers /\ sent' = sent
    <3>1. then[1] \in {"barrier", "failed"} /\ sent' = sent
      BY <1>7 DEF BarrierDone
    <3> QED BY <3>1, ThenFacts, BatcherTyped DEF Inv, WorkInv, WorkTyped, Barriers
  <2>2. \A p \in Publishers : answer'[p] = answer[p]
    BY <1>7, <2>1 DEF BarrierDone, Inv, WorkInv, WorkTyped, Callers
  <2> QED BY <1>0, <2>1, <2>2, SilentStep
<1>8. CASE AppendPending
  BY <1>0, <1>8, SilentStep DEF AppendPending
<1>9. CASE Drain
  <2>1. sent' = sent
    BY <1>9 DEF Drain
  <2>2. CASE answer' = answer
    BY <1>0, <2>1, <2>2, SilentStep
  <2>3. CASE Receive /\ answer' = [answer EXCEPT ![Head(queue)] = Closed]
    <3>1. PICK h \in Callers : h = Head(queue) /\ h \in Queued /\ answer[h] = None
      BY <2>3, ReceiveFacts
    <3>2. PICK a \in {Cancelled, Closed} : a = Closed
      OBVIOUS
    <3> QED BY <1>0, <2>1, <2>3, <3>1, <3>2, OneReturns DEF Known
  <2> QED BY <1>9, <2>2, <2>3 DEF Drain
<1>10. ASSUME NEW ok \in BOOLEAN, FlushDone(ok) PROVE Promise!Next
  BY <1>0, <1>10, RequestSends
<1> QED BY <1>2, <1>3, <1>4, <1>5, <1>6, <1>7, <1>8, <1>9, <1>10 DEF Worker

\* So each step of the batcher is a step of BatchPromise, or changes nothing it speaks of.
LEMMA PromiseStep ==
  Inv /\ SubmittedIs /\ SubmittedIs' /\ [Next]_vars => [Promise!Next]_(Promise!promiseVars)
<1> SUFFICES ASSUME Inv, SubmittedIs, SubmittedIs', [Next]_vars PROVE Promise!Next
  OBVIOUS
<1>1. CASE Worker
  BY <1>1, WorkerStep
<1>2. ASSUME NEW c \in Callers, Enqueue(c) PROVE Promise!Next
  <2>1. CASE stop
    BY <1>2, <2>1, QuietStep DEF Enqueue, Promise!Next
  <2>2. CASE ~stop
    BY <1>2, <2>2, SubmitStep DEF Promise!Next
  <2> QED BY <2>1, <2>2
<1>3. ASSUME NEW c \in Callers, Call(c) \/ Reserve(c) \/ ReserveFails(c) \/ Answered(c) PROVE Promise!Next
  BY <1>3, QuietStep DEF Call, Reserve, ReserveFails, Answered, Promise!Next
<1>4. ASSUME NEW k \in Closers, CallClose(k) \/ CloseReturns(k) PROVE Promise!Next
  BY <1>4, QuietStep DEF CallClose, CloseReturns, Promise!Next
<1>5. CASE CloseStop
  BY <1>5, QuietStep DEF CloseStop, Promise!Next
<1>6. ASSUME NEW c \in Cancellable, EndContext(c) PROVE Promise!Next
  BY <1>6, QuietStep DEF EndContext, Promise!Next
<1>7. CASE UNCHANGED vars
  BY <1>7, QuietStep DEF vars, Promise!Next
<1> QED BY <1>1, <1>2, <1>3, <1>4, <1>5, <1>6, <1>7 DEF Next, Caller

\* ProducerBatcher, for every batch size, queue depth and set of callers: each publication is
\* answered once, with its own ID or its batch's error when it was sent and otherwise because its
\* context ended or the batcher closed, and a request is a bounded batch of one class.
THEOREM BatcherKeepsPromise == Spec => KeepsPromise
<1>1. Init => Promise!Init
  <2> SUFFICES ASSUME Init PROVE Promise!Init
    OBVIOUS
  <2>1. Submitted = {}
    BY DEF Init, Submitted, ToSet, Callers
  <2>2. [p \in Publishers |-> answer[p]] = [p \in Publishers |-> None] /\ sent = {}
    BY DEF Init, Callers
  <2> QED BY <2>1, <2>2 DEF Promise!Init
<1>2. Inv => SubmittedIs
  BY SubmittedKnown DEF Inv, WorkInv
<1> QED BY <1>1, <1>2, AlwaysInv, PromiseStep, PTL DEF Spec, KeepsPromise, Promise!Spec
=============================================================================
