-------------------------- MODULE ReplicationProofs --------------------------
(* Theorems about replication from the origin to a peer, for any number of  *)
(* publications of any size, every limit of memory, queue and page, and any *)
(* number of retries and restarts.                                          *)
EXTENDS Replication, FoldTheorems, SequenceTheorems, TLAPS

-----------------------------------------------------------------------------
(* Constants.                                                               *)

\* Max is the greatest member of a bounded set.
LEMMA MaxOf ==
  ASSUME NEW n \in Nat, NEW S, S \subseteq 0..n, S # {}
  PROVE  Max(S) \in S /\ (\A k \in S : k <= Max(S)) /\ Max(S) \in 0..n
<1>1. PICK m \in S : \A k \in S : k <= m
  BY HasMaximum
<1>2. \A k \in S : m >= k
  BY <1>1
<1>3. Max(S) \in S /\ \A k \in S : Max(S) >= k
  BY <1>2, Zenon DEF Max
<1> QED BY <1>3

\* A publication has a last message.
LEMMA LastOfBatch ==
  ASSUME NEW b \in Batches
  PROVE  Max(b) \in b /\ (\A k \in b : k <= Max(b)) /\ Max(b) \in Nat \ {0}
<1>1. PICK lo \in b : TRUE
  BY IntakeTyped
<1>2. b \subseteq Nat \ {0} /\ IsFiniteSet(b) /\ \A m, n \in b : m..n \subseteq b
  BY IntakeTyped
<1>3. Cardinality(b) \in Nat
  BY <1>2, FS_CardinalityType
<1>4. ASSUME NEW x \in b PROVE x \in 0..(lo + Cardinality(b))
  <2>1. lo..x \in SUBSET b /\ lo \in Int /\ x \in Int
    BY <1>2
  <2>2. Cardinality(lo..x) <= Cardinality(b)
    BY <1>2, <2>1, FS_Subset
  <2>3. Cardinality(lo..x) = IF lo > x THEN 0 ELSE x - lo + 1
    BY <2>1, FS_Interval
  <2> QED BY <1>2, <1>3, <2>1, <2>2, <2>3
<1>5. lo + Cardinality(b) \in Nat /\ b # {} /\ b \subseteq 0..(lo + Cardinality(b))
  BY <1>2, <1>3, <1>4
<1>6. Max(b) \in b /\ \A k \in b : k <= Max(b)
  BY ONLY <1>5, MaxOf
<1> QED BY <1>2, <1>6

\* Who sends requests: peerLoop, and the publications that wait for a copy.
LEMMA RequesterFacts ==
  /\ Loop \in Requesters /\ \A b \in Batches : b # Loop
  /\ \A b \in Batches : b \notin Local => b \in Requesters
  /\ \A r \in Requesters : r = Loop \/ r \in Batches
BY IntakeTyped, SenderTyped DEF Loop, Requesters

-----------------------------------------------------------------------------
(* Types.                                                                   *)

Published == 1..accepted

IntakeTypes ==
  /\ accepted \in Nat /\ through \in 0..accepted /\ cur \in 0..accepted
  /\ cache \subseteq Published /\ reorder \subseteq Published /\ recorded \subseteq Published
  /\ live \subseteq Published /\ todo \subseteq live /\ expired \subseteq Published
  /\ gapMark \subseteq Published
  /\ reorderBytes \in Int /\ op \in Ops /\ (op # "batch" => todo = {})

PubStates == {"new", "reserved", "queueing", "offering", "copying", "done"}
RpcStates == {"none", "sent", "looking", "ok", "gap", "failed"}

PublicationTypes ==
  /\ pub \in [Batches -> PubStates] /\ rpc \in [Requesters -> RpcStates]
  /\ \A b \in Batches : pub[b] \notin {"new", "reserved"} => b \subseteq Published
  /\ \A b \in Batches : pub[b] = "copying" => b \in Requesters
  /\ \A r \in Requesters : r = Loop \/ rpc[r] = "none" \/ r \subseteq Published
  /\ queue \in Seq(Batches) /\ \A i \in 1..Len(queue) : queue[i] \subseteq Published

SenderTypes ==
  /\ item \subseteq Published /\ bootPage \subseteq Published
  /\ loop = "page" => item # {}
  /\ boot = "accept" => bootPage # {}
  /\ late \subseteq BOOLEAN \X SUBSET Published
  /\ ordinal \in 0..accepted /\ bootCursor \in 0..accepted

\* A request keeps its sender waiting as long as it holds the receiver's lock.
ServerTypes ==
  /\ server \in {Nobody} \cup {<<r>> : r \in Requesters}
  /\ op = "idle" => server = Nobody
  /\ \A r \in Requesters : server = <<r>> => rpc[r] = "sent"

Typed == IntakeTypes /\ PublicationTypes /\ SenderTypes /\ ServerTypes

-----------------------------------------------------------------------------
(* What a step does to the receiving side.                                  *)

\* The receiver's part of Finish.
GivesBack ==
  /\ op \in {"accepted", "refused"} /\ op' = "idle" /\ live' = {} /\ fromGap' = FALSE
  /\ UNCHANGED <<expired, cache, frontier, buffer, gapMark, todo, cur>>

Looks == \E m \in todo : LookMissing(m) \/ LookDuplicate(m) \/ LookAhead(m) \/ LookNext(m)
Promotes == Promote \/ PromoteExpired \/ PromoteRefused
Ends == BatchDone \/ DrainDone \/ GivesBack
Arrives(L) == Replicate(L) \/ RepairRefused(L)

\* A step of the receiver that forgets nothing and takes no page.
Carries ==
  \/ \E L \in SUBSET Published : Arrives(L)
  \/ Looks \/ Promotes \/ Ends \/ Drain
  \/ \E b \in SUBSET Published : Expire(b)
  \/ ExpireMetadata

\* A step that forgets nothing.
Keeps ==
  \/ UNCHANGED intakeVars
  \/ Carries
  \/ \E L \in SUBSET Published : Repair(L) \/ Bootstrap(L)

IntakeStep == Keeps \/ Forget

\* The steps of the system that do not restart B.
Stays == Publishing \/ Looping \/ Serving \/ BootAccept \/ BootFetch \/ BootEmpty \/ TimePasses

\* The variables of the receiving side, one by one.
LEMMA IntakeSame ==
  ASSUME UNCHANGED intakeVars
  PROVE  /\ expired' = expired /\ cache' = cache /\ through' = through /\ recorded' = recorded
         /\ reorder' = reorder /\ reorderBytes' = reorderBytes /\ gapMark' = gapMark
         /\ op' = op /\ live' = live /\ todo' = todo /\ cur' = cur /\ fromGap' = fromGap
BY DEF intakeVars, frontier, buffer, request

\* The origin's own steps wait for the receiver's lock and leave the receiver alone.
LEMMA SenderQuiet ==
  ASSUME Publishing \/ Looping
  PROVE  op = "idle" /\ UNCHANGED <<intakeVars, server, bootVars>>
<1>1. ASSUME NEW b \in Batches,
             \/ Reserve(b) \/ AcceptLocal(b) \/ AcceptCopied(b) \/ AcceptRefused(b)
             \/ Enqueue(b) \/ Offer(b) \/ CopyOk(b) \/ CopyFailed(b)
      PROVE  op = "idle" /\ UNCHANGED <<intakeVars, server, bootVars>>
  BY <1>1, Zenon DEF Reserve, AcceptLocal, AcceptCopied, AcceptRefused, Enqueue, Offer, CopyOk, CopyFailed,
                     Sequenced, OthersUnchanged
<1>2. ASSUME Looping PROVE op = "idle" /\ UNCHANGED <<intakeVars, server, bootVars>>
  BY <1>2, Zenon DEF Looping, Take, PushOk, PushRetry, PushDropped, Ask, AskServed, AskAgain, AskQuiet,
                     AskStalled, PageDeferred, PageSent, PageOk, PageFailed, PassDone, Repairing, OthersUnchanged
<1> QED BY <1>1, <1>2, Zenon DEF Publishing

\* What the handler finds live is part of the request, and the rest has expired.
LEMMA FoundLiveFacts ==
  ASSUME NEW S, NEW L \in FoundLive(S)
  PROVE  L \subseteq S /\ S \ L \subseteq expired
<1>1. PICK B \in SUBSET {b \in Batches : b \subseteq expired} : L = S \ UNION B
  BY Zenon DEF FoundLive
<1>2. UNION B \subseteq expired
  BY <1>1
<1> QED BY <1>1, <1>2

\* The body of a request that was sent holds published messages.
LEMMA BodyTyped ==
  ASSUME Typed, NEW r \in Requesters, rpc[r] # "none"
  PROVE  Body(r) \in SUBSET Published
BY DEF Typed, PublicationTypes, SenderTypes, Body

\* A request that B handles is a receiver's step on published messages.
LEMMA ServeIntake ==
  ASSUME Typed
  PROVE  /\ \A r \in Requesters : Serve(r) => \E L \in SUBSET Published : Handle(IsPage(r), L)
         /\ ServeLate => \E L \in SUBSET Published, p \in BOOLEAN : Handle(p, L)
<1>1. ASSUME NEW r \in Requesters, Serve(r) PROVE \E L \in SUBSET Published : Handle(IsPage(r), L)
  <2>1. rpc[r] = "sent" /\ \E L \in FoundLive(Body(r)) : Handle(IsPage(r), L)
    BY <1>1, Zenon DEF Serve
  <2>2. PICK L \in FoundLive(Body(r)) : Handle(IsPage(r), L)
    BY <2>1, Zenon
  <2>3. Body(r) \in SUBSET Published
    BY <2>1, BodyTyped
  <2>4. L \in SUBSET Published
    BY <2>3, FoundLiveFacts
  <2> QED BY <2>2, <2>4, Zenon
<1>2. ASSUME ServeLate PROVE \E L \in SUBSET Published, p \in BOOLEAN : Handle(p, L)
  <2>1. PICK z \in late : \E L \in FoundLive(z[2]) : Handle(z[1], L)
    BY <1>2, Zenon DEF ServeLate
  <2>2. PICK L \in FoundLive(z[2]) : Handle(z[1], L)
    BY <2>1, Zenon
  <2>3. z[1] \in BOOLEAN /\ z[2] \in SUBSET Published
    BY DEF Typed, SenderTypes
  <2>4. L \in SUBSET Published
    BY <2>3, FoundLiveFacts
  <2> QED BY <2>2, <2>3, <2>4, Zenon
<1> QED BY <1>1, <1>2, Zenon

\* Every step of the system is a step of the receiver, and only a restart forgets.
LEMMA KeepsOfStays ==
  ASSUME Typed, Stays
  PROVE  Keeps
<1>1. CASE Publishing \/ Looping
  BY <1>1, SenderQuiet, Zenon DEF Keeps
<1>2. CASE Serving
  <2>1. CASE \E r \in Requesters : Serve(r)
    <3>1. PICK L \in SUBSET Published : \E p \in BOOLEAN : Handle(p, L)
      BY <2>1, ServeIntake, Zenon DEF IsPage
    <3>2. Repair(L) \/ RepairRefused(L) \/ Replicate(L)
      BY <3>1, Zenon DEF Handle
    <3> QED BY <3>2, Zenon DEF Keeps, Carries, Arrives
  <2>2. CASE ServeLate
    <3>1. PICK L \in SUBSET Published : \E p \in BOOLEAN : Handle(p, L)
      BY <2>2, ServeIntake, Zenon
    <3>2. Repair(L) \/ RepairRefused(L) \/ Replicate(L)
      BY <3>1, Zenon DEF Handle
    <3> QED BY <3>2, Zenon DEF Keeps, Carries, Arrives
  <2>3. CASE \E r \in Requesters : Reply(r)
    BY <2>3, Zenon DEF Reply, Keeps
  <2>4. CASE Work
    BY <2>4, Zenon DEF Work, Keeps, Carries, Looks, Promotes, Ends
  <2>5. CASE Finish
    <3>1. GivesBack
      BY <2>5 DEF Finish, GivesBack, frontier, buffer
    <3> QED BY <3>1, Zenon DEF Keeps, Carries, Ends
  <2> QED BY <1>2, <2>1, <2>2, <2>3, <2>4, <2>5, Zenon DEF Serving
<1>3. CASE BootAccept \/ BootFetch \/ BootEmpty
  <2>1. CASE BootAccept
    <3>1. bootPage \in SUBSET Published
      BY DEF Typed, SenderTypes
    <3> QED BY <2>1, <3>1, Zenon DEF BootAccept, Keeps
  <2>3. CASE BootFetch \/ BootEmpty
    BY <2>3, Zenon DEF BootFetch, BootEmpty, Keeps
  <2> QED BY <1>3, <2>1, <2>3
<1>4. CASE TimePasses
  <2>1. CASE ExpireMetadata
    BY <2>1, Zenon DEF Keeps, Carries
  <2>2. CASE ~ExpireMetadata
    <3>1. PICK b \in Batches : (\A m \in b : m <= accepted) /\ Expire(b)
      BY <1>4, <2>2, Zenon DEF TimePasses
    <3>2. b \in SUBSET Published
      <4>1. b \subseteq Nat \ {0} /\ accepted \in Nat
        BY IntakeTyped DEF Typed, IntakeTypes
      <4> QED BY <3>1, <4>1 DEF Published
    <3> QED BY <3>1, <3>2, Zenon DEF Keeps, Carries
  <2> QED BY <2>1, <2>2
<1> QED BY <1>1, <1>2, <1>3, <1>4, Zenon DEF Stays

\* The same for every step.
LEMMA IntakeOfNext ==
  ASSUME Typed, Next
  PROVE  IntakeStep
<1>1. CASE Stays
  BY <1>1, KeepsOfStays DEF IntakeStep
<1>2. CASE Restart \/ BootExit
  BY <1>2, Zenon DEF Restart, BootExit, Reset, IntakeStep
<1> QED BY <1>1, <1>2, Zenon DEF Next, Booting, Stays

\* Sequence numbers are only given out.
LEMMA AcceptedGrows ==
  ASSUME Typed, Next \/ UNCHANGED vars
  PROVE  /\ accepted' \in Nat /\ accepted <= accepted' /\ Published \subseteq Published'
         /\ accepted' # accepted => Publishing
<1>1. accepted \in Nat
  BY DEF Typed, IntakeTypes
<1>2. CASE accepted' = accepted
  BY <1>1, <1>2 DEF Published
<1>3. CASE accepted' # accepted
  <2>1. PICK b \in Batches : Sequenced(b) /\ Publishing
    <3>1. CASE Publishing
      <4>1. PICK b \in Batches :
               \/ Reserve(b) \/ AcceptLocal(b) \/ AcceptCopied(b) \/ AcceptRefused(b)
               \/ Enqueue(b) \/ Offer(b) \/ CopyOk(b) \/ CopyFailed(b)
        BY <3>1, Zenon DEF Publishing
      <4>2. Sequenced(b) \/ accepted' = accepted
        BY <4>1 DEF Reserve, AcceptLocal, AcceptCopied, AcceptRefused, Enqueue, Offer, CopyOk, CopyFailed
      <4> QED BY <1>3, <3>1, <4>2
    <3>2. CASE Looping
      BY <1>3, <3>2 DEF Looping, Take, PushOk, PushRetry, PushDropped, Ask, AskServed, AskAgain, AskQuiet,
                     AskStalled, PageDeferred, PageSent, PageOk, PageFailed, PassDone
    <3>3. CASE Serving
      BY <1>3, <3>3, Zenon DEF Serving, Serve, ServeLate, Work, Finish, Reply, senderVars
    <3>4. CASE Booting \/ TimePasses
      BY <1>3, <3>4, Zenon DEF Booting, Restart, BootExit, Reset, BootAccept, BootFetch, BootEmpty, TimePasses, senderVars
    <3>5. CASE UNCHANGED vars
      BY <1>3, <3>5, Zenon DEF vars, senderVars
    <3> QED BY <3>1, <3>2, <3>3, <3>4, <3>5, Zenon DEF Next
  <2>2. accepted' = Max(b) /\ accepted + 1 \in b
    BY <2>1 DEF Sequenced
  <2>3. accepted' \in Nat /\ accepted + 1 <= accepted'
    BY <2>2, LastOfBatch
  <2> QED BY <1>1, <2>1, <2>3 DEF Published
<1> QED BY <1>2, <1>3

\* The receiver keeps its types while sequence numbers are given out.
LEMMA IntakeTypesStep ==
  ASSUME IntakeTypes, IntakeStep, accepted' \in Nat, accepted <= accepted'
  PROVE  IntakeTypes'
<1>0. Published \subseteq Published' /\ 0..accepted \subseteq 0..accepted'
  BY DEF IntakeTypes, Published
<1> DEFINE Fine == /\ through' \in 0..accepted /\ cur' \in 0..accepted
                   /\ cache' \subseteq Published /\ reorder' \subseteq Published /\ recorded' \subseteq Published
                   /\ live' \subseteq Published /\ todo' \subseteq live' /\ expired' \subseteq Published
                   /\ gapMark' \subseteq Published
                   /\ reorderBytes' \in Int /\ op' \in Ops /\ (op' # "batch" => todo' = {})
<1>q. SUFFICES Fine
  BY <1>0 DEF IntakeTypes
<1>f. \A S \in SUBSET Published : IsFiniteSet(S) /\ Cardinality(S) \in Nat
  <2>1. IsFiniteSet(1..accepted)
    BY FS_Interval DEF IntakeTypes
  <2> QED BY <2>1, FS_Subset, FS_CardinalityType DEF Published
<1>p. Published = 1..accepted
  BY DEF Published
<1> HIDE DEF Published
<1> USE DEF IntakeTypes, Ops
<1>1. CASE UNCHANGED intakeVars
  BY <1>1, IntakeSame
<1>2. ASSUME NEW L \in SUBSET Published, Arrives(L) PROVE Fine
  BY <1>2 DEF Arrives, Replicate, RepairRefused, frontier, buffer
<1>3. CASE Looks
  <2>1. PICK m \in todo : LookMissing(m) \/ LookDuplicate(m) \/ LookAhead(m) \/ LookNext(m)
    BY <1>3, Zenon DEF Looks
  <2>m. m \in Published /\ m \in 0..accepted /\ 0 \in 0..accepted
    BY <1>p
  <2>2. CASE LookMissing(m)
    BY <2>2, <2>m DEF LookMissing, Refuse, frontier, buffer
  <2>3. CASE LookDuplicate(m)
    <3>1. Cardinality(reorder \cap {through + 1}) \in Nat
      BY <1>f
    <3>2. reorder \cap {through + 1} # {} => through + 1 \in 0..accepted
      BY <1>p
    <3> QED BY <2>3, <2>m, <3>1, <3>2 DEF LookDuplicate, frontier
  <2>4. CASE LookAhead(m)
    <3>1. CASE op' = op /\ todo' = todo \ {m}
      <4>1. \/ reorder' = reorder /\ reorderBytes' = reorderBytes /\ gapMark' = gapMark
            \/ reorder' = reorder \cup {m} /\ reorderBytes' = reorderBytes + 1 /\ gapMark' = gapMark \cup {m}
        BY <2>4 DEF LookAhead, buffer
      <4>2. cur' = cur \/ cur' = 0
        BY <2>4 DEF LookAhead, Refuse
      <4>3. /\ op = "batch" /\ expired' = expired /\ cache' = cache /\ live' = live
            /\ through' = through /\ recorded' = recorded
        BY <2>4 DEF LookAhead, Looking, frontier
      <4>4. reorder' \subseteq Published /\ reorderBytes' \in Int /\ gapMark' \subseteq Published
        <5>1. reorder' = reorder \/ reorder' = reorder \cup {m}
          BY <4>1
        <5>2. gapMark' = gapMark \/ gapMark' = gapMark \cup {m}
          BY <4>1
        <5>3. reorderBytes' \in Int
          BY <4>1
        <5> QED BY <2>m, <5>1, <5>2, <5>3
      <4>5. cur' \in 0..accepted /\ through' \in 0..accepted
        BY <2>m, <4>2, <4>3
      <4>6. todo' \subseteq live' /\ op' \in Ops /\ (op' # "batch" => todo' = {})
        BY <3>1, <4>3
      <4> QED BY <4>3, <4>4, <4>5, <4>6
    <3>2. CASE Refuse
      BY <2>4, <2>m, <3>2 DEF LookAhead, Refuse, frontier, buffer
    <3> QED BY <2>4, <3>1, <3>2 DEF LookAhead
  <2>5. CASE LookNext(m)
    BY <2>5, <2>m DEF LookNext, frontier, buffer
  <2> QED BY <2>1, <2>2, <2>3, <2>4, <2>5
<1>4. CASE Promotes
  <2>1. CASE Promote
    <3>1. Cardinality(reorder \cap {cur + 1}) \in Nat
      BY <1>f
    <3>2. reorder \cap {cur + 1} # {} => cur + 1 \in 0..accepted
      BY <1>p
    <3>3. cur \in Published /\ 0 \in 0..accepted
      BY <2>1, <1>p DEF Promote
    <3>4. cur' \in 0..accepted /\ through' \in 0..accepted
      BY <2>1, <3>2, <3>3 DEF Promote, Successor, Up
    <3>5. gapMark' \subseteq Published
      BY <2>1 DEF Promote, Successor, ClearGap
    <3>6. reorder' \subseteq Published /\ reorderBytes' \in Int
      BY <2>1, <3>1 DEF Promote, Successor
    <3>7. cache' \subseteq Published /\ recorded' \subseteq Published
      BY <2>1, <3>3 DEF Promote
    <3> QED BY <2>1, <3>4, <3>5, <3>6, <3>7 DEF Promote
  <2>2. CASE PromoteExpired
    <3>1. Cardinality(reorder \cap {cur, cur + 1}) \in Nat
      BY <1>f
    <3>2. (reorder \ {cur}) \cap {cur + 1} # {} => cur + 1 \in 0..accepted
      BY <1>p
    <3>3. 0 \in 0..accepted
      OBVIOUS
    <3>4. cur' \in 0..accepted /\ through' \in 0..accepted
      BY <2>2, <3>2, <3>3 DEF PromoteExpired, Up
    <3>5. gapMark' \subseteq Published
      BY <2>2 DEF PromoteExpired, ClearGap
    <3> QED BY <2>2, <3>1, <3>4, <3>5 DEF PromoteExpired
  <2>3. CASE PromoteRefused
    <3>1. cur \in Published /\ 0 \in 0..accepted
      BY <2>3, <1>p DEF PromoteRefused
    <3> QED BY <2>3, <3>1 DEF PromoteRefused, Refuse, frontier
  <2> QED BY <1>4, <2>1, <2>2, <2>3 DEF Promotes
<1>5. CASE Ends
  BY <1>5 DEF Ends, BatchDone, DrainDone, GivesBack, frontier, buffer
<1>6. CASE Drain
  <2>1. through + 1 \in Published /\ through + 1 \in 0..accepted
    BY <1>6, <1>p DEF Drain
  <2> QED BY <1>6, <2>1 DEF Drain, ClearGap, request
<1>7. ASSUME NEW b \in SUBSET Published, Expire(b) PROVE Fine
  BY <1>7 DEF Expire, frontier, buffer, request
<1>8. CASE ExpireMetadata
  <2>1. Cardinality(reorder \cap expired) \in Nat /\ 0 \in 0..accepted
    BY <1>f
  <2> QED BY <1>8, <2>1 DEF ExpireMetadata, ClearGap, request
<1>9. ASSUME NEW L \in SUBSET Published, Repair(L) \/ Bootstrap(L) PROVE Fine
  <2>1. Max({through} \cup (L \ cache)) \in 0..accepted
    <3>1. {through} \cup (L \ cache) \subseteq 0..accepted /\ {through} \cup (L \ cache) # {}
      BY <1>p
    <3> QED BY <3>1, MaxOf
  <2>2. Cardinality(reorder \cap L) \in Nat
    BY <1>f
  <2> QED BY <1>9, <2>1, <2>2 DEF Repair, Bootstrap, ClearGap, buffer
<1>10. CASE Forget
  BY <1>10 DEF Forget
<1> HIDE DEF Fine
<1> QED BY <1>1, <1>2, <1>3, <1>4, <1>5, <1>6, <1>7, <1>8, <1>9, <1>10, Zenon DEF IntakeStep, Keeps, Carries

\* A publication that takes its sequence numbers is published.
LEMMA SequencedPublished ==
  ASSUME Typed, NEW b \in Batches, Sequenced(b)
  PROVE  /\ b \subseteq Published' /\ accepted' \in Nat /\ accepted < accepted'
         /\ Published' \subseteq Published \cup b
<1>1. accepted' = Max(b) /\ accepted + 1 \in b /\ accepted \in Nat
  BY DEF Sequenced, Typed, IntakeTypes
<1>2. b \subseteq Nat \ {0} /\ \A m, n \in b : m..n \subseteq b
  BY IntakeTyped
<1>3. Max(b) \in b /\ (\A k \in b : k <= Max(b)) /\ Max(b) \in Nat \ {0}
  BY LastOfBatch
<1>4. (accepted + 1)..Max(b) \subseteq b
  BY <1>1, <1>2, <1>3
<1>5. b \subseteq 1..Max(b)
  BY <1>2, <1>3
<1>6. 1..Max(b) \subseteq 1..accepted \cup (accepted + 1)..Max(b)
  BY <1>1, <1>3
<1> QED BY <1>1, <1>3, <1>4, <1>5, <1>6 DEF Published

\* The requests and publications keep their types when one entry of each changes.
LEMMA PublicationUpdate ==
  ASSUME Typed, Published \subseteq Published',
         NEW b \in Batches, NEW s \in PubStates, s \in {"new", "reserved"} \/ b \subseteq Published',
         s = "copying" => b \in Requesters,
         pub' = pub \/ pub' = [pub EXCEPT ![b] = s],
         NEW r \in Requesters, NEW v \in RpcStates, r = Loop \/ v = "none" \/ r \subseteq Published',
         rpc' = rpc \/ rpc' = [rpc EXCEPT ![r] = v]
  PROVE  /\ pub' \in [Batches -> PubStates] /\ rpc' \in [Requesters -> RpcStates]
         /\ \A c \in Batches : pub'[c] \notin {"new", "reserved"} => c \subseteq Published'
         /\ \A c \in Batches : pub'[c] = "copying" => c \in Requesters
         /\ \A q \in Requesters : q = Loop \/ rpc'[q] = "none" \/ q \subseteq Published'
<1> USE DEF Typed, PublicationTypes
<1>1. pub' \in [Batches -> PubStates] /\ \A c \in Batches : pub'[c] = pub[c] \/ (c = b /\ pub'[c] = s)
  OBVIOUS
<1>2. rpc' \in [Requesters -> RpcStates] /\ \A q \in Requesters : rpc'[q] = rpc[q] \/ (q = r /\ rpc'[q] = v)
  OBVIOUS
<1>3. ASSUME NEW c \in Batches, pub'[c] \notin {"new", "reserved"} PROVE c \subseteq Published'
  <2>1. pub'[c] = pub[c] \/ (c = b /\ b \subseteq Published')
    BY <1>1, <1>3
  <2> QED BY <1>3, <2>1
<1>4. ASSUME NEW q \in Requesters, q # Loop, rpc'[q] # "none" PROVE q \subseteq Published'
  <2>1. rpc'[q] = rpc[q] \/ (q = r /\ q \subseteq Published')
    BY <1>2, <1>4
  <2> QED BY <1>4, <2>1
<1> QED BY <1>1, <1>2, <1>3, <1>4

\* The origin's publications and requests keep their types.
LEMMA PublicationTypesStep ==
  ASSUME Typed, Next, Published \subseteq Published'
  PROVE  PublicationTypes'
<1> DEFINE Entries == /\ pub' \in [Batches -> PubStates] /\ rpc' \in [Requesters -> RpcStates]
                      /\ \A c \in Batches : pub'[c] \notin {"new", "reserved"} => c \subseteq Published'
                      /\ \A c \in Batches : pub'[c] = "copying" => c \in Requesters
                      /\ \A q \in Requesters : q = Loop \/ rpc'[q] = "none" \/ q \subseteq Published'
           Queues == queue' \in Seq(Batches) /\ \A i \in 1..Len(queue') : queue'[i] \subseteq Published'
<1>t. PublicationTypes /\ \A b \in Batches : b \in SUBSET Nat
  BY IntakeTyped DEF Typed
<1>g. Entries /\ Queues => PublicationTypes'
  BY DEF PublicationTypes
<1>q. ASSUME NEW b \in Batches, b \subseteq Published', queue' = Append(queue, b) PROVE Queues
  <2>1. queue \in Seq(Batches) /\ Len(queue) \in Nat /\ \A i \in 1..Len(queue) : queue[i] \subseteq Published'
    BY <1>t DEF PublicationTypes
  <2>2. queue' \in Seq(Batches) /\ Len(queue') = Len(queue) + 1
    BY <1>q, <2>1
  <2>3. \A i \in 1..(Len(queue) + 1) : queue'[i] = IF i <= Len(queue) THEN queue[i] ELSE b
    BY <1>q, <2>1
  <2> QED BY <1>q, <2>1, <2>2, <2>3
<1>s. queue' = queue => Queues
  BY <1>t DEF PublicationTypes
<1>e. pub' = pub /\ rpc' = rpc => Entries
  BY <1>t DEF PublicationTypes
<1>1. CASE Publishing
  <2>1. PICK b \in Batches :
           \/ Reserve(b) \/ AcceptLocal(b) \/ AcceptCopied(b) \/ AcceptRefused(b)
           \/ Enqueue(b) \/ Offer(b) \/ CopyOk(b) \/ CopyFailed(b)
    BY <1>1, Zenon DEF Publishing
  <2>2. CASE Sequenced(b) \/ (pub[b] \in {"queueing", "offering", "copying"})
    <3>1. b \subseteq Published'
      BY <1>t, <2>2, SequencedPublished DEF PublicationTypes
    <3>2. \E s \in PubStates : pub' = [pub EXCEPT ![b] = s] /\ (s = "copying" => b \in Requesters)
      BY <2>1, RequesterFacts
         DEF Reserve, AcceptLocal, AcceptCopied, AcceptRefused, Enqueue, Offer, CopyOk, CopyFailed, NoCopy, PubStates
    <3>3. queue' = queue \/ queue' = Append(queue, b)
      BY <2>1 DEF Reserve, AcceptLocal, AcceptCopied, AcceptRefused, Enqueue, Offer, CopyOk, CopyFailed, queueVars
    <3>4. rpc' = rpc \/ \E v \in RpcStates : rpc' = [rpc EXCEPT ![b] = v]
      BY <2>1 DEF Reserve, AcceptLocal, AcceptCopied, AcceptRefused, Enqueue, Offer, CopyOk, CopyFailed,
                  Heard, RpcStates
    <3>5. Entries
      <4>1. PICK s \in PubStates : pub' = [pub EXCEPT ![b] = s] /\ (s = "copying" => b \in Requesters)
        BY <3>2
      <4>2. CASE rpc' = rpc
        <5>1. Loop \in Requesters /\ "none" \in RpcStates
          BY RequesterFacts DEF RpcStates
        <5> QED BY ONLY <3>1, <4>1, <4>2, <5>1, Typed, Published \subseteq Published', PublicationUpdate
      <4>3. CASE rpc' # rpc
        <5>1. PICK v \in RpcStates : rpc' = [rpc EXCEPT ![b] = v]
          BY <3>4, <4>3
        <5>2. b \in Requesters
          BY <5>1, <4>3, <1>t DEF PublicationTypes
        <5> QED BY ONLY <3>1, <4>1, <5>1, <5>2, Typed, Published \subseteq Published', PublicationUpdate
      <4> QED BY <4>2, <4>3
    <3>6. Queues
      BY <1>q, <1>s, <3>1, <3>3
    <3> QED BY <1>g, <3>5, <3>6
  <2>3. CASE ~Sequenced(b) /\ pub[b] \notin {"queueing", "offering", "copying"}
    <3>1. Reserve(b) \/ AcceptRefused(b)
      BY <2>1, <2>3 DEF AcceptLocal, AcceptCopied, Enqueue, Offer, CopyOk, CopyFailed
    <3>2. rpc' = rpc /\ queue' = queue /\ \E s \in {"new", "reserved"} : pub' = [pub EXCEPT ![b] = s]
      BY <3>1 DEF Reserve, AcceptRefused
    <3>3. PICK s \in {"new", "reserved"} : pub' = [pub EXCEPT ![b] = s]
      BY <3>2
    <3>4. Loop \in Requesters /\ "none" \in RpcStates /\ s \in PubStates /\ s # "copying"
      BY RequesterFacts DEF RpcStates, PubStates
    <3>5. Entries
      BY ONLY <3>2, <3>3, <3>4, Typed, Published \subseteq Published', PublicationUpdate
    <3> QED BY <1>g, <1>s, <3>2, <3>5
  <2> QED BY <2>2, <2>3
<1>2. CASE Looping
  <2>1. pub' = pub
    BY <1>2 DEF Looping, Take, PushOk, PushRetry, PushDropped, Ask, AskServed, AskAgain, AskQuiet,
                AskStalled, PageDeferred, PageSent, PageOk, PageFailed, PassDone
  <2>2. rpc' = rpc \/ \E v \in RpcStates : rpc' = [rpc EXCEPT ![Loop] = v]
    BY <1>2 DEF Looping, Take, PushOk, PushRetry, PushDropped, Ask, AskServed, AskAgain, AskQuiet,
                AskStalled, PageDeferred, PageSent, PageOk, PageFailed, PassDone, Heard, RpcStates
  <2>3. queue' = queue \/ (queue # <<>> /\ queue' = Tail(queue))
    BY <1>2 DEF Looping, Take, PushOk, PushRetry, PushDropped, Ask, AskServed, AskAgain, AskQuiet,
                AskStalled, PageDeferred, PageSent, PageOk, PageFailed, PassDone, queueVars
  <2>4. Entries
    <3>1. CASE rpc' = rpc
      BY <1>e, <2>1, <3>1
    <3>2. CASE rpc' # rpc
      <4>1. PICK v \in RpcStates : rpc' = [rpc EXCEPT ![Loop] = v]
        BY <2>2, <3>2
      <4>2. /\ rpc' \in [Requesters -> RpcStates]
            /\ \A q \in Requesters : q # Loop => rpc'[q] = rpc[q]
        BY <1>t, <4>1, RequesterFacts DEF PublicationTypes
      <4>3. ASSUME NEW q \in Requesters, q # Loop, rpc'[q] # "none" PROVE q \subseteq Published'
        BY <1>t, <4>2, <4>3 DEF PublicationTypes
      <4> QED BY <1>t, <2>1, <4>2, <4>3 DEF PublicationTypes
    <3> QED BY <3>1, <3>2
  <2>5. Queues
    <3>1. CASE queue # <<>> /\ queue' = Tail(queue)
      <4>1. queue \in Seq(Batches) /\ queue # <<>> /\ \A i \in 1..Len(queue) : queue[i] \subseteq Published'
        BY <1>t, <3>1 DEF PublicationTypes
      <4>2. queue' \in Seq(Batches) /\ Len(queue') = Len(queue) - 1 /\ Len(queue) \in Nat \ {0}
        BY <3>1, <4>1
      <4>3. \A i \in 1..Len(queue') : queue'[i] = queue[i + 1]
        BY <3>1, <4>1, <4>2
      <4>4. \A i \in 1..Len(queue') : i + 1 \in 1..Len(queue)
        BY ONLY <4>2
      <4>5. \A i \in 1..Len(queue') : queue'[i] \subseteq Published'
        BY ONLY <4>1, <4>3, <4>4
      <4> QED BY ONLY <4>2, <4>5
    <3> QED BY <1>s, <2>3, <3>1
  <2> QED BY <1>g, <2>4, <2>5
<1>3. CASE Serving
  <2>1. pub' = pub /\ queue' = queue
    BY <1>3, Zenon DEF Serving, Serve, ServeLate, Work, Finish, Reply, senderVars, queueVars
  <2>2. CASE rpc' = rpc
    BY <1>g, <1>e, <1>s, <2>1, <2>2
  <2>3. CASE rpc' # rpc
    <3>1. \E r \in Requesters, v \in RpcStates : rpc[r] # "none" /\ rpc' = [rpc EXCEPT ![r] = v]
      <4>1. (\E r \in Requesters : Reply(r)) \/ Finish
        BY <1>3, <2>3, Zenon DEF Serving, Serve, ServeLate, Work, senderVars
      <4>2. ASSUME NEW r \in Requesters, Reply(r)
            PROVE  \E v \in RpcStates : rpc[r] # "none" /\ rpc' = [rpc EXCEPT ![r] = v]
        <5>1. rpc[r] = "looking" /\ \E v \in RpcStates : rpc' = [rpc EXCEPT ![r] = v]
          BY <4>2 DEF Reply, RpcStates
        <5> QED BY <5>1
      <4>3. CASE Finish
        <5>1. server # Nobody
          BY <2>3, <4>3 DEF Finish
        <5>2. PICK r \in Requesters : server = <<r>>
          BY <5>1 DEF Typed, ServerTypes
        <5>3. rpc[r] = "sent" /\ server[1] = r
          BY <5>2 DEF Typed, ServerTypes
        <5>4. \E v \in RpcStates : rpc' = [rpc EXCEPT ![r] = v]
          BY <4>3, <5>1, <5>3 DEF Finish, RpcStates
        <5> QED BY <5>3, <5>4
      <4> QED BY <4>1, <4>2, <4>3
    <3>2. PICK r \in Requesters, v \in RpcStates : rpc[r] # "none" /\ rpc' = [rpc EXCEPT ![r] = v]
      BY <3>1
    <3>3. /\ rpc' \in [Requesters -> RpcStates]
          /\ \A q \in Requesters : q # r => rpc'[q] = rpc[q]
      BY <1>t, <3>2 DEF PublicationTypes
    <3>4. ASSUME NEW q \in Requesters, q # Loop, rpc'[q] # "none" PROVE q \subseteq Published'
      BY <1>t, <3>2, <3>3, <3>4 DEF PublicationTypes
    <3> QED BY <1>t, <1>s, <2>1, <3>3, <3>4 DEF PublicationTypes
  <2> QED BY <2>2, <2>3
<1>4. CASE Booting
  <2>1. pub' = pub /\ queue' = queue
    BY <1>4, Zenon DEF Booting, Restart, BootExit, Reset, BootAccept, BootFetch, BootEmpty, senderVars, queueVars
  <2>2. rpc' = rpc \/ rpc' = [r \in Requesters |-> IF rpc[r] = "looking" THEN "failed" ELSE rpc[r]]
    BY <1>4, Zenon DEF Booting, Restart, BootExit, Reset, BootAccept, BootFetch, BootEmpty, senderVars
  <2>3. /\ rpc' \in [Requesters -> RpcStates]
        /\ \A q \in Requesters : rpc'[q] = rpc[q] \/ rpc[q] = "looking"
    BY <1>t, <2>2 DEF PublicationTypes, RpcStates
  <2>4. ASSUME NEW q \in Requesters, q # Loop, rpc'[q] # "none" PROVE q \subseteq Published'
    BY <1>t, <2>3, <2>4 DEF PublicationTypes
  <2> QED BY <1>t, <1>s, <2>1, <2>3, <2>4 DEF PublicationTypes
<1>5. CASE TimePasses
  <2>1. pub' = pub /\ queue' = queue /\ rpc' = rpc
    BY <1>5, Zenon DEF TimePasses, senderVars, queueVars
  <2> QED BY <1>g, <1>e, <1>s, <2>1
<1> QED BY <1>1, <1>2, <1>3, <1>4, <1>5, Zenon DEF Next

\* What a failed request leaves behind is a request body of published messages.
LEMMA FailedLate ==
  ASSUME Typed, NEW r \in Requesters, Failed(r)
  PROVE  /\ late' = late \/ late' = late \cup {<<IsPage(r), Body(r)>>}
         /\ late' \subseteq BOOLEAN \X SUBSET Published
<1>1. rpc[r] # "none" /\ (late' = late \/ late' = late \cup {<<IsPage(r), Body(r)>>})
  BY DEF Failed
<1>2. Body(r) \in SUBSET Published /\ IsPage(r) \in BOOLEAN
  BY <1>1, BodyTyped DEF IsPage
<1>3. late \subseteq BOOLEAN \X SUBSET Published
  BY DEF Typed, SenderTypes
<1> HIDE DEF Body, IsPage
<1> QED BY <1>1, <1>2, <1>3

\* peerLoop, its pages and B's bootstrap keep their types.
LEMMA SenderTypesStep ==
  ASSUME Typed, Next, accepted' \in Nat, accepted <= accepted', Published \subseteq Published'
  PROVE  SenderTypes'
<1> DEFINE Loops == item' \subseteq Published' /\ (loop' = "page" => item' # {}) /\ ordinal' \in 0..accepted'
           Lates == late' \subseteq BOOLEAN \X SUBSET Published'
           Boots == bootPage' \subseteq Published' /\ (boot' = "accept" => bootPage' # {}) /\ bootCursor' \in 0..accepted'
<1>t. SenderTypes /\ accepted \in Nat /\ 0..accepted \subseteq 0..accepted' /\ Published = 1..accepted
  BY DEF Typed, IntakeTypes, Published
<1>g. SUFFICES Loops /\ Lates /\ Boots
  BY DEF SenderTypes
<1>l. item' = item /\ loop' = loop /\ ordinal' = ordinal => Loops
  BY <1>t DEF SenderTypes
<1>d. late' \subseteq BOOLEAN \X SUBSET Published => Lates
  <2>1. BOOLEAN \X SUBSET Published \subseteq BOOLEAN \X SUBSET Published'
    OBVIOUS
  <2> QED BY <2>1
<1>e. late' \subseteq late => Lates
  BY <1>d, <1>t DEF SenderTypes
<1>b. bootPage' = bootPage /\ boot' = boot /\ bootCursor' = bootCursor => Boots
  BY <1>t DEF SenderTypes
<1>1. CASE Publishing
  <2>1. PICK b \in Batches :
           \/ Reserve(b) \/ AcceptLocal(b) \/ AcceptCopied(b) \/ AcceptRefused(b)
           \/ Enqueue(b) \/ Offer(b) \/ CopyOk(b) \/ CopyFailed(b)
    BY <1>1, Zenon DEF Publishing
  <2>2. item' = item /\ loop' = loop /\ ordinal' = ordinal
    BY <2>1 DEF Reserve, AcceptLocal, AcceptCopied, AcceptRefused, Enqueue, Offer, CopyOk, CopyFailed,
                loopVars, repairVars
  <2>3. late' = late \/ (pub[b] = "copying" /\ Failed(b))
    BY <2>1 DEF Reserve, AcceptLocal, AcceptCopied, AcceptRefused, Enqueue, Offer, CopyOk, CopyFailed
  <2>4. Lates
    <3>1. CASE pub[b] = "copying" /\ Failed(b)
      <4>1. b \in Requesters
        BY <3>1 DEF Typed, PublicationTypes
      <4> QED BY <1>d, <1>e, <3>1, <4>1, FailedLate
    <3> QED BY <1>e, <2>3, <3>1
  <2>5. Boots
    BY <1>1, <1>b, SenderQuiet DEF bootVars
  <2> QED BY <1>l, <2>2, <2>4, <2>5
<1>2. CASE Looping
  <2>1. Lates
    <3>1. late' = late \/ Failed(Loop)
      BY <1>2 DEF Looping, Take, PushOk, PushRetry, PushDropped, Ask, AskServed, AskAgain, AskQuiet,
                AskStalled, PageDeferred, PageSent, PageOk, PageFailed, PassDone
    <3> QED BY <1>d, <1>e, <3>1, FailedLate, RequesterFacts
  <2>2. Boots
    BY <1>2, <1>b, SenderQuiet DEF bootVars
  <2>3. Loops
    <3>1. CASE Take
      <4>1. queue \in Seq(Batches) /\ queue # <<>> /\ \A i \in 1..Len(queue) : queue[i] \subseteq Published
        BY <3>1 DEF Take, Typed, PublicationTypes
      <4>2. Head(queue) = queue[1] /\ 1 \in 1..Len(queue)
        BY <4>1
      <4>3. Head(queue) \subseteq Published
        BY <4>1, <4>2
      <4> QED BY <1>t, <3>1, <4>3 DEF Take, repairVars, SenderTypes
    <3>2. CASE PageSent
      <4>1. RepairPage \subseteq Published /\ RepairPage # {}
        BY <3>2 DEF PageSent, RepairPage, OriginCache, Published
      <4> QED BY <1>t, <3>2, <4>1 DEF PageSent, SenderTypes
    <3>3. CASE PageOk
      <4>1. item \subseteq 0..accepted /\ item # {}
        BY <1>t, <3>3 DEF PageOk, SenderTypes
      <4>2. Max(item) \in 0..accepted
        BY ONLY <1>t, <4>1, MaxOf
      <4> QED BY <1>t, <3>3, <4>2 DEF PageOk, LoopIdle
    <3>4. CASE PushOk \/ PushDropped \/ PageFailed
      BY <1>t, <3>4 DEF PushOk, PushDropped, PageFailed, LoopIdle, repairVars, SenderTypes
    <3>5. CASE PushRetry \/ Ask \/ AskServed \/ AskAgain \/ AskQuiet \/ AskStalled \/ PageDeferred \/ PassDone
      <4>1. item' = item /\ (loop' = loop \/ loop' # "page")
        BY <3>5 DEF PushRetry, Ask, AskServed, AskAgain, AskQuiet, AskStalled, PageDeferred, PassDone
      <4>2. ordinal' = ordinal \/ ordinal' = 0
        BY <3>5 DEF PushRetry, Ask, AskServed, AskAgain, AskQuiet, AskStalled, PageDeferred, PassDone, repairVars
      <4>3. ordinal' \in 0..accepted'
        BY <1>t, <4>2 DEF SenderTypes
      <4> QED BY <1>t, <4>1, <4>3 DEF SenderTypes
    <3> QED BY <1>2, <3>1, <3>2, <3>3, <3>4, <3>5 DEF Looping
  <2> QED BY <2>1, <2>2, <2>3
<1>3. CASE Serving
  <2>1. item' = item /\ loop' = loop /\ ordinal' = ordinal /\ bootPage' = bootPage /\ boot' = boot /\ bootCursor' = bootCursor
    BY <1>3, Zenon DEF Serving, Serve, ServeLate, Work, Finish, Reply, senderVars, loopVars, repairVars, bootVars
  <2>2. late' \subseteq late
    <3>1. CASE ServeLate
      BY <3>1 DEF ServeLate
    <3>2. CASE ~ServeLate
      <4>1. late' = late
        BY <1>3, <3>2, Zenon DEF Serving, Serve, Work, Finish, Reply, senderVars
      <4> QED BY <4>1
    <3> QED BY <3>1, <3>2
  <2> QED BY <1>l, <1>e, <1>b, <2>1, <2>2
<1>4. CASE Booting
  <2>1. item' = item /\ loop' = loop /\ ordinal' = ordinal
    BY <1>4, Zenon DEF Booting, Restart, BootExit, Reset, BootAccept, BootFetch, BootEmpty, senderVars, loopVars, repairVars
  <2>2. late' = late \/ late' = {}
    BY <1>4, Zenon DEF Booting, Restart, BootExit, Reset, BootAccept, BootFetch, BootEmpty, senderVars
  <2>3. Lates
    BY <1>e, <2>2
  <2>4. Boots
    <3>1. CASE Restart \/ BootExit
      BY <1>t, <3>1 DEF Restart, BootExit, Reset
    <3>2. CASE BootFetch
      <4> DEFINE rest == {m \in OriginCache : m > bootCursor}
                 page == {m \in rest : Cardinality({n \in rest : n < m}) < PageBytes}
      <4>1. CASE rest = {}
        <5>1. boot' = "up" /\ bootCursor' = 0 /\ bootPage' = bootPage
          BY <3>2, <4>1 DEF BootFetch
        <5>2. bootCursor' \in 0..accepted'
          BY <5>1
        <5> QED BY <1>t, <5>1, <5>2 DEF SenderTypes
      <4>2. CASE rest # {}
        <5>1. boot' = "accept" /\ bootCursor' = bootCursor /\ bootPage' = page
          BY <3>2, <4>2 DEF BootFetch
        <5>2. rest \subseteq 1..accepted
          BY DEF OriginCache
        <5>3. PICK lo \in rest : \A n \in rest : lo <= n
          <6>1. rest \subseteq Nat
            BY <5>2
          <6> HIDE DEF rest
          <6> QED BY <4>2, <6>1, HasMinimum
        <5>4. {n \in rest : n < lo} = {}
          BY <5>2, <5>3
        <5>5. Cardinality({n \in rest : n < lo}) < PageBytes
          BY <5>4, FS_EmptySet, SenderTyped
        <5>6. lo \in page
          BY <5>5
        <5>7. page \subseteq Published
          BY <1>t, <5>2
        <5> QED BY <1>t, <5>1, <5>6, <5>7 DEF SenderTypes
      <4> QED BY <4>1, <4>2
    <3>3. CASE BootAccept
      <4>1. bootPage \subseteq 0..accepted /\ bootPage # {}
        BY <1>t, <3>3 DEF BootAccept, SenderTypes
      <4>2. Max(bootPage) \in 0..accepted
        BY ONLY <1>t, <4>1, MaxOf
      <4> QED BY <1>t, <3>3, <4>2 DEF BootAccept
    <3>4. CASE BootEmpty
      BY <1>t, <3>4 DEF BootEmpty, SenderTypes
    <3> QED BY <1>4, <3>1, <3>2, <3>3, <3>4 DEF Booting
  <2> QED BY <1>l, <2>1, <2>3, <2>4
<1>5. CASE TimePasses
  <2>1. /\ item' = item /\ loop' = loop /\ ordinal' = ordinal /\ late' = late
        /\ bootPage' = bootPage /\ boot' = boot /\ bootCursor' = bootCursor
    BY <1>5, Zenon DEF TimePasses, senderVars, loopVars, repairVars, bootVars
  <2> QED BY <1>l, <1>e, <1>b, <2>1
<1> HIDE DEF Loops, Lates, Boots
<1> QED BY <1>1, <1>2, <1>3, <1>4, <1>5, Zenon DEF Next

\* The sender of the request that is handled keeps waiting for it.
LEMMA ServerTypesStep ==
  ASSUME Typed, Next
  PROVE  ServerTypes'
<1>t. ServerTypes
  BY DEF Typed
<1>n. \A r \in Requesters : Nobody # <<r>>
  BY DEF Nobody
<1>m. server' = Nobody => ServerTypes'
  BY <1>n DEF ServerTypes
<1>1. CASE Publishing \/ Looping
  <2>1. op = "idle" /\ server' = server
    BY <1>1, SenderQuiet
  <2> QED BY <1>t, <1>m, <2>1 DEF ServerTypes
<1>2. CASE Serving
  <2>1. ASSUME NEW r \in Requesters, Serve(r) PROVE ServerTypes'
    <3>1. rpc[r] = "sent" /\ rpc' = rpc /\ server' = <<r>>
      BY <2>1 DEF Serve, senderVars
    <3>2. op' # "idle"
      <4>1. PICK L : Handle(IsPage(r), L)
        BY <2>1, Zenon DEF Serve
      <4>2. Repair(L) \/ RepairRefused(L) \/ Replicate(L)
        BY <4>1, Zenon DEF Handle
      <4> QED BY <4>2 DEF Repair, RepairRefused, Replicate
    <3>3. \A q \in Requesters : server' = <<q>> => q = r
      BY <3>1
    <3> QED BY <3>1, <3>2, <3>3 DEF ServerTypes
  <2>2. CASE ServeLate
    <3>1. op = "idle" /\ server' = server
      <4>1. PICK p, L : Handle(p, L)
        BY <2>2, Zenon DEF ServeLate
      <4>2. Repair(L) \/ RepairRefused(L) \/ Replicate(L)
        BY <4>1, Zenon DEF Handle
      <4> QED BY <2>2, <4>2 DEF ServeLate, Repair, RepairRefused, Replicate
    <3> QED BY <1>t, <1>m, <3>1 DEF ServerTypes
  <2>3. CASE Work
    <3>1. server' = server /\ rpc' = rpc
      BY <2>3 DEF Work, senderVars
    <3>2. op' # "idle"
      <4>1. op' = op \/ op' \in {"refused", "accepted"}
        BY <2>3 DEF Work, LookMissing, LookDuplicate, LookAhead, LookNext, Promote, PromoteExpired, PromoteRefused,
                    BatchDone, Drain, DrainDone, Refuse, request
      <4>2. op # "idle"
        BY <2>3 DEF Work, LookMissing, LookDuplicate, LookAhead, LookNext, Promote, PromoteExpired, PromoteRefused,
                    BatchDone, Drain, DrainDone, Looking
      <4> QED BY <4>1, <4>2
    <3> QED BY <1>t, <3>1, <3>2 DEF ServerTypes
  <2>4. CASE Finish
    BY <1>m, <2>4 DEF Finish
  <2>5. ASSUME NEW r \in Requesters, Reply(r) PROVE ServerTypes'
    <3>1. op = "idle" /\ server' = server
      BY <2>5 DEF Reply
    <3> QED BY <1>t, <1>m, <3>1 DEF ServerTypes
  <2> QED BY <1>2, <2>1, <2>2, <2>3, <2>4, <2>5 DEF Serving
<1>3. CASE Booting
  <2>1. op = "idle" /\ server' = server
    BY <1>3 DEF Booting, Restart, BootExit, Reset, BootAccept, BootFetch, BootEmpty, Bootstrap
  <2> QED BY <1>t, <1>m, <2>1 DEF ServerTypes
<1>4. CASE TimePasses
  <2>1. op = "idle" /\ server' = server
    BY <1>4 DEF TimePasses, Expire, ExpireMetadata
  <2> QED BY <1>t, <1>m, <2>1 DEF ServerTypes
<1> QED BY <1>1, <1>2, <1>3, <1>4, Zenon DEF Next

\* The types hold at the start.
LEMMA TypedInit == Init => Typed
<1> SUFFICES ASSUME Init PROVE Typed
  OBVIOUS
<1>1. IntakeTypes
  BY DEF Init, IntakeInit, IntakeTypes, Published, Ops
<1>2. PublicationTypes
  <2>1. queue = <<>> /\ queue \in Seq(Batches) /\ Len(queue) = 0
    BY DEF Init
  <2>2. pub = [b \in Batches |-> "new"] /\ rpc = [r \in Requesters |-> "none"]
    BY DEF Init
  <2>3. pub \in [Batches -> PubStates] /\ rpc \in [Requesters -> RpcStates]
    BY <2>2 DEF PubStates, RpcStates
  <2>4. (\A b \in Batches : pub[b] = "new") /\ \A r \in Requesters : rpc[r] = "none"
    BY <2>2
  <2>5. \A i \in 1..Len(queue) : FALSE
    BY <2>1
  <2> QED BY <2>1, <2>3, <2>4, <2>5 DEF PublicationTypes
<1>3. SenderTypes
  BY DEF Init, SenderTypes, Published
<1>4. ServerTypes
  <2>1. \A r \in Requesters : Nobody # <<r>>
    BY DEF Nobody
  <2> QED BY <2>1 DEF Init, ServerTypes
<1> QED BY <1>1, <1>2, <1>3, <1>4 DEF Typed

\* Every step keeps the types.
LEMMA TypedStep ==
  ASSUME Typed, Next \/ UNCHANGED vars
  PROVE  Typed'
<1>1. accepted' \in Nat /\ accepted <= accepted' /\ Published \subseteq Published'
  BY AcceptedGrows
<1>2. CASE Next
  <2>1. IntakeTypes'
    <3>1. IntakeTypes /\ IntakeStep
      BY <1>2, IntakeOfNext DEF Typed
    <3> QED BY ONLY <1>1, <3>1, IntakeTypesStep
  <2>2. PublicationTypes'
    BY ONLY <1>1, <1>2, Typed, PublicationTypesStep
  <2>3. SenderTypes'
    BY ONLY <1>1, <1>2, Typed, SenderTypesStep
  <2>4. ServerTypes'
    BY ONLY <1>2, Typed, ServerTypesStep
  <2> QED BY <2>1, <2>2, <2>3, <2>4 DEF Typed
<1>3. CASE UNCHANGED vars
  BY <1>3 DEF vars, intakeVars, frontier, buffer, request, senderVars, queueVars, loopVars, repairVars, bootVars, histories,
             Typed, IntakeTypes, PublicationTypes, SenderTypes, ServerTypes, Published
<1> QED BY <1>2, <1>3

\* Replication keeps its types: what the receiver holds and every request body are published messages,
\* and the sender of the request that holds the receiver's lock is waiting for it.
THEOREM ReplicationTyped == Spec => []Typed
<1>1. ASSUME Typed, [Next]_vars PROVE Typed'
  BY <1>1, TypedStep
<1> QED BY <1>1, TypedInit, PTL DEF Spec

-----------------------------------------------------------------------------
(* The receive frontier, the reorder buffer and the gap mark.               *)

\* The cache lies below the frontier, the message to promote just above it, and the gap mark covers
\* the whole buffer.
Frontier ==
  /\ cache \subseteq recorded /\ recorded \subseteq 1..through /\ cache \cap expired = {}
  /\ cur # 0 => op = "batch" /\ cur = through + 1
  /\ cur # 0 /\ fromGap => cur \notin reorder
  /\ reorder \subseteq gapMark

\* The frontier's facts are about the receiver only.
LEMMA FrontierSame ==
  ASSUME Frontier, UNCHANGED intakeVars
  PROVE  Frontier'
<1>1. (cur' # 0 /\ fromGap') => (cur # 0 /\ fromGap)
  BY IntakeSame, Zenon
<1>2. cur # 0 /\ fromGap => cur \notin reorder
  BY DEF Frontier
<1>3. (cur' # 0 /\ fromGap') => cur' \notin reorder'
  <2>1. cur' = cur /\ reorder' = reorder
    BY IntakeSame
  <2>2. (cur' # 0 /\ fromGap') => cur \notin reorder
    BY <1>1, <1>2, Zenon
  <2> QED BY <2>1, <2>2
<1>4. /\ cache' \subseteq recorded' /\ recorded' \subseteq 1..through' /\ cache' \cap expired' = {}
      /\ reorder' \subseteq gapMark'
  BY IntakeSame DEF Frontier
<1>5. cur' # 0 => op' = "batch" /\ cur' = through' + 1
  BY IntakeSame DEF Frontier
<1> QED BY <1>3, <1>4, <1>5, Zenon DEF Frontier

\* Every step of the receiver keeps the frontier above its cache and the buffer marked.
LEMMA FrontierStep ==
  ASSUME IntakeTypes, Frontier, IntakeStep
  PROVE  Frontier'
<1>p. Published = 1..accepted /\ accepted \in Nat /\ through \in Nat
  BY DEF Published, IntakeTypes
<1> HIDE DEF Published
<1>1. CASE UNCHANGED intakeVars
  BY <1>1, FrontierSame
<1>2. ASSUME NEW L \in SUBSET Published, Arrives(L) PROVE Frontier'
  BY <1>2 DEF Arrives, Replicate, RepairRefused, frontier, buffer, Frontier
<1>3. CASE Looks
  <2>1. PICK m \in todo : LookMissing(m) \/ LookDuplicate(m) \/ LookAhead(m) \/ LookNext(m)
    BY <1>3, Zenon DEF Looks
  <2>m. m # 0 /\ m \in Nat
    BY <1>p DEF IntakeTypes
  <2>2. CASE LookMissing(m)
    BY <2>2 DEF LookMissing, Refuse, frontier, buffer, Frontier
  <2>3. CASE LookDuplicate(m)
    BY <1>p, <2>3 DEF LookDuplicate, Looking, frontier, Frontier
  <2>4. CASE LookAhead(m)
    <3>1. \/ reorder' = reorder /\ gapMark' = gapMark
          \/ reorder' = reorder \cup {m} /\ gapMark' = gapMark \cup {m}
      BY <2>4 DEF LookAhead, buffer
    <3>2. cur' = 0
      BY <2>4 DEF LookAhead, Refuse, Looking
    <3>3. reorder' \subseteq gapMark'
      <4>1. CASE reorder' = reorder /\ gapMark' = gapMark
        BY <4>1 DEF Frontier
      <4>2. CASE reorder' = reorder \cup {m} /\ gapMark' = gapMark \cup {m}
        BY <4>2 DEF Frontier
      <4> QED BY <3>1, <4>1, <4>2
    <3> QED BY <2>4, <3>2, <3>3 DEF LookAhead, frontier, Frontier
  <2>5. CASE LookNext(m)
    BY <2>5, <2>m DEF LookNext, Looking, frontier, buffer, Frontier
  <2> QED BY <2>1, <2>2, <2>3, <2>4, <2>5
<1>4. CASE Promote
  <2>1. cur = through + 1 /\ through' = cur /\ op' = "batch"
    BY <1>4, <1>p DEF Promote, Frontier, Up
  <2>2. cache' \subseteq recorded' /\ recorded' \subseteq 1..through' /\ cache' \cap expired' = {}
    BY <1>4, <1>p, <2>1 DEF Promote, Frontier
  <2>3. reorder' = reorder \ (reorder \cap {cur + 1}) /\ gapMark' = ClearGap(reorder', gapMark)
    BY <1>4 DEF Promote, Successor
  <2>4. reorder' \subseteq gapMark'
    BY <2>3 DEF ClearGap, Frontier
  <2>5. cur' # 0 => cur' = cur + 1 /\ cur' \notin reorder'
    BY <1>4, <2>3 DEF Promote, Successor
  <2> QED BY <2>1, <2>2, <2>4, <2>5 DEF Frontier
<1>5. CASE PromoteExpired
  <2>1. cur = through + 1 /\ through' = cur /\ op' = "batch"
    BY <1>5, <1>p DEF PromoteExpired, Frontier, Up
  <2>2. cache' \subseteq recorded' /\ recorded' \subseteq 1..through' /\ cache' \cap expired' = {}
    BY <1>5, <1>p, <2>1 DEF PromoteExpired, Frontier
  <2>3. reorder' \subseteq reorder \ {cur} /\ gapMark' = ClearGap(reorder \ {cur}, gapMark)
    BY <1>5 DEF PromoteExpired
  <2>4. reorder' \subseteq gapMark'
    BY <2>3 DEF ClearGap, Frontier
  <2>5. cur' # 0 => cur' = cur + 1 /\ cur' \notin reorder'
    BY <1>5 DEF PromoteExpired
  <2> QED BY <2>1, <2>2, <2>4, <2>5 DEF Frontier
<1>6. CASE PromoteRefused
  <2>1. cur' = 0 /\ cache' = cache /\ recorded' = recorded /\ through' = through /\ expired' = expired
    BY <1>6 DEF PromoteRefused, Refuse, frontier
  <2>2. reorder' \subseteq gapMark'
    BY <1>6 DEF PromoteRefused, Frontier
  <2> QED BY <2>1, <2>2 DEF Frontier
<1>7. CASE Ends
  BY <1>7 DEF Ends, BatchDone, DrainDone, GivesBack, frontier, buffer, Frontier
<1>8. CASE Drain
  <2>1. cur = 0 /\ cur' = 0
    BY <1>8 DEF Drain, request, Frontier
  <2>2. reorder' \subseteq gapMark'
    BY <1>8 DEF Drain, ClearGap, Frontier
  <2>3. cache' \subseteq recorded' /\ recorded' \subseteq 1..through' /\ cache' \cap expired' = {}
    BY <1>8, <1>p DEF Drain, Frontier
  <2> QED BY <2>1, <2>2, <2>3 DEF Frontier
<1>9. ASSUME NEW b \in SUBSET Published, Expire(b) PROVE Frontier'
  BY <1>9 DEF Expire, frontier, buffer, request, Frontier
<1>10. CASE ExpireMetadata
  <2>1. cur = 0 /\ cur' = 0
    BY <1>10 DEF ExpireMetadata, request, Frontier
  <2>2. reorder' \subseteq gapMark'
    BY <1>10 DEF ExpireMetadata, ClearGap, Frontier
  <2>3. cache' = cache /\ expired' = expired
    BY <1>10 DEF ExpireMetadata
  <2>4. \/ recorded' = recorded /\ through' = through
        \/ recorded' = {} /\ through' = 0 /\ recorded \subseteq expired
    BY <1>10 DEF ExpireMetadata
  <2>5. cache' \subseteq recorded' /\ recorded' \subseteq 1..through' /\ cache' \cap expired' = {}
    <3>1. CASE recorded' = recorded /\ through' = through
      BY <2>3, <3>1 DEF Frontier
    <3>2. CASE recorded' = {} /\ recorded \subseteq expired
      <4>1. cache = {}
        BY <3>2 DEF Frontier
      <4> QED BY <2>3, <3>2, <4>1
    <3> QED BY <2>4, <3>1, <3>2
  <2> QED BY <2>1, <2>2, <2>5 DEF Frontier
<1>11. ASSUME NEW L \in SUBSET Published, Repair(L) \/ Bootstrap(L) PROVE Frontier'
  <2> DEFINE S == {through} \cup (L \ cache)
  <2>1. S \subseteq 0..accepted /\ S # {}
    BY <1>p DEF IntakeTypes
  <2>2. Max(S) \in S /\ (\A k \in S : k <= Max(S)) /\ Max(S) \in 0..accepted
    BY ONLY <1>p, <2>1, MaxOf
  <2>3. through' = Max(S) /\ recorded' = recorded \cup (L \ cache) /\ cache' = cache \cup (L \ expired) /\ expired' = expired
    BY <1>11 DEF Repair, Bootstrap
  <2>4. through <= through' /\ through' \in Nat
    BY <2>2, <2>3
  <2>5. recorded' \subseteq 1..through'
    <3>1. ASSUME NEW x \in L \ cache PROVE x \in 1..through'
      <4>1. x \in S /\ x \in 1..accepted
        BY <1>p
      <4> QED BY <2>2, <2>3, <2>4, <4>1
    <3>2. recorded \subseteq 1..through'
      BY <1>p, <2>4 DEF Frontier
    <3> QED BY <2>3, <3>1, <3>2
  <2>6. cache' \subseteq recorded' /\ cache' \cap expired' = {}
    BY <2>3 DEF Frontier
  <2>7. cur = 0 /\ cur' = 0
    BY <1>11 DEF Repair, Bootstrap, Frontier
  <2>8. reorder' \subseteq gapMark'
    BY <1>11 DEF Repair, Bootstrap, ClearGap, buffer, Frontier
  <2> QED BY <2>5, <2>6, <2>7, <2>8 DEF Frontier
<1>12. CASE Forget
  BY <1>12 DEF Forget, Frontier
<1> QED BY <1>1, <1>2, <1>3, <1>4, <1>5, <1>6, <1>7, <1>8, <1>9, <1>10, <1>11, <1>12, Zenon
        DEF IntakeStep, Keeps, Carries, Promotes

\* The invariant of the receiving side.
ReceiverInv == Typed /\ Frontier

\* It holds in every reachable state.
LEMMA ReceiverInvariant == Spec => []ReceiverInv
<1>1. Init => ReceiverInv
  <2>1. Init => Frontier
    BY DEF Init, IntakeInit, Frontier
  <2> QED BY <2>1, TypedInit DEF ReceiverInv
<1>2. ASSUME ReceiverInv, [Next]_vars PROVE ReceiverInv'
  <2>1. Typed'
    BY <1>2, TypedStep DEF ReceiverInv
  <2>2. CASE Next
    <3>1. IntakeStep /\ IntakeTypes /\ Frontier
      BY <1>2, <2>2, IntakeOfNext DEF ReceiverInv, Typed
    <3>2. Frontier'
      BY ONLY <3>1, FrontierStep
    <3> QED BY <2>1, <3>2 DEF ReceiverInv
  <2>3. CASE UNCHANGED vars
    <3>1. UNCHANGED intakeVars
      BY <2>3 DEF vars
    <3> QED BY <1>2, <2>1, <3>1, FrontierSame DEF ReceiverInv
  <2> QED BY <1>2, <2>2, <2>3
<1> QED BY <1>1, <1>2, PTL DEF Spec

\* markUnsafeLocked, for every size of buffer and batch: while a live message waits behind a gap, the
\* topic's cursors stay marked unsafe.  The mark covers everything buffered, not only what is live.
THEOREM GapAlwaysMarked == Spec => []GapMarked
<1>1. ReceiverInv => GapMarked
  BY DEF ReceiverInv, Frontier, GapMarked
<1> QED BY <1>1, ReceiverInvariant, PTL

-----------------------------------------------------------------------------
(* Memory of the receiver.                                                  *)

\* Everything the receiver holds or, having admitted the batch, may still take.
Load == cache \cup reorder \cup ({cur} \ {0}) \cup {m \in todo : m > through}

LoadFits == reorderBytes = Cardinality(reorder) /\ Cardinality(Load) <= CacheMax

\* Sets of published messages are finite, and a difference has the size one expects.
LEMMA PublishedFinite ==
  ASSUME accepted \in Nat
  PROVE  /\ \A S \in SUBSET Published : IsFiniteSet(S) /\ Cardinality(S) \in Nat
         /\ \A S, T \in SUBSET Published : S \subseteq T => Cardinality(S) <= Cardinality(T)
         /\ \A S, T \in SUBSET Published : Cardinality(S \ T) = Cardinality(S) - Cardinality(S \cap T)
         /\ \A S, T \in SUBSET Published : Cardinality(S \cup T) <= Cardinality(S) + Cardinality(T)
<1>1. IsFiniteSet(Published)
  BY FS_Interval DEF Published
<1>2. \A S \in SUBSET Published : IsFiniteSet(S) /\ Cardinality(S) \in Nat
  BY <1>1, FS_Subset, FS_CardinalityType
<1>3. ASSUME NEW S \in SUBSET Published, NEW T \in SUBSET Published, S \subseteq T
      PROVE  Cardinality(S) <= Cardinality(T)
  BY <1>2, <1>3, FS_Subset
<1>4. ASSUME NEW S \in SUBSET Published, NEW T \in SUBSET Published
      PROVE  Cardinality(S \ T) = Cardinality(S) - Cardinality(S \cap T)
  BY <1>2, FS_Difference
<1>5. ASSUME NEW S \in SUBSET Published, NEW T \in SUBSET Published
      PROVE  Cardinality(S \cup T) <= Cardinality(S) + Cardinality(T)
  <2>1. Cardinality(S \cup T) = Cardinality(S) + Cardinality(T) - Cardinality(S \cap T)
    BY <1>2, FS_Union
  <2>2. S \cap T \in SUBSET Published
    OBVIOUS
  <2>3. Cardinality(S \cap T) \in Nat /\ Cardinality(S) \in Nat /\ Cardinality(T) \in Nat
    BY <1>2, <2>2
  <2> QED BY <2>1, <2>3
<1> QED BY <1>2, <1>3, <1>4, <1>5

\* The buffer's memory is what it holds.
LEMMA BytesStep ==
  ASSUME IntakeTypes, Frontier, reorderBytes = Cardinality(reorder), IntakeStep
  PROVE  reorderBytes' = Cardinality(reorder')
<1>p. Published = 1..accepted /\ accepted \in Nat /\ reorder \in SUBSET Published /\ todo \in SUBSET Published
  BY DEF Published, IntakeTypes
<1> HIDE DEF Published
<1>f. /\ IsFiniteSet(reorder) /\ Cardinality(reorder) \in Nat
      /\ \A T : Cardinality(reorder \ T) = Cardinality(reorder) - Cardinality(reorder \cap T)
      /\ \A m : m \notin reorder => Cardinality(reorder \cup {m}) = Cardinality(reorder) + 1
  <2>1. IsFiniteSet(reorder) /\ Cardinality(reorder) \in Nat
    BY <1>p, PublishedFinite
  <2>2. ASSUME NEW T PROVE Cardinality(reorder \ T) = Cardinality(reorder) - Cardinality(reorder \cap T)
    BY <2>1, FS_Difference
  <2>3. ASSUME NEW m, m \notin reorder PROVE Cardinality(reorder \cup {m}) = Cardinality(reorder) + 1
    BY <2>1, <2>3, FS_AddElement
  <2> QED BY <2>1, <2>2, <2>3
<1>r. ASSUME NEW T, reorder' = reorder \ T, reorderBytes' = reorderBytes - Cardinality(reorder \cap T)
      PROVE  reorderBytes' = Cardinality(reorder')
  BY <1>f, <1>r
<1>s. reorder' = reorder /\ reorderBytes' = reorderBytes => reorderBytes' = Cardinality(reorder')
  OBVIOUS
<1>1. CASE UNCHANGED intakeVars
  BY <1>1, <1>s, IntakeSame
<1>2. ASSUME NEW L \in SUBSET Published, Arrives(L) PROVE reorderBytes' = Cardinality(reorder')
  BY <1>2, <1>s DEF Arrives, Replicate, RepairRefused, buffer
<1>3. CASE Looks
  <2>1. PICK m \in todo : LookMissing(m) \/ LookDuplicate(m) \/ LookAhead(m) \/ LookNext(m)
    BY <1>3, Zenon DEF Looks
  <2>2. CASE LookMissing(m) \/ LookNext(m)
    BY <1>s, <2>2 DEF LookMissing, LookNext, buffer
  <2>3. CASE LookDuplicate(m)
    <3>1. /\ reorder' = reorder \ (reorder \cap {through + 1})
          /\ reorderBytes' = reorderBytes - Cardinality(reorder \cap {through + 1})
      BY <2>3 DEF LookDuplicate
    <3>2. reorder' = reorder \ {through + 1}
      BY <3>1
    <3> QED BY <1>r, <3>1, <3>2
  <2>4. CASE LookAhead(m)
    <3>1. \/ reorder' = reorder /\ reorderBytes' = reorderBytes
          \/ m \notin reorder /\ reorder' = reorder \cup {m} /\ reorderBytes' = reorderBytes + 1
      BY <2>4 DEF LookAhead, buffer
    <3> QED BY <1>f, <1>s, <3>1
  <2> QED BY <2>1, <2>2, <2>3, <2>4
<1>4. CASE Promote
  <2>1. /\ reorder' = reorder \ (reorder \cap {cur + 1})
        /\ reorderBytes' = reorderBytes - Cardinality(reorder \cap {cur + 1})
    BY <1>4 DEF Promote, Successor
  <2>2. reorder' = reorder \ {cur + 1}
    BY <2>1
  <2> QED BY <1>r, <2>1, <2>2
<1>5. CASE PromoteExpired
  <2>1. /\ reorder' = (reorder \ {cur}) \ ((reorder \ {cur}) \cap {cur + 1})
        /\ reorderBytes' = reorderBytes - Cardinality(reorder \cap {cur, cur + 1})
    BY <1>5 DEF PromoteExpired
  <2>2. reorder' = reorder \ {cur, cur + 1}
    BY <2>1
  <2> QED BY <1>r, <2>1, <2>2
<1>6. CASE PromoteRefused
  <2>1. CASE fromGap
    <3>1. cur \notin reorder
      BY <1>6, <2>1 DEF PromoteRefused, Frontier
    <3>2. reorder' = reorder \cup {cur} /\ reorderBytes' = reorderBytes + 1
      BY <1>6, <2>1 DEF PromoteRefused
    <3> QED BY <1>f, <3>1, <3>2
  <2>2. CASE ~fromGap
    BY <1>6, <1>s, <2>2 DEF PromoteRefused
  <2> QED BY <2>1, <2>2
<1>7. CASE Ends
  BY <1>7, <1>s DEF Ends, BatchDone, DrainDone, GivesBack, buffer
<1>8. CASE Drain
  <2>1. through + 1 \in reorder /\ reorder' = reorder \ {through + 1} /\ reorderBytes' = reorderBytes - 1
    BY <1>8 DEF Drain
  <2>2. Cardinality(reorder \ {through + 1}) = Cardinality(reorder) - 1
    BY <1>f, <2>1, FS_RemoveElement
  <2> QED BY <2>1, <2>2
<1>9. ASSUME NEW b \in SUBSET Published, Expire(b) PROVE reorderBytes' = Cardinality(reorder')
  BY <1>9, <1>s DEF Expire, buffer
<1>10. CASE ExpireMetadata
  <2>1. reorder' = reorder \ expired /\ reorderBytes' = reorderBytes - Cardinality(reorder \cap expired)
    BY <1>10 DEF ExpireMetadata
  <2> QED BY <1>r, <2>1
<1>11. ASSUME NEW L \in SUBSET Published, Repair(L) PROVE reorderBytes' = Cardinality(reorder')
  <2>1. reorder' = reorder \ L /\ reorderBytes' = reorderBytes - Cardinality(reorder \cap L)
    BY <1>11 DEF Repair
  <2> QED BY <1>r, <2>1
<1>12. ASSUME NEW L \in SUBSET Published, Bootstrap(L) PROVE reorderBytes' = Cardinality(reorder')
  BY <1>12, <1>s DEF Bootstrap, buffer
<1>13. CASE Forget
  BY <1>13, FS_EmptySet DEF Forget
<1> QED BY <1>1, <1>2, <1>3, <1>4, <1>5, <1>6, <1>7, <1>8, <1>9, <1>10, <1>11, <1>12, <1>13, Zenon
        DEF IntakeStep, Keeps, Carries, Promotes

\* After admission the load of a batch never grows: a message only moves from one place to the next.
LEMMA LoadShrinks ==
  ASSUME IntakeTypes, Frontier, Looks \/ Promotes \/ Ends \/ Drain \/ ExpireMetadata
  PROVE  Load' \subseteq Load
<1>p. Published = 1..accepted /\ accepted \in Nat /\ through \in Nat /\ cur \in Nat /\ todo \subseteq Nat
  BY DEF Published, IntakeTypes
<1>1. CASE Looks
  <2>1. PICK m \in todo : LookMissing(m) \/ LookDuplicate(m) \/ LookAhead(m) \/ LookNext(m)
    BY <1>1, Zenon DEF Looks
  <2>2. CASE LookMissing(m)
    BY <2>2 DEF LookMissing, Refuse, frontier, buffer, Load
  <2>3. CASE LookDuplicate(m)
    <3>1. reorder' \subseteq reorder /\ cache' = cache /\ through' = through /\ todo' \subseteq todo
      BY <2>3 DEF LookDuplicate, frontier
    <3>2. cur' = 0 \/ cur' \in reorder
      BY <2>3 DEF LookDuplicate
    <3> QED BY <3>1, <3>2 DEF Load
  <2>4. CASE LookAhead(m)
    <3>1. cache' = cache /\ through' = through /\ todo' \subseteq todo /\ cur' = 0 /\ m > through
      BY <1>p, <2>4 DEF LookAhead, Looking, Refuse, frontier
    <3>2. reorder' \subseteq reorder \cup {m}
      BY <2>4 DEF LookAhead, buffer
    <3> QED BY <3>1, <3>2 DEF Load
  <2>5. CASE LookNext(m)
    <3>1. cache' = cache /\ through' = through /\ todo' \subseteq todo /\ cur' = m /\ m > through /\ reorder' = reorder
      BY <1>p, <2>5 DEF LookNext, frontier, buffer
    <3> QED BY <3>1 DEF Load
  <2> QED BY <2>1, <2>2, <2>3, <2>4, <2>5
<1>2. CASE Promote \/ PromoteExpired
  <2>1. cur # 0 /\ cur = through + 1 /\ through' = cur /\ todo' = todo
    BY <1>2, <1>p DEF Promote, PromoteExpired, Frontier, Up
  <2>2. cache' \subseteq cache \cup {cur} /\ reorder' \subseteq reorder
    BY <1>2 DEF Promote, PromoteExpired, Successor
  <2>3. cur' = 0 \/ cur' \in reorder
    BY <1>2 DEF Promote, PromoteExpired, Successor
  <2>4. ASSUME NEW m \in todo', m > through' PROVE m \in todo /\ m > through
    <3>1. m \in todo /\ m \in Nat /\ m > through + 1
      BY <1>p, <2>1, <2>4
    <3> QED BY <1>p, <3>1
  <2> QED BY <2>1, <2>2, <2>3, <2>4 DEF Load
<1>3. CASE PromoteRefused
  <2>1. cur # 0 /\ cur' = 0 /\ todo' = {} /\ cache' = cache /\ reorder' \subseteq reorder \cup {cur}
    BY <1>3 DEF PromoteRefused, Refuse
  <2> QED BY <2>1 DEF Load
<1>4. CASE Ends
  <2>1. cur' = cur /\ todo' = todo /\ cache' = cache /\ reorder' = reorder /\ through' = through
    BY <1>4 DEF Ends, BatchDone, DrainDone, GivesBack, frontier, buffer
  <2> QED BY <2>1 DEF Load
<1>5. CASE Drain
  <2>1. cur' = cur /\ todo' = {} /\ cache' \subseteq cache \cup reorder /\ reorder' \subseteq reorder
    BY <1>5 DEF Drain, request, IntakeTypes
  <2> QED BY <2>1 DEF Load
<1>6. CASE ExpireMetadata
  <2>1. cur' = cur /\ todo' = {} /\ cache' = cache /\ reorder' \subseteq reorder
    BY <1>6 DEF ExpireMetadata, request, IntakeTypes
  <2> QED BY <2>1 DEF Load
<1> QED BY <1>1, <1>2, <1>3, <1>4, <1>5, <1>6 DEF Promotes

\* The load fits in memory after every step.
LEMMA LoadStep ==
  ASSUME IntakeTypes, Frontier, LoadFits, IntakeStep
  PROVE  LoadFits'
<1>1. reorderBytes' = Cardinality(reorder')
  BY BytesStep DEF LoadFits
<1>t. /\ accepted \in Nat /\ cache \in SUBSET Published /\ reorder \in SUBSET Published /\ todo \in SUBSET Published
      /\ through \in Nat /\ ({cur} \ {0}) \in SUBSET Published
  BY DEF IntakeTypes, Published
<1>f. /\ \A S \in SUBSET Published : IsFiniteSet(S) /\ Cardinality(S) \in Nat
      /\ \A S, T \in SUBSET Published : S \subseteq T => Cardinality(S) <= Cardinality(T)
      /\ \A S, T \in SUBSET Published : Cardinality(S \cup T) <= Cardinality(S) + Cardinality(T)
  BY <1>t, PublishedFinite
<1> HIDE DEF Published
<1>l. Load \in SUBSET Published
  BY <1>t DEF Load
<1>c. CacheMax \in Nat /\ Cardinality(Load) <= CacheMax /\ Cardinality(Load) \in Nat
  BY <1>f, <1>l, IntakeTyped DEF LoadFits
<1>s. ASSUME Load' \subseteq Load PROVE Cardinality(Load') <= CacheMax
  <2>1. Load' \in SUBSET Published
    BY <1>l, <1>s
  <2>2. Cardinality(Load') <= Cardinality(Load) /\ Cardinality(Load') \in Nat
    BY <1>f, <1>l, <1>s, <2>1
  <2> QED BY <1>c, <2>2
<1>a. ASSUME NEW N \in SUBSET Published, Fits(Cardinality(N)), Load' \subseteq cache \cup reorder \cup N
      PROVE  Cardinality(Load') <= CacheMax
  <2>1. Cardinality(cache) + Cardinality(reorder) + Cardinality(N) <= CacheMax
    BY <1>a DEF Fits, LoadFits
  <2>2. cache \cup reorder \in SUBSET Published /\ cache \cup reorder \cup N \in SUBSET Published /\ Load' \in SUBSET Published
    BY <1>t, <1>a
  <2>3. Cardinality(cache \cup reorder) <= Cardinality(cache) + Cardinality(reorder)
    BY <1>f, <1>t
  <2>4. Cardinality(cache \cup reorder \cup N) <= Cardinality(cache \cup reorder) + Cardinality(N)
    BY <1>f, <2>2
  <2>5. Cardinality(Load') <= Cardinality(cache \cup reorder \cup N)
    BY <1>f, <1>a, <2>2
  <2>6. /\ Cardinality(cache) \in Nat /\ Cardinality(reorder) \in Nat /\ Cardinality(N) \in Nat
        /\ Cardinality(cache \cup reorder) \in Nat /\ Cardinality(cache \cup reorder \cup N) \in Nat
        /\ Cardinality(Load') \in Nat
    BY <1>f, <1>t, <2>2
  <2> QED BY ONLY <1>c, <2>1, <2>3, <2>4, <2>5, <2>6
<1>2. ASSUME UNCHANGED intakeVars PROVE Cardinality(Load') <= CacheMax
  <2>1. Load' \subseteq Load
    BY <1>2, IntakeSame DEF Load
  <2> QED BY <1>s, <2>1
<1>3. ASSUME NEW L \in SUBSET Published, Replicate(L) PROVE Cardinality(Load') <= CacheMax
  <2>1. /\ cur = 0 /\ todo = {} /\ cur' = 0 /\ cache' = cache /\ reorder' = reorder /\ through' = through
    BY <1>3 DEF Replicate, frontier, buffer, IntakeTypes, Frontier
  <2>2. CASE todo' = {}
    <3>1. Load' \subseteq Load
      BY <2>1, <2>2 DEF Load
    <3> QED BY <1>s, <3>1
  <2>3. CASE Fits(Cardinality(Added(L))) /\ todo' = L
    <3>1. Load' \subseteq cache \cup reorder \cup Added(L)
      BY <2>1, <2>3 DEF Load, Added
    <3>2. Added(L) \in SUBSET Published
      BY DEF Added
    <3> QED BY <1>a, <2>3, <3>1, <3>2
  <2> QED BY <1>3, <2>2, <2>3 DEF Replicate
<1>4. ASSUME NEW L \in SUBSET Published, RepairRefused(L) PROVE Cardinality(Load') <= CacheMax
  <2>1. Load' \subseteq Load
    BY <1>4 DEF RepairRefused, frontier, buffer, Load
  <2> QED BY <1>s, <2>1
<1>5. ASSUME Looks \/ Promotes \/ Ends \/ Drain \/ ExpireMetadata PROVE Cardinality(Load') <= CacheMax
  <2>1. Load' \subseteq Load
    BY ONLY <1>5, IntakeTypes, Frontier, LoadShrinks
  <2> QED BY <1>s, <2>1
<1>6. ASSUME NEW b \in SUBSET Published, Expire(b) PROVE Cardinality(Load') <= CacheMax
  <2>1. Load' \subseteq Load
    BY <1>6 DEF Expire, frontier, buffer, request, Load
  <2> QED BY <1>s, <2>1
<1>7. ASSUME NEW L \in SUBSET Published, Repair(L) PROVE Cardinality(Load') <= CacheMax
  <2>1. cur = 0 /\ cur' = 0 /\ todo' = {} /\ cache' \subseteq cache \cup L /\ reorder' \subseteq reorder
    BY <1>7 DEF Repair, IntakeTypes, Frontier
  <2>2. Load' \subseteq cache \cup reorder \cup RepairAdded(L)
    BY <2>1 DEF Load, RepairAdded
  <2>3. RepairAdded(L) \in SUBSET Published /\ Fits(Cardinality(RepairAdded(L)))
    BY <1>7 DEF RepairAdded, Repair
  <2> QED BY <1>a, <2>2, <2>3
<1>8. ASSUME NEW L \in SUBSET Published, Bootstrap(L) PROVE Cardinality(Load') <= CacheMax
  <2>1. cur = 0 /\ cur' = 0 /\ todo' = {} /\ cache' \subseteq cache \cup L /\ reorder' = reorder
    BY <1>8 DEF Bootstrap, buffer, IntakeTypes, Frontier
  <2>2. Load' \subseteq cache \cup reorder \cup (L \ cache)
    BY <2>1 DEF Load
  <2>3. (L \ cache) \in SUBSET Published /\ Fits(Cardinality(L \ cache))
    BY <1>8 DEF Bootstrap
  <2> QED BY <1>a, <2>2, <2>3
<1>9. ASSUME Forget PROVE Cardinality(Load') <= CacheMax
  <2>1. Load' \subseteq Load
    BY <1>9 DEF Forget, Load
  <2> QED BY <1>s, <2>1
<1>10. Cardinality(Load') <= CacheMax
  BY <1>2, <1>3, <1>4, <1>5, <1>6, <1>7, <1>8, <1>9, Zenon DEF IntakeStep, Keeps, Carries, Arrives
<1> QED BY <1>1, <1>10 DEF LoadFits

\* acceptReplicatedBatch, acceptBatchLocked: for every limit and size of batch, reorderBytes is what
\* the buffer holds and the distinct messages held fit in maxBytes, although a batch is admitted
\* once and then taken message by message.
THEOREM ReplicaMemory == Spec => []ReplicaLedger
<1>1. Init => LoadFits
  <2> SUFFICES ASSUME Init PROVE LoadFits
    OBVIOUS
  <2>1. reorderBytes = 0 /\ reorder = {} /\ Load = {}
    BY DEF Init, IntakeInit, Load
  <2>2. Cardinality(Load) = 0 /\ Cardinality(reorder) = 0
    BY <2>1, FS_EmptySet
  <2> QED BY <2>1, <2>2, IntakeTyped DEF LoadFits
<1>2. ASSUME ReceiverInv, LoadFits, [Next]_vars PROVE LoadFits'
  <2>1. CASE Next
    <3>1. IntakeStep /\ IntakeTypes /\ Frontier
      BY <1>2, <2>1, IntakeOfNext DEF ReceiverInv, Typed
    <3> QED BY ONLY <1>2, <3>1, LoadStep
  <2>2. CASE UNCHANGED vars
    <3>1. UNCHANGED intakeVars
      BY <2>2 DEF vars
    <3>2. IntakeTypes /\ Frontier /\ IntakeStep
      BY <1>2, <3>1 DEF ReceiverInv, Typed, IntakeStep, Keeps
    <3> QED BY ONLY <1>2, <3>2, LoadStep
  <2> QED BY <1>2, <2>1, <2>2
<1>3. ReceiverInv /\ LoadFits => ReplicaLedger
  <2> SUFFICES ASSUME ReceiverInv, LoadFits PROVE ReplicaLedger
    OBVIOUS
  <2>t. /\ accepted \in Nat /\ cache \in SUBSET Published /\ reorder \in SUBSET Published /\ todo \in SUBSET Published
        /\ ({cur} \ {0}) \in SUBSET Published
    BY DEF ReceiverInv, Typed, IntakeTypes, Published
  <2>1. cache \cup reorder \in SUBSET Published /\ Load \in SUBSET Published /\ cache \cup reorder \subseteq Load
    BY <2>t DEF Load
  <2>2. Cardinality(cache \cup reorder) <= Cardinality(Load)
    BY <2>t, <2>1, PublishedFinite
  <2>3. Cardinality(cache \cup reorder) \in Nat /\ Cardinality(Load) \in Nat
    BY <2>t, <2>1, PublishedFinite
  <2> QED BY <2>2, <2>3, IntakeTyped DEF LoadFits, ReplicaLedger
<1> QED BY <1>1, <1>2, <1>3, ReceiverInvariant, PTL DEF Spec

\* Group memory never runs out at a message that waited in the buffer: neither a batch nor the drain
\* after a page leaves the successor of the frontier buffered.
SuccessorsTaken == ~(PromoteRefused /\ fromGap) /\ ~(DrainDone /\ through + 1 \in reorder)

\* Except during a drain, the buffer never holds the successor of the frontier.
NoneReady == op # "drain" => through + 1 \notin reorder

\* The load fits even when a message both cached and buffered counts twice.
Charged == Cardinality(Load) + Cardinality(cache \cap reorder) <= CacheMax

\* The frontier does not reach the buffer, if successors are taken.
LEMMA ReadyStep ==
  ASSUME IntakeTypes, Frontier, NoneReady, IntakeStep, SuccessorsTaken
  PROVE  NoneReady'
<1>p. Published = 1..accepted /\ accepted \in Nat /\ through \in Nat /\ cur \in Nat /\ todo \subseteq Nat
  BY DEF Published, IntakeTypes
<1> HIDE DEF Published
<1>s. op' = op /\ through' = through /\ reorder' \subseteq reorder => NoneReady'
  BY DEF NoneReady
<1>1. CASE UNCHANGED intakeVars
  BY <1>1, <1>s, IntakeSame
<1>2. ASSUME NEW L \in SUBSET Published, Arrives(L) PROVE NoneReady'
  BY <1>2 DEF Arrives, Replicate, RepairRefused, frontier, buffer, NoneReady
<1>3. CASE Looks
  <2>1. PICK m \in todo : LookMissing(m) \/ LookDuplicate(m) \/ LookAhead(m) \/ LookNext(m)
    BY <1>3, Zenon DEF Looks
  <2>2. op = "batch" /\ through' = through
    BY <2>1 DEF LookMissing, LookDuplicate, LookAhead, LookNext, Looking, frontier
  <2>3. CASE LookAhead(m)
    <3>1. m > through + 1 /\ reorder' \subseteq reorder \cup {m}
      BY <2>3 DEF LookAhead, buffer
    <3>2. m # through + 1
      BY <1>p, <3>1
    <3> QED BY <2>2, <3>1, <3>2 DEF NoneReady
  <2>4. CASE LookMissing(m) \/ LookDuplicate(m) \/ LookNext(m)
    <3>1. reorder' \subseteq reorder
      BY <2>4 DEF LookMissing, LookDuplicate, LookNext, buffer
    <3> QED BY <2>2, <3>1 DEF NoneReady
  <2> QED BY <2>1, <2>3, <2>4
<1>4. CASE Promote \/ PromoteExpired
  <2>1. cur # 0 /\ cur = through + 1
    BY <1>4 DEF Promote, PromoteExpired, Frontier
  <2>2. through' = cur
    BY <1>4, <1>p, <2>1 DEF Promote, PromoteExpired, Up
  <2>3. cur + 1 \notin reorder'
    BY <1>4 DEF Promote, PromoteExpired, Successor
  <2> QED BY <2>2, <2>3 DEF NoneReady
<1>5. CASE PromoteRefused
  <2>1. ~fromGap
    BY <1>5, Zenon DEF SuccessorsTaken
  <2>2. op = "batch" /\ through' = through /\ reorder' = reorder
    BY <1>5, <2>1 DEF PromoteRefused, frontier
  <2> QED BY <2>2 DEF NoneReady
<1>6. CASE DrainDone
  <2>1. through + 1 \notin reorder
    BY <1>6 DEF SuccessorsTaken
  <2>2. through' = through /\ reorder' = reorder
    BY <1>6 DEF DrainDone, frontier, buffer
  <2> QED BY <2>1, <2>2 DEF NoneReady
<1>7. CASE BatchDone \/ GivesBack
  <2>1. op # "drain" /\ through' = through /\ reorder' = reorder
    BY <1>7 DEF BatchDone, GivesBack, frontier, buffer
  <2> QED BY <2>1 DEF NoneReady
<1>8. CASE Drain
  <2>1. op' = "drain"
    BY <1>8 DEF Drain, request
  <2> QED BY <2>1 DEF NoneReady
<1>9. ASSUME NEW b \in SUBSET Published, Expire(b) PROVE NoneReady'
  BY <1>9, <1>s DEF Expire, frontier, buffer, request
<1>10. CASE ExpireMetadata
  <2>1. op = "idle" /\ reorder' \subseteq reorder /\ (through' = through \/ reorder = {})
    BY <1>10 DEF ExpireMetadata
  <2> QED BY <2>1 DEF NoneReady
<1>11. ASSUME NEW L \in SUBSET Published, Repair(L) \/ Bootstrap(L) PROVE NoneReady'
  <2>1. op' = "drain"
    BY <1>11 DEF Repair, Bootstrap
  <2> QED BY <2>1 DEF NoneReady
<1>12. CASE Forget
  BY <1>12 DEF Forget, NoneReady
<1> QED BY <1>1, <1>2, <1>3, <1>4, <1>5, <1>6, <1>7, <1>8, <1>9, <1>10, <1>11, <1>12, Zenon
        DEF IntakeStep, Keeps, Carries, Promotes, Ends

\* A message moves from the buffer to the cache and is not in both for it, if successors are taken.
LEMMA SharedShrinks ==
  ASSUME IntakeTypes, Frontier, NoneReady, SuccessorsTaken, Looks \/ Promotes \/ Ends \/ Drain \/ ExpireMetadata
  PROVE  cache' \cap reorder' \subseteq cache \cap reorder
<1>p. through \in Nat /\ cur \in Nat /\ todo \subseteq Nat /\ \A m \in cache : m <= through
  BY DEF IntakeTypes, Frontier, Published
<1>1. CASE Looks
  <2>1. PICK m \in todo : LookMissing(m) \/ LookDuplicate(m) \/ LookAhead(m) \/ LookNext(m)
    BY <1>1, Zenon DEF Looks
  <2>2. cache' = cache
    BY <2>1 DEF LookMissing, LookDuplicate, LookAhead, LookNext
  <2>3. CASE LookAhead(m)
    <3>1. m > through + 1 /\ reorder' \subseteq reorder \cup {m}
      BY <2>3 DEF LookAhead, buffer
    <3>2. m \notin cache
      BY <1>p, <3>1
    <3> QED BY <2>2, <3>1, <3>2
  <2>4. CASE LookMissing(m) \/ LookDuplicate(m) \/ LookNext(m)
    <3>1. reorder' \subseteq reorder
      BY <2>4 DEF LookMissing, LookDuplicate, LookNext, buffer
    <3> QED BY <2>2, <3>1
  <2> QED BY <2>1, <2>3, <2>4
<1>2. CASE Promote \/ PromoteExpired
  <2>1. cur # 0 /\ cur = through + 1 /\ op = "batch"
    BY <1>2 DEF Promote, PromoteExpired, Frontier
  <2>2. cur \notin reorder
    BY <2>1 DEF NoneReady
  <2>3. cache' \subseteq cache \cup {cur} /\ reorder' \subseteq reorder
    BY <1>2 DEF Promote, PromoteExpired, Successor
  <2> QED BY <2>2, <2>3
<1>3. CASE PromoteRefused
  <2>1. ~fromGap
    BY <1>3, Zenon DEF SuccessorsTaken
  <2>2. cache' = cache /\ reorder' = reorder
    BY <1>3, <2>1 DEF PromoteRefused
  <2> QED BY <2>2
<1>4. CASE Ends
  BY <1>4 DEF Ends, BatchDone, DrainDone, GivesBack, buffer
<1>5. CASE Drain
  <2>1. cache' \subseteq cache \cup {through + 1} /\ reorder' = reorder \ {through + 1}
    BY <1>5 DEF Drain
  <2> QED BY <2>1
<1>6. CASE ExpireMetadata
  BY <1>6 DEF ExpireMetadata
<1> QED BY <1>1, <1>2, <1>3, <1>4, <1>5, <1>6 DEF Promotes

\* The load, copies counted one by one, fits in memory after every step that takes the successors.
LEMMA ChargedStep ==
  ASSUME IntakeTypes, Frontier, reorderBytes = Cardinality(reorder), NoneReady, Charged, IntakeStep, SuccessorsTaken
  PROVE  Charged'
<1>t. /\ accepted \in Nat /\ cache \in SUBSET Published /\ reorder \in SUBSET Published /\ todo \in SUBSET Published
      /\ through \in Nat /\ ({cur} \ {0}) \in SUBSET Published
  BY DEF IntakeTypes, Published
<1>f. /\ \A S \in SUBSET Published : IsFiniteSet(S) /\ Cardinality(S) \in Nat
      /\ \A S, T \in SUBSET Published : S \subseteq T => Cardinality(S) <= Cardinality(T)
      /\ \A S, T \in SUBSET Published : Cardinality(S \cup T) <= Cardinality(S) + Cardinality(T)
  BY <1>t, PublishedFinite
<1> HIDE DEF Published
<1>u. \A S, T \in SUBSET Published :
        Cardinality(S \cup T) + Cardinality(S \cap T) = Cardinality(S) + Cardinality(T)
  <2> TAKE S, T \in SUBSET Published
  <2>1. IsFiniteSet(S) /\ IsFiniteSet(T) /\ S \cap T \in SUBSET Published
    BY <1>f
  <2>2. Cardinality(S \cup T) = Cardinality(S) + Cardinality(T) - Cardinality(S \cap T)
    BY <2>1, FS_Union
  <2>3. Cardinality(S) \in Nat /\ Cardinality(T) \in Nat /\ Cardinality(S \cap T) \in Nat
    BY <1>f, <2>1
  <2> QED BY ONLY <2>2, <2>3
<1>l. Load \in SUBSET Published /\ cache \cap reorder \in SUBSET Published
  BY <1>t DEF Load
<1>c. /\ CacheMax \in Nat /\ Cardinality(Load) + Cardinality(cache \cap reorder) <= CacheMax
      /\ Cardinality(Load) \in Nat /\ Cardinality(cache \cap reorder) \in Nat
      /\ Cardinality(cache) \in Nat /\ Cardinality(reorder) \in Nat
  BY <1>f, <1>l, <1>t, IntakeTyped DEF Charged
<1>s. ASSUME Load' \subseteq Load, cache' \cap reorder' \subseteq cache \cap reorder PROVE Charged'
  <2>1. Load' \in SUBSET Published /\ cache' \cap reorder' \in SUBSET Published
    BY <1>l, <1>s
  <2>2. Cardinality(Load') <= Cardinality(Load) /\ Cardinality(Load') \in Nat
    BY <1>f, <1>l, <1>s, <2>1
  <2>3. /\ Cardinality(cache' \cap reorder') <= Cardinality(cache \cap reorder)
        /\ Cardinality(cache' \cap reorder') \in Nat
    BY <1>f, <1>l, <1>s, <2>1
  <2>4. Cardinality(Load') + Cardinality(cache' \cap reorder') <= CacheMax
    BY ONLY <1>c, <2>2, <2>3
  <2> QED BY <2>4 DEF Charged
<1>a. ASSUME NEW N \in SUBSET Published, Fits(Cardinality(N)), Load' \subseteq cache \cup reorder \cup N,
             cache' \cap reorder' \subseteq cache \cap reorder
      PROVE  Charged'
  <2>1. Cardinality(cache) + Cardinality(reorder) + Cardinality(N) <= CacheMax
    BY <1>a DEF Fits
  <2>2. /\ cache \cup reorder \in SUBSET Published /\ cache \cup reorder \cup N \in SUBSET Published
        /\ Load' \in SUBSET Published /\ cache' \cap reorder' \in SUBSET Published
    BY <1>t, <1>a
  <2>3. Cardinality(cache \cup reorder) + Cardinality(cache \cap reorder) = Cardinality(cache) + Cardinality(reorder)
    BY <1>u, <1>t
  <2>4. Cardinality(cache \cup reorder \cup N) <= Cardinality(cache \cup reorder) + Cardinality(N)
    BY <1>f, <2>2
  <2>5. Cardinality(Load') <= Cardinality(cache \cup reorder \cup N)
    BY <1>f, <1>a, <2>2
  <2>6. Cardinality(cache' \cap reorder') <= Cardinality(cache \cap reorder)
    BY <1>f, <1>a, <1>l, <2>2
  <2>7. /\ Cardinality(N) \in Nat /\ Cardinality(Load') \in Nat /\ Cardinality(cache' \cap reorder') \in Nat
        /\ Cardinality(cache \cup reorder) \in Nat /\ Cardinality(cache \cup reorder \cup N) \in Nat
    BY <1>f, <1>t, <2>2
  <2>8. Cardinality(Load') + Cardinality(cache' \cap reorder') <= CacheMax
    BY ONLY <1>c, <2>1, <2>3, <2>4, <2>5, <2>6, <2>7
  <2> QED BY <2>8 DEF Charged
<1>2. CASE UNCHANGED intakeVars
  <2>1. Load' \subseteq Load /\ cache' \cap reorder' \subseteq cache \cap reorder
    BY <1>2, IntakeSame DEF Load
  <2> QED BY <1>s, <2>1
<1>3. ASSUME NEW L \in SUBSET Published, Replicate(L) PROVE Charged'
  <2>1. /\ cur = 0 /\ todo = {} /\ cur' = 0 /\ cache' = cache /\ reorder' = reorder /\ through' = through
    BY <1>3 DEF Replicate, frontier, buffer, IntakeTypes, Frontier
  <2>2. CASE todo' = {}
    <3>1. Load' \subseteq Load /\ cache' \cap reorder' \subseteq cache \cap reorder
      BY <2>1, <2>2 DEF Load
    <3> QED BY <1>s, <3>1
  <2>3. CASE Fits(Cardinality(Added(L))) /\ todo' = L
    <3>1. Load' \subseteq cache \cup reorder \cup Added(L)
      BY <2>1, <2>3 DEF Load, Added
    <3>2. Added(L) \in SUBSET Published /\ cache' \cap reorder' \subseteq cache \cap reorder
      BY <2>1 DEF Added
    <3> QED BY <1>a, <2>3, <3>1, <3>2
  <2> QED BY <1>3, <2>2, <2>3 DEF Replicate
<1>4. ASSUME NEW L \in SUBSET Published, RepairRefused(L) PROVE Charged'
  <2>1. Load' \subseteq Load /\ cache' \cap reorder' \subseteq cache \cap reorder
    BY <1>4 DEF RepairRefused, frontier, buffer, Load
  <2> QED BY <1>s, <2>1
<1>5. CASE Looks \/ Promotes \/ Ends \/ Drain \/ ExpireMetadata
  <2>1. Load' \subseteq Load
    BY ONLY <1>5, IntakeTypes, Frontier, LoadShrinks
  <2>2. cache' \cap reorder' \subseteq cache \cap reorder
    BY ONLY <1>5, IntakeTypes, Frontier, NoneReady, SuccessorsTaken, SharedShrinks
  <2> QED BY <1>s, <2>1, <2>2
<1>6. ASSUME NEW b \in SUBSET Published, Expire(b) PROVE Charged'
  <2>1. Load' \subseteq Load /\ cache' \cap reorder' \subseteq cache \cap reorder
    BY <1>6 DEF Expire, frontier, buffer, request, Load
  <2> QED BY <1>s, <2>1
<1>7. ASSUME NEW L \in SUBSET Published, Repair(L) PROVE Charged'
  <2>1. cur = 0 /\ cur' = 0 /\ todo' = {} /\ cache' \subseteq cache \cup L /\ reorder' = reorder \ L
    BY <1>7 DEF Repair, IntakeTypes, Frontier
  <2>2. Load' \subseteq cache \cup reorder \cup RepairAdded(L) /\ cache' \cap reorder' \subseteq cache \cap reorder
    BY <2>1 DEF Load, RepairAdded
  <2>3. RepairAdded(L) \in SUBSET Published /\ Fits(Cardinality(RepairAdded(L)))
    BY <1>7 DEF RepairAdded, Repair
  <2> QED BY <1>a, <2>2, <2>3
<1>8. ASSUME NEW L \in SUBSET Published, Bootstrap(L) PROVE Charged'
  <2>1. cur = 0 /\ cur' = 0 /\ todo' = {} /\ cache' \subseteq cache \cup (L \ cache) /\ reorder' = reorder
    BY <1>8 DEF Bootstrap, buffer, IntakeTypes, Frontier
  <2>2. Load' = cache' \cup reorder' /\ (L \ cache) \in SUBSET Published /\ cache' \in SUBSET Published
    BY <1>t, <2>1 DEF Load
  <2>3. Cardinality(Load') + Cardinality(cache' \cap reorder') = Cardinality(cache') + Cardinality(reorder)
    BY <1>t, <1>u, <2>1, <2>2
  <2>4. Cardinality(cache') <= Cardinality(cache \cup (L \ cache))
    <3>1. cache \cup (L \ cache) \in SUBSET Published
      BY <1>t
    <3> QED BY <1>f, <2>1, <2>2, <3>1
  <2>5. Cardinality(cache \cup (L \ cache)) <= Cardinality(cache) + Cardinality(L \ cache)
    BY <1>f, <1>t, <2>2
  <2>6. Cardinality(cache) + Cardinality(reorder) + Cardinality(L \ cache) <= CacheMax
    BY <1>8 DEF Bootstrap, Fits
  <2>7. /\ Cardinality(cache') \in Nat /\ Cardinality(cache \cup (L \ cache)) \in Nat
        /\ Cardinality(L \ cache) \in Nat
    <3>1. cache \cup (L \ cache) \in SUBSET Published
      BY <1>t
    <3> QED BY <1>f, <2>2, <3>1
  <2>8. Cardinality(Load') + Cardinality(cache' \cap reorder') <= CacheMax
    BY ONLY <1>c, <2>3, <2>4, <2>5, <2>6, <2>7
  <2> QED BY <2>8 DEF Charged
<1>9. CASE Forget
  <2>1. Load' \subseteq Load /\ cache' \cap reorder' \subseteq cache \cap reorder
    BY <1>9 DEF Forget, Load
  <2> QED BY <1>s, <2>1
<1> QED BY <1>2, <1>3, <1>4, <1>5, <1>6, <1>7, <1>8, <1>9, Zenon DEF IntakeStep, Keeps, Carries, Arrives

\* acceptReplicatedBatch, acceptBatchLocked: for every limit and size of batch, the copies the replica
\* keeps, cached and buffered, fit in maxBytes as long as group memory never runs out at a buffered
\* message: duplicates, late requests, repair passes and bootstrap pages alone never exceed it.
THEOREM CopiesFit == Spec /\ [][SuccessorsTaken]_vars => []MemoryBounded
<1> DEFINE Ledger == reorderBytes = Cardinality(reorder)
<1>1. Init => Ledger /\ NoneReady /\ Charged
  <2> SUFFICES ASSUME Init PROVE Ledger /\ NoneReady /\ Charged
    OBVIOUS
  <2>1. reorderBytes = 0 /\ reorder = {} /\ Load = {} /\ cache \cap reorder = {}
    BY DEF Init, IntakeInit, Load
  <2>2. Cardinality({}) = 0
    BY FS_EmptySet
  <2> QED BY <2>1, <2>2, IntakeTyped DEF NoneReady, Charged
<1>2. ASSUME ReceiverInv, Ledger, NoneReady, Charged, [Next]_vars, [SuccessorsTaken]_vars
      PROVE  Ledger' /\ NoneReady' /\ Charged'
  <2>1. CASE Next /\ SuccessorsTaken
    <3>1. IntakeStep /\ IntakeTypes /\ Frontier
      BY <1>2, <2>1, IntakeOfNext DEF ReceiverInv, Typed
    <3>2. reorderBytes = Cardinality(reorder) /\ NoneReady /\ Charged /\ SuccessorsTaken
      BY <1>2, <2>1
    <3>3. reorderBytes' = Cardinality(reorder')
      BY ONLY <3>1, <3>2, BytesStep
    <3>4. NoneReady'
      BY ONLY <3>1, <3>2, ReadyStep
    <3>5. Charged'
      BY ONLY <3>1, <3>2, ChargedStep
    <3> QED BY <3>3, <3>4, <3>5
  <2>2. CASE UNCHANGED vars
    <3>1. UNCHANGED intakeVars
      BY <2>2 DEF vars
    <3> QED BY <1>2, <3>1, IntakeSame DEF NoneReady, Charged, Load
  <2> QED BY <1>2, <2>1, <2>2
<1>3. ReceiverInv /\ Ledger /\ Charged => MemoryBounded
  <2> SUFFICES ASSUME ReceiverInv, Ledger, Charged PROVE MemoryBounded
    OBVIOUS
  <2>t. /\ accepted \in Nat /\ cache \in SUBSET Published /\ reorder \in SUBSET Published /\ todo \in SUBSET Published
        /\ ({cur} \ {0}) \in SUBSET Published
    BY DEF ReceiverInv, Typed, IntakeTypes, Published
  <2>1. /\ cache \cup reorder \in SUBSET Published /\ Load \in SUBSET Published /\ cache \cup reorder \subseteq Load
        /\ cache \cap reorder \in SUBSET Published
    BY <2>t DEF Load
  <2>2. Cardinality(cache \cup reorder) <= Cardinality(Load)
    BY <2>t, <2>1, PublishedFinite
  <2>3. IsFiniteSet(cache) /\ IsFiniteSet(reorder)
    BY <2>t, PublishedFinite
  <2>4. Cardinality(cache \cup reorder) = Cardinality(cache) + Cardinality(reorder) - Cardinality(cache \cap reorder)
    BY <2>3, FS_Union
  <2>5. /\ Cardinality(cache) \in Nat /\ Cardinality(reorder) \in Nat /\ Cardinality(cache \cap reorder) \in Nat
        /\ Cardinality(Load) \in Nat /\ Cardinality(cache \cup reorder) \in Nat /\ CacheMax \in Nat
    BY <2>t, <2>1, PublishedFinite, IntakeTyped
  <2>6. Cardinality(Load) + Cardinality(cache \cap reorder) <= CacheMax
    BY DEF Charged
  <2>7. Cardinality(cache) + Cardinality(reorder) <= CacheMax
    BY ONLY <2>2, <2>4, <2>5, <2>6
  <2> QED BY <2>7 DEF MemoryBounded
<1> QED BY <1>1, <1>2, <1>3, ReceiverInvariant, PTL DEF Spec

-----------------------------------------------------------------------------
(* What the receiver confirmed.                                             *)

\* The message taken out of the buffer and not yet promoted, if there is one.
Taken == {x \in {cur} : fromGap /\ x # 0}
Buffered == reorder \cup Taken
Shown == cache \cup expired
Held == cache \cup Buffered \cup expired

\* The receiver loses nothing that it holds or shows, unless its process restarts.
LEMMA HeldGrows ==
  ASSUME IntakeTypes, Frontier, Keeps
  PROVE  Held \subseteq Held' /\ Shown \subseteq Shown'
<1>p. through \in Nat /\ cur \in Nat /\ todo \subseteq Nat
  BY DEF Published, IntakeTypes
<1>u. ASSUME cache \subseteq cache' \cup expired', expired \subseteq expired',
             reorder \subseteq cache' \cup expired' \cup reorder' \cup Taken',
             Taken \subseteq cache' \cup expired' \cup reorder' \cup Taken'
      PROVE  Held \subseteq Held' /\ Shown \subseteq Shown'
  BY <1>u DEF Held, Shown, Buffered
<1>n. cur = 0 => Taken = {}
  BY DEF Taken
<1>1. CASE UNCHANGED intakeVars
  <2>1. ASSUME NEW x \in Taken PROVE x \in Taken'
    <3>1. fromGap /\ x = cur /\ x # 0
      BY <2>1 DEF Taken
    <3>2. fromGap' = fromGap /\ cur' = cur
      BY <1>1, IntakeSame
    <3>3. fromGap'
      BY <3>1, <3>2, Zenon
    <3> QED BY <3>1, <3>2, <3>3 DEF Taken
  <2> QED BY <1>1, <1>u, <2>1, IntakeSame
<1>2. ASSUME NEW L \in SUBSET Published, Arrives(L) PROVE Held \subseteq Held' /\ Shown \subseteq Shown'
  <2>1. cur = 0 /\ cache' = cache /\ expired' = expired /\ reorder' = reorder
    BY <1>2 DEF Arrives, Replicate, RepairRefused, buffer, Frontier
  <2> QED BY <1>u, <1>n, <2>1
<1>3. CASE Looks
  <2>1. PICK m \in todo : LookMissing(m) \/ LookDuplicate(m) \/ LookAhead(m) \/ LookNext(m)
    BY <1>3, Zenon DEF Looks
  <2>0. cur = 0 /\ cache' = cache /\ expired' = expired
    BY <2>1 DEF LookMissing, LookDuplicate, LookAhead, LookNext, Looking
  <2>2. CASE LookMissing(m) \/ LookNext(m) \/ LookAhead(m)
    <3>1. reorder \subseteq reorder'
      BY <2>2 DEF LookMissing, LookNext, LookAhead, buffer
    <3> QED BY <1>u, <1>n, <2>0, <3>1
  <2>3. CASE LookDuplicate(m)
    <3>1. ASSUME NEW x \in reorder PROVE x \in reorder' \cup Taken'
      <4>1. CASE x = through + 1
        <5>1. cur' = x /\ x # 0
          BY <1>p, <2>3, <4>1 DEF LookDuplicate
        <5>2. fromGap'
          <6>1. reorder \cap {through + 1} # {}
            BY <4>1
          <6> QED BY <2>3, <6>1, Zenon DEF LookDuplicate
        <5> QED BY <5>1, <5>2 DEF Taken
      <4>2. CASE x # through + 1
        BY <2>3, <4>2 DEF LookDuplicate
      <4> QED BY <4>1, <4>2
    <3> QED BY <1>u, <1>n, <2>0, <3>1
  <2> QED BY <2>1, <2>2, <2>3
<1>4. CASE Promote
  <2>1. cache' = cache \cup {cur} /\ expired' = expired
    BY <1>4 DEF Promote
  <2>2. ASSUME NEW x \in reorder PROVE x \in reorder' \cup Taken'
    <3>1. CASE x = cur + 1
      <4>1. cur' = x /\ x # 0
        BY <1>p, <1>4, <3>1 DEF Promote, Successor
      <4>2. fromGap'
        <5>1. reorder \cap {cur + 1} # {}
          BY <3>1
        <5> QED BY <1>4, <5>1, Zenon DEF Promote, Successor
      <4> QED BY <4>1, <4>2 DEF Taken
    <3>2. CASE x # cur + 1
      BY <1>4, <3>2 DEF Promote, Successor
    <3> QED BY <3>1, <3>2
  <2>3. Taken \subseteq cache'
    BY <2>1 DEF Taken
  <2> QED BY <1>u, <2>1, <2>2, <2>3
<1>5. CASE PromoteExpired
  <2>1. cache' = cache /\ expired' = expired /\ cur \in expired
    BY <1>5 DEF PromoteExpired
  <2>2. ASSUME NEW x \in reorder, x \notin expired PROVE x \in reorder' \cup Taken'
    <3>1. CASE x = cur + 1
      <4>0. x \in (reorder \ {cur}) \cap {cur + 1}
        BY <2>1, <2>2, <3>1
      <4>1. cur' = x /\ x # 0
        BY <1>p, <1>5, <3>1, <4>0 DEF PromoteExpired
      <4>2. fromGap'
        <5>1. (reorder \ {cur}) \cap {cur + 1} # {}
          BY <4>0
        <5> QED BY <1>5, <5>1, Zenon DEF PromoteExpired
      <4> QED BY <4>1, <4>2 DEF Taken
    <3>2. CASE x # cur + 1
      BY <1>5, <2>1, <2>2, <3>2 DEF PromoteExpired
    <3> QED BY <3>1, <3>2
  <2>3. Taken \subseteq expired'
    BY <2>1 DEF Taken
  <2> QED BY <1>u, <2>1, <2>2, <2>3
<1>6. CASE PromoteRefused
  <2>1. cache' = cache /\ expired' = expired
    BY <1>6 DEF PromoteRefused
  <2>2. reorder \subseteq reorder' /\ (fromGap => cur \in reorder')
    BY <1>6 DEF PromoteRefused
  <2>3. Taken \subseteq reorder'
    BY <2>2 DEF Taken
  <2> QED BY <1>u, <2>1, <2>2, <2>3
<1>7. CASE Ends
  <2>1. cur = 0 /\ cache' = cache /\ expired' = expired /\ reorder' = reorder
    BY <1>7 DEF Ends, BatchDone, DrainDone, GivesBack, buffer, Frontier
  <2> QED BY <1>u, <1>n, <2>1
<1>8. CASE Drain
  <2>1. cur = 0 /\ expired' = expired /\ cache \subseteq cache'
    BY <1>8 DEF Drain, Frontier
  <2>2. ASSUME NEW x \in reorder PROVE x \in cache' \cup expired' \cup reorder'
    BY <1>8 DEF Drain
  <2> QED BY <1>u, <1>n, <2>1, <2>2
<1>9. ASSUME NEW b \in SUBSET Published, Expire(b) PROVE Held \subseteq Held' /\ Shown \subseteq Shown'
  <2>1. cur = 0 /\ expired' = expired \cup b /\ cache' = cache \ b /\ reorder' = reorder
    BY <1>9 DEF Expire, buffer, Frontier
  <2> QED BY <1>u, <1>n, <2>1
<1>10. CASE ExpireMetadata
  <2>1. cur = 0 /\ expired' = expired /\ cache' = cache /\ reorder' = reorder \ expired
    BY <1>10 DEF ExpireMetadata, Frontier
  <2> QED BY <1>u, <1>n, <2>1
<1>11. ASSUME NEW L \in SUBSET Published, Repair(L) \/ Bootstrap(L)
       PROVE  Held \subseteq Held' /\ Shown \subseteq Shown'
  <2>1. /\ cur = 0 /\ expired' = expired /\ cache' = cache \cup (L \ expired)
        /\ reorder' = reorder \/ reorder' = reorder \ L
    BY <1>11 DEF Repair, Bootstrap, buffer, Frontier
  <2> QED BY <1>u, <1>n, <2>1
<1> HIDE DEF Held, Shown
<1> QED BY <1>1, <1>2, <1>3, <1>4, <1>5, <1>6, <1>7, <1>8, <1>9, <1>10, <1>11, Zenon
        DEF Keeps, Carries, Promotes

\* The part of a request that the receiver is done with is held.
RequestHeld ==
  /\ op = "batch" => live \ todo \subseteq cache \cup reorder \cup expired \cup {cur}
  /\ op \in {"drain", "accepted"} => live \subseteq cache \cup reorder \cup expired

\* It stays so message by message.
LEMMA RequestHeldStep ==
  ASSUME IntakeTypes, Frontier, RequestHeld, IntakeStep
  PROVE  RequestHeld'
<1>p. through \in Nat /\ cur \in Nat /\ todo \subseteq live /\ 0 \notin live /\ live \subseteq Nat
  BY DEF Published, IntakeTypes
<1>i. op' \in {"idle", "refused"} => RequestHeld'
  BY DEF RequestHeld
<1>1. CASE UNCHANGED intakeVars
  BY <1>1, IntakeSame DEF RequestHeld
<1>2. ASSUME NEW L \in SUBSET Published, Arrives(L) PROVE RequestHeld'
  <2>1. op' = "refused" \/ (op' = "batch" /\ todo' = live')
    BY <1>2 DEF Arrives, Replicate, RepairRefused
  <2> QED BY <2>1 DEF RequestHeld
<1>3. CASE Looks
  <2>1. PICK m \in todo : LookMissing(m) \/ LookDuplicate(m) \/ LookAhead(m) \/ LookNext(m)
    BY <1>3, Zenon DEF Looks
  <2>0. op = "batch" /\ cur = 0 /\ live' = live /\ cache' = cache /\ expired' = expired
    BY <2>1 DEF LookMissing, LookDuplicate, LookAhead, LookNext, Looking
  <2>h. live \ todo \subseteq cache \cup reorder \cup expired
    BY <1>p, <2>0 DEF RequestHeld
  <2>2. CASE LookMissing(m)
    BY <1>i, <2>2 DEF LookMissing, Refuse
  <2>3. CASE LookDuplicate(m)
    <3>1. todo' = todo \ {m} /\ (m \in cache \/ m \in expired) /\ op' = "batch"
      BY <2>0, <2>3 DEF LookDuplicate
    <3>2. reorder \subseteq reorder' \cup {cur'}
      BY <2>3 DEF LookDuplicate
    <3> QED BY <2>0, <2>h, <3>1, <3>2 DEF RequestHeld
  <2>4. CASE LookAhead(m)
    <3>1. CASE op' = "refused"
      BY <1>i, <3>1
    <3>2. CASE op' # "refused"
      <4>1. op' = "batch" /\ todo' = todo \ {m} /\ reorder \cup {m} \subseteq reorder'
        BY <2>0, <2>4, <3>2 DEF LookAhead, Refuse, buffer
      <4> QED BY <2>0, <2>h, <4>1 DEF RequestHeld
    <3> QED BY <3>1, <3>2
  <2>5. CASE LookNext(m)
    <3>1. todo' = todo \ {m} /\ cur' = m /\ op' = "batch" /\ reorder' = reorder
      BY <2>0, <2>5 DEF LookNext, buffer
    <3> QED BY <2>0, <2>h, <3>1 DEF RequestHeld
  <2> QED BY <2>1, <2>2, <2>3, <2>4, <2>5
<1>4. CASE Promote \/ PromoteExpired
  <2>1. op = "batch" /\ op' = "batch" /\ live' = live /\ todo' = todo /\ expired' = expired
    BY <1>4 DEF Promote, PromoteExpired
  <2>2. cache \subseteq cache' /\ (cur \in cache' \/ cur \in expired)
    BY <1>4 DEF Promote, PromoteExpired
  <2>3. reorder \subseteq reorder' \cup {cur'} \cup {cur}
    BY <1>4 DEF Promote, PromoteExpired, Successor
  <2> QED BY <2>1, <2>2, <2>3 DEF RequestHeld
<1>5. CASE PromoteRefused
  BY <1>i, <1>5 DEF PromoteRefused, Refuse
<1>6. CASE Ends
  <2>1. CASE GivesBack
    BY <1>i, <2>1 DEF GivesBack
  <2>2. CASE BatchDone \/ DrainDone
    <3>1. op' = "accepted" /\ cache' = cache /\ reorder' = reorder /\ expired' = expired /\ live' = live
      BY <2>2 DEF BatchDone, DrainDone, buffer
    <3>2. live \subseteq cache \cup reorder \cup expired
      BY <1>p, <2>2 DEF BatchDone, DrainDone, RequestHeld
    <3> QED BY <3>1, <3>2 DEF RequestHeld
  <2> QED BY <1>6, <2>1, <2>2 DEF Ends
<1>7. CASE Drain
  <2>1. op = "drain" /\ op' = "drain" /\ live' = live /\ expired' = expired /\ cache \subseteq cache'
    BY <1>7 DEF Drain, request
  <2>2. ASSUME NEW x \in reorder PROVE x \in cache' \cup expired' \cup reorder'
    BY <1>7 DEF Drain
  <2> QED BY <2>1, <2>2 DEF RequestHeld
<1>8. CASE ExpireMetadata \/ \E b \in SUBSET Published : Expire(b)
  <2>1. op' = "idle"
    BY <1>8 DEF ExpireMetadata, Expire, request
  <2> QED BY <1>i, <2>1
<1>9. ASSUME NEW L \in SUBSET Published, Repair(L) \/ Bootstrap(L) PROVE RequestHeld'
  <2>1. op' = "drain" /\ live' = L /\ cache' = cache \cup (L \ expired) /\ expired' = expired
    BY <1>9 DEF Repair, Bootstrap
  <2> QED BY <2>1 DEF RequestHeld
<1>10. CASE Forget
  BY <1>i, <1>10 DEF Forget
<1> QED BY <1>1, <1>2, <1>3, <1>4, <1>5, <1>6, <1>7, <1>8, <1>9, <1>10, Zenon DEF IntakeStep, Keeps, Carries, Promotes

\* The request that holds the lock is the one its sender waits for; a page is taken whole.
RequestOwn ==
  \A r \in Requesters : server = <<r>> =>
    /\ Body(r) \ live \subseteq expired
    /\ IsPage(r) => op # "batch" /\ (op \in {"drain", "accepted"} => live \subseteq Shown)

\* It stays that request until it is answered.
LEMMA RequestOwnStep ==
  ASSUME ReceiverInv, RequestOwn, Next
  PROVE  RequestOwn'
<1>n. \A r \in Requesters : Nobody # <<r>>
  BY DEF Nobody
<1>m. server' = Nobody => RequestOwn'
  BY <1>n DEF RequestOwn
<1>s. op = "idle" => server = Nobody
  BY DEF ReceiverInv, Typed, ServerTypes
<1>1. CASE Publishing \/ Looping
  <2>1. op = "idle" /\ server' = server
    BY <1>1, SenderQuiet
  <2> QED BY <1>s, <1>m, <2>1
<1>2. ASSUME NEW r \in Requesters, Serve(r) PROVE RequestOwn'
  <2>1. server' = <<r>> /\ item' = item /\ loop' = loop
    BY <1>2 DEF Serve, senderVars, loopVars
  <2>2. PICK L \in FoundLive(Body(r)) : Handle(IsPage(r), L)
    BY <1>2, Zenon DEF Serve
  <2>3. Body(r) \ L \subseteq expired
    BY FoundLiveFacts
  <2>4. live' = L /\ expired' = expired
    BY <2>2 DEF Handle, Repair, RepairRefused, Replicate
  <2>5. IsPage(r) => op' # "batch" /\ (op' \in {"drain", "accepted"} => L \subseteq cache' \cup expired)
    <3> SUFFICES ASSUME IsPage(r)
                 PROVE  op' # "batch" /\ (op' \in {"drain", "accepted"} => L \subseteq cache' \cup expired)
      OBVIOUS
    <3>1. Repair(L) \/ RepairRefused(L)
      BY <2>2, Zenon DEF Handle
    <3> QED BY <3>1 DEF Repair, RepairRefused
  <2>6. Body(r)' = Body(r) /\ (IsPage(r)' <=> IsPage(r))
    BY <2>1 DEF Body, IsPage
  <2>7. \A q \in Requesters : server' = <<q>> => q = r
    BY <2>1
  <2> HIDE DEF Body, IsPage
  <2>8. Body(r)' \ live' \subseteq expired' /\ (IsPage(r)' => op' # "batch" /\ (op' \in {"drain", "accepted"} => live' \subseteq Shown'))
    BY <2>3, <2>4, <2>5, <2>6 DEF Shown
  <2> QED BY <2>7, <2>8 DEF RequestOwn
<1>3. CASE ServeLate
  <2>1. op = "idle" /\ server' = server
    <3>1. PICK p, L : Handle(p, L)
      BY <1>3, Zenon DEF ServeLate
    <3>2. Repair(L) \/ RepairRefused(L) \/ Replicate(L)
      BY <3>1, Zenon DEF Handle
    <3> QED BY <1>3, <3>2 DEF ServeLate, Repair, RepairRefused, Replicate
  <2> QED BY <1>s, <1>m, <2>1
<1>4. CASE Work
  <2>1. server' = server /\ item' = item /\ loop' = loop
    BY <1>4 DEF Work, senderVars, loopVars
  <2>2. live' = live /\ expired' = expired
    BY <1>4 DEF Work, LookMissing, LookDuplicate, LookAhead, LookNext, Promote, PromoteExpired, PromoteRefused,
                BatchDone, Drain, DrainDone, request
  <2>3. (op' = "batch" => op = "batch") /\ (op' \in {"drain", "accepted"} => op \in {"drain", "batch"})
    BY <1>4 DEF Work, LookMissing, LookDuplicate, LookAhead, LookNext, Promote, PromoteExpired, PromoteRefused,
                BatchDone, Drain, DrainDone, Refuse, Looking, request
  <2>4. Shown \subseteq Shown'
    <3>1. cache \subseteq cache'
      BY <1>4 DEF Work, LookMissing, LookDuplicate, LookAhead, LookNext, Promote, PromoteExpired, PromoteRefused,
                  BatchDone, Drain, DrainDone
    <3> QED BY <2>2, <3>1 DEF Shown
  <2>5. ASSUME NEW r \in Requesters, server' = <<r>>
        PROVE  /\ Body(r)' \ live' \subseteq expired'
               /\ IsPage(r)' => op' # "batch" /\ (op' \in {"drain", "accepted"} => live' \subseteq Shown')
    <3>1. Body(r)' = Body(r) /\ (IsPage(r)' <=> IsPage(r))
      BY <2>1 DEF Body, IsPage
    <3>2. Body(r) \ live \subseteq expired /\ (IsPage(r) => op # "batch" /\ (op \in {"drain", "accepted"} => live \subseteq Shown))
      BY <2>1, <2>5 DEF RequestOwn
    <3> HIDE DEF Body, IsPage, Shown
    <3> QED BY <2>2, <2>3, <2>4, <3>1, <3>2
  <2> QED BY <2>5 DEF RequestOwn
<1>5. CASE Finish
  BY <1>m, <1>5 DEF Finish
<1>6. CASE (\E r \in Requesters : Reply(r)) \/ Booting \/ TimePasses
  <2>1. op = "idle" /\ server' = server
    BY <1>6 DEF Reply, Booting, Restart, BootExit, Reset, BootAccept, BootFetch, BootEmpty, Bootstrap,
                TimePasses, Expire, ExpireMetadata
  <2> QED BY <1>s, <1>m, <2>1
<1> QED BY <1>1, <1>2, <1>3, <1>4, <1>5, <1>6, Zenon DEF Next, Serving

\* An answer that waits for the origin is not touched by its other steps.
LEMMA AnswersStay ==
  ASSUME Typed, Publishing \/ Looping, NEW r \in Requesters, rpc'[r] \in {"looking", "ok", "gap"}
  PROVE  rpc[r] = rpc'[r] /\ Body(r)' = Body(r)
<1>t. rpc \in [Requesters -> RpcStates]
  BY DEF Typed, PublicationTypes
<1>1. CASE Publishing
  <2>1. PICK b \in Batches :
           \/ Reserve(b) \/ AcceptLocal(b) \/ AcceptCopied(b) \/ AcceptRefused(b)
           \/ Enqueue(b) \/ Offer(b) \/ CopyOk(b) \/ CopyFailed(b)
    BY <1>1, Zenon DEF Publishing
  <2>2. item' = item
    BY <2>1 DEF Reserve, AcceptLocal, AcceptCopied, AcceptRefused, Enqueue, Offer, CopyOk, CopyFailed, loopVars
  <2>3. rpc' = rpc \/ rpc' = [rpc EXCEPT ![b] = "none"] \/ rpc' = [rpc EXCEPT ![b] = "sent"]
    BY <2>1 DEF Reserve, AcceptLocal, AcceptCopied, AcceptRefused, Enqueue, Offer, CopyOk, CopyFailed, Heard
  <2>4. rpc[r] = rpc'[r]
    BY <1>t, <2>3
  <2> QED BY <2>2, <2>4 DEF Body
<1>2. CASE Looping
  <2>1. \/ rpc' = rpc /\ item' = item
        \/ rpc' = [rpc EXCEPT ![Loop] = "none"]
        \/ rpc' = [rpc EXCEPT ![Loop] = "sent"]
    BY <1>2 DEF Looping, Take, PushOk, PushRetry, PushDropped, Ask, AskServed, AskAgain, AskQuiet,
                AskStalled, PageDeferred, PageSent, PageOk, PageFailed, PassDone, Heard
  <2>2. CASE rpc' = rpc /\ item' = item
    BY <2>2 DEF Body
  <2>3. CASE rpc' = [rpc EXCEPT ![Loop] = "none"] \/ rpc' = [rpc EXCEPT ![Loop] = "sent"]
    <3>1. r # Loop /\ rpc'[r] = rpc[r]
      BY <1>t, <2>3
    <3> QED BY <3>1 DEF Body
  <2> QED BY <2>1, <2>2, <2>3
<1> QED BY <1>1, <1>2

\* What was confirmed, and what an answer on its way speaks of, is held.
ConfirmedKept ==
  /\ confirmed \subseteq Held
  /\ \A r \in Requesters : rpc[r] = "looking" => Body(r) \subseteq Held

HeldInv == ReceiverInv /\ RequestHeld /\ RequestOwn /\ ConfirmedKept

\* When a request was accepted, all it asked for is held.
LEMMA AcceptedHeld ==
  ASSUME HeldInv, op = "accepted", NEW r \in Requesters, server = <<r>>
  PROVE  Body(r) \subseteq Held /\ Body(r) \subseteq cache \cup reorder \cup expired
<1>1. live \subseteq cache \cup reorder \cup expired
  BY DEF HeldInv, RequestHeld
<1>2. Body(r) \ live \subseteq expired
  BY DEF HeldInv, RequestOwn
<1> QED BY <1>1, <1>2 DEF Held, Buffered

\* The body of a request does not change while peerLoop holds its batch.
LEMMA BodySame ==
  ASSUME item' = item, NEW r \in Requesters
  PROVE  Body(r)' = Body(r)
BY DEF Body

\* No step drops what was confirmed.
LEMMA ConfirmedStep ==
  ASSUME HeldInv, Next
  PROVE  ConfirmedKept'
<1>k. ReceiverInv /\ ConfirmedKept /\ Typed
  BY DEF HeldInv, ReceiverInv
<1>h. Stays => Held \subseteq Held'
  <2> SUFFICES ASSUME Stays PROVE Held \subseteq Held'
    OBVIOUS
  <2>1. IntakeTypes /\ Frontier /\ Keeps
    BY <1>k, KeepsOfStays DEF ReceiverInv, Typed
  <2> QED BY ONLY <2>1, HeldGrows
<1> HIDE DEF Held
<1>g. ASSUME Stays, confirmed' = confirmed,
             \A r \in Requesters : rpc'[r] = "looking" => rpc[r] = "looking" /\ Body(r)' = Body(r)
      PROVE  ConfirmedKept'
  <2>1. confirmed' \subseteq Held'
    BY <1>h, <1>k, <1>g DEF ConfirmedKept
  <2>2. ASSUME NEW r \in Requesters, rpc'[r] = "looking" PROVE Body(r)' \subseteq Held'
    <3>1. Body(r) \subseteq Held /\ Body(r)' = Body(r)
      BY <1>k, <1>g, <2>2 DEF ConfirmedKept
    <3> HIDE DEF Body
    <3> QED BY <1>h, <1>g, <3>1
  <2> QED BY <2>1, <2>2 DEF ConfirmedKept
<1>1. CASE Publishing \/ Looping
  <2>1. Stays
    BY <1>1 DEF Stays
  <2>2. confirmed' = confirmed
    BY <1>1 DEF Publishing, Reserve, AcceptLocal, AcceptCopied, AcceptRefused, Enqueue, Offer, CopyOk, CopyFailed,
                Looping, Take, PushOk, PushRetry, PushDropped, Ask, AskServed, AskAgain, AskQuiet,
                AskStalled, PageDeferred, PageSent, PageOk, PageFailed, PassDone, histories
  <2>3. ASSUME NEW r \in Requesters, rpc'[r] = "looking" PROVE rpc[r] = "looking" /\ Body(r)' = Body(r)
    BY <1>1, <1>k, <2>3, AnswersStay
  <2> HIDE DEF Body
  <2> QED BY <1>g, <2>1, <2>2, <2>3
<1>2. CASE (\E r \in Requesters : Serve(r)) \/ ServeLate \/ Work \/ TimePasses \/ BootAccept \/ BootFetch \/ BootEmpty
  <2>1. confirmed' = confirmed /\ rpc' = rpc /\ item' = item
    BY <1>2 DEF Serve, ServeLate, Work, TimePasses, BootAccept, BootFetch, BootEmpty, senderVars, loopVars, histories
  <2>2. \A r \in Requesters : Body(r)' = Body(r)
    BY <2>1, BodySame
  <2>3. Stays
    BY <1>2, Zenon DEF Stays, Serving
  <2> HIDE DEF Body
  <2> QED BY <1>g, <2>1, <2>2, <2>3
<1>3. CASE Finish
  <2>1. Stays
    BY <1>3, Zenon DEF Stays, Serving
  <2>b. \A r \in Requesters : Body(r)' = Body(r)
    <3>1. item' = item
      BY <1>3 DEF Finish, loopVars
    <3> QED BY <3>1, BodySame
  <2>2. CASE server = Nobody
    <3>1. confirmed' = confirmed /\ rpc' = rpc
      BY <1>3, <2>2 DEF Finish
    <3> HIDE DEF Body
    <3> QED BY <1>g, <2>1, <2>b, <3>1
  <2>3. CASE server # Nobody
    <3>1. PICK q \in Requesters : server = <<q>>
      BY <1>k, <2>3 DEF Typed, ServerTypes
    <3>2. server[1] = q
      BY <3>1
    <3>3. CASE op = "refused"
      <4>1. rpc' = [rpc EXCEPT ![q] = "failed"] /\ confirmed' = confirmed
        BY <1>3, <2>3, <3>2, <3>3 DEF Finish
      <4>2. \A r \in Requesters : rpc'[r] = "looking" => rpc[r] = "looking"
        BY <1>k, <4>1 DEF Typed, PublicationTypes
      <4> HIDE DEF Body
      <4> QED BY <1>g, <2>1, <2>b, <4>1, <4>2
    <3>4. CASE op = "accepted"
      <4>1. Body(q) \subseteq Held
        BY <3>1, <3>4, AcceptedHeld
      <4>2. \A r \in Requesters : r # q => rpc'[r] = rpc[r]
        BY <1>3, <1>k, <2>3, <3>2 DEF Finish, Typed, PublicationTypes
      <4>3. confirmed' \subseteq confirmed \cup Body(q)
        BY <1>3, <2>3, <3>2 DEF Finish
      <4> HIDE DEF Body
      <4>4. confirmed' \subseteq Held'
        BY <1>h, <1>k, <2>1, <4>1, <4>3 DEF ConfirmedKept
      <4>5. ASSUME NEW r \in Requesters, rpc'[r] = "looking" PROVE Body(r)' \subseteq Held'
        <5>1. Body(r) \subseteq Held
          BY <1>k, <4>1, <4>2, <4>5 DEF ConfirmedKept
        <5> QED BY <1>h, <2>1, <2>b, <5>1
      <4> QED BY <4>4, <4>5 DEF ConfirmedKept
    <3> QED BY <1>3, <3>3, <3>4 DEF Finish
  <2> QED BY <2>2, <2>3
<1>4. ASSUME NEW q \in Requesters, Reply(q) PROVE ConfirmedKept'
  <2>1. Stays
    BY <1>4, Zenon DEF Stays, Serving
  <2>2. rpc[q] = "looking" /\ confirmed' = confirmed \cup Body(q) /\ item' = item
    BY <1>4 DEF Reply, loopVars
  <2>3. Body(q) \subseteq Held
    BY <1>k, <2>2 DEF ConfirmedKept
  <2>4. \A r \in Requesters : rpc'[r] = "looking" => rpc[r] = "looking"
    BY <1>4, <1>k DEF Reply, Typed, PublicationTypes
  <2>5. \A r \in Requesters : Body(r)' = Body(r)
    BY <2>2, BodySame
  <2> HIDE DEF Body
  <2>6. confirmed' \subseteq Held'
    BY <1>h, <1>k, <2>1, <2>2, <2>3 DEF ConfirmedKept
  <2>7. ASSUME NEW r \in Requesters, rpc'[r] = "looking" PROVE Body(r)' \subseteq Held'
    <3>1. Body(r) \subseteq Held
      BY <1>k, <2>4, <2>7 DEF ConfirmedKept
    <3> QED BY <1>h, <2>1, <2>5, <3>1
  <2> QED BY <2>6, <2>7 DEF ConfirmedKept
<1>5. CASE Restart \/ BootExit
  <2>1. confirmed' = {} /\ rpc' = [r \in Requesters |-> IF rpc[r] = "looking" THEN "failed" ELSE rpc[r]]
    BY <1>5 DEF Restart, BootExit, Reset
  <2>2. \A r \in Requesters : rpc'[r] # "looking"
    BY <2>1
  <2> QED BY <2>1, <2>2 DEF ConfirmedKept
<1> QED BY <1>1, <1>2, <1>3, <1>4, <1>5, Zenon DEF Next, Serving, Booting

\* The invariant of confirmations holds in every reachable state.
LEMMA HeldInvariant == Spec => []HeldInv
<1>1. Init => RequestHeld /\ RequestOwn /\ ConfirmedKept
  <2> SUFFICES ASSUME Init PROVE RequestHeld /\ RequestOwn /\ ConfirmedKept
    OBVIOUS
  <2>1. RequestHeld
    BY DEF Init, IntakeInit, RequestHeld
  <2>2. RequestOwn
    <3>1. \A r \in Requesters : server # <<r>>
      BY DEF Init, Nobody
    <3> QED BY <3>1 DEF RequestOwn
  <2>3. ConfirmedKept
    <3>1. confirmed = {} /\ rpc = [r \in Requesters |-> "none"]
      BY DEF Init
    <3> QED BY <3>1 DEF ConfirmedKept
  <2> QED BY <2>1, <2>2, <2>3
<1>2. ASSUME HeldInv, ReceiverInv', [Next]_vars PROVE HeldInv'
  <2>1. CASE Next
    <3>1. IntakeTypes /\ Frontier /\ RequestHeld /\ IntakeStep /\ ReceiverInv /\ RequestOwn
      BY <1>2, <2>1, IntakeOfNext DEF HeldInv, ReceiverInv, Typed
    <3>2. RequestHeld'
      BY ONLY <3>1, RequestHeldStep
    <3>3. RequestOwn'
      BY ONLY <2>1, <3>1, RequestOwnStep
    <3>4. ConfirmedKept'
      BY ONLY <1>2, <2>1, ConfirmedStep
    <3> QED BY <1>2, <3>2, <3>3, <3>4 DEF HeldInv
  <2>2. CASE UNCHANGED vars
    <3>1. /\ UNCHANGED intakeVars /\ server' = server /\ item' = item /\ loop' = loop /\ rpc' = rpc
          /\ confirmed' = confirmed
      BY <2>2 DEF vars, senderVars, loopVars, histories
    <3>2. Held \subseteq Held'
      <4>1. IntakeTypes /\ Frontier /\ Keeps
        BY <1>2, <3>1 DEF HeldInv, ReceiverInv, Typed, Keeps
      <4> QED BY ONLY <4>1, HeldGrows
    <3>3. RequestHeld'
      <4>1. IntakeTypes /\ Frontier /\ RequestHeld /\ IntakeStep
        BY <1>2, <3>1 DEF HeldInv, ReceiverInv, Typed, Keeps, IntakeStep
      <4> QED BY ONLY <4>1, RequestHeldStep
    <3>4. RequestOwn'
      BY <1>2, <3>1, IntakeSame DEF HeldInv, RequestOwn, Body, IsPage, Shown
    <3>5. ConfirmedKept'
      <4>1. ConfirmedKept /\ \A r \in Requesters : Body(r)' = Body(r)
        BY <1>2, <3>1, BodySame DEF HeldInv
      <4> HIDE DEF Body, Held
      <4> QED BY <3>1, <3>2, <4>1 DEF ConfirmedKept
    <3> QED BY <1>2, <3>3, <3>4, <3>5 DEF HeldInv
  <2> QED BY <1>2, <2>1, <2>2
<1>3. Init /\ ReceiverInv => HeldInv
  BY <1>1 DEF HeldInv
<1> QED BY <1>2, <1>3, ReceiverInvariant, PTL DEF Spec

\* replicate: for every schedule of copies, retries, late requests, refusals and restarts, what B
\* answered with 204 stays cached or buffered until it expires or B's process ends.
THEOREM ConfirmedAlwaysHeld == Spec => []ConfirmedHeld
<1>1. HeldInv => ConfirmedHeld
  <2> SUFFICES ASSUME HeldInv, op = "idle" PROVE confirmed \subseteq cache \cup reorder \cup expired
    BY DEF ConfirmedHeld
  <2>1. cur = 0
    BY DEF HeldInv, ReceiverInv, Frontier
  <2>2. Taken = {}
    BY <2>1 DEF Taken
  <2> QED BY <2>2 DEF HeldInv, ConfirmedKept, Held, Buffered
<1> QED BY <1>1, HeldInvariant, PTL

-----------------------------------------------------------------------------
(* Pages of the origin's cache.                                             *)

\* The first PageBytes messages of a set.
PageOf(rest) == {m \in rest : Cardinality({n \in rest : n < m}) < PageBytes}

\* A page of something is not empty, and leaves out nothing below what it holds.
LEMMA PageFacts ==
  ASSUME NEW N \in Nat, NEW rest, rest \subseteq 1..N
  PROVE  /\ PageOf(rest) \subseteq rest
         /\ rest # {} => PageOf(rest) # {}
         /\ \A n \in PageOf(rest), k \in rest : k <= n => k \in PageOf(rest)
<1>f. IsFiniteSet(rest)
  <2>1. IsFiniteSet(1..N) /\ rest \in SUBSET (1..N)
    BY FS_Interval
  <2> QED BY ONLY <2>1, FS_Subset
<1>1. PageOf(rest) \subseteq rest
  BY DEF PageOf
<1>2. ASSUME rest # {} PROVE PageOf(rest) # {}
  <2>1. rest \subseteq Nat
    OBVIOUS
  <2>2. PICK lo \in rest : \A n \in rest : lo <= n
    BY ONLY <1>2, <2>1, HasMinimum
  <2>3. {n \in rest : n < lo} = {}
    <3>1. \A n \in rest : n \in Nat /\ lo \in Nat /\ lo <= n
      BY ONLY <2>1, <2>2
    <3>2. \A n \in rest : ~(n < lo)
      BY ONLY <3>1
    <3> QED BY <3>2
  <2>4. Cardinality({n \in rest : n < lo}) < PageBytes
    BY <2>3, FS_EmptySet, SenderTyped
  <2>5. lo \in PageOf(rest)
    BY <2>4 DEF PageOf
  <2> QED BY <2>5
<1>3. ASSUME NEW n \in PageOf(rest), NEW k \in rest, k <= n PROVE k \in PageOf(rest)
  <2> DEFINE A == {j \in rest : j < k}
             B == {j \in rest : j < n}
  <2>1. n \in rest /\ Cardinality(B) < PageBytes
    BY DEF PageOf
  <2>2. A \subseteq B /\ B \subseteq rest
    <3>1. k \in Nat /\ n \in Nat /\ \A j \in rest : j \in Nat
      BY <2>1
    <3>2. \A j \in rest : j < k => j < n
      BY ONLY <1>3, <3>1
    <3> QED BY <3>2
  <2>3. IsFiniteSet(B)
    BY <1>f, <2>2, FS_Subset
  <2> HIDE DEF A, B
  <2>4. Cardinality(A) <= Cardinality(B) /\ IsFiniteSet(A)
    BY <2>2, <2>3, FS_Subset
  <2>5. Cardinality(A) \in Nat /\ Cardinality(B) \in Nat /\ PageBytes \in Nat
    BY <2>3, <2>4, FS_CardinalityType, SenderTyped
  <2>6. Cardinality(A) < PageBytes
    BY <2>1, <2>4, <2>5
  <2> QED BY <2>6 DEF PageOf, A
<1> QED BY <1>1, <1>2, <1>3

-----------------------------------------------------------------------------
(* No live hole, and nothing lost for good.                                 *)

\* The messages a reader of B need not miss.
Have == Shown \cup excused

\* Nothing live is missing below a message of the page.
Closed(L) == \A n \in L : \A k \in 1..n : k \in L \cup Have

\* The frontier and the repair pass have nothing missing behind them.
FrontierWhole == 1..through \subseteq Have /\ 1..ordinal \subseteq Have

\* A repair page, sent or late, has nothing missing below it.
PagesClosed ==
  /\ loop = "page" => Closed(item)
  /\ \A z \in late : z[1] => Closed(z[2])

\* A 204 that waits for the origin says the truth about its messages.
AnswersHeld ==
  \A r \in Requesters : /\ rpc[r] = "ok" => Body(r) \subseteq Have
                        /\ rpc[r] = "gap" => Body(r) \subseteq Have \cup Buffered

\* A handler, the channel or peerLoop still has to do something about m.
InHandler(m) == \E b \in Batches : m \in b /\ pub[b] \in {"queueing", "offering", "copying"}
InQueue(m) == \E i \in 1..Len(queue) : m \in queue[i]
InPush(m) == loop = "push" /\ m \in item

\* The origin knows of a gap, and will not forget it with an older answer.
GapKnown == gapPending /\ (loop = "quiet" => gapAgain)

Owed(m) == needed \/ InHandler(m) \/ InQueue(m) \/ InPush(m) \/ (m \in Buffered /\ GapKnown)

NoneForgotten == \A m \in Published : m \in Have \/ Owed(m)

\* What holds while B serves.
Serves == FrontierWhole /\ PagesClosed /\ AnswersHeld /\ NoneForgotten

\* What holds while B bootstraps: everything up to the cursor is there, and no live message is
\* missing below the page it is about to take.
Starting ==
  /\ 1..bootCursor \subseteq Shown
  /\ boot = "accept" => \A n \in bootPage : \A k \in 1..n : k \in bootPage \cup Shown

SyncInv == HeldInv /\ (boot = "up" => Serves) /\ (boot # "up" => Starting)

\* The steps that leave a serving B serving.
UpStep == Publishing \/ Looping \/ Serving \/ TimePasses

\* The publications B is excused from only grow.
LEMMA ExcusedGrows ==
  ASSUME UpStep
  PROVE  excused \subseteq excused'
<1>1. CASE Publishing
  <2>1. PICK b \in Batches :
           \/ Reserve(b) \/ AcceptLocal(b) \/ AcceptCopied(b) \/ AcceptRefused(b)
           \/ Enqueue(b) \/ Offer(b) \/ CopyOk(b) \/ CopyFailed(b)
    BY <1>1, Zenon DEF Publishing
  <2> QED BY <2>1 DEF Reserve, AcceptLocal, AcceptCopied, AcceptRefused, Enqueue, Offer, CopyOk, CopyFailed,
                      NoCopy, histories
<1>2. CASE Looping
  BY <1>2 DEF Looping, Take, PushOk, PushRetry, PushDropped, Ask, AskServed, AskAgain, AskQuiet,
              AskStalled, PageDeferred, PageSent, PageOk, PageFailed, PassDone, histories
<1>3. CASE Serving \/ TimePasses
  BY <1>3 DEF Serving, Serve, ServeLate, Work, Finish, Reply, TimePasses, histories
<1> QED BY <1>1, <1>2, <1>3 DEF UpStep

\* What B has only grows while it serves.
LEMMA HaveGrows ==
  ASSUME HeldInv, UpStep
  PROVE  /\ Keeps /\ Shown \subseteq Shown' /\ Have \subseteq Have'
         /\ Have \cup Buffered \subseteq Have' \cup Buffered'
<1>1. Stays /\ IntakeTypes /\ Frontier /\ Typed
  BY DEF UpStep, Stays, HeldInv, ReceiverInv, Typed
<1>2. Keeps
  BY <1>1, KeepsOfStays
<1>3. Held \subseteq Held' /\ Shown \subseteq Shown'
  BY ONLY <1>1, <1>2, HeldGrows
<1>4. excused \subseteq excused'
  BY ExcusedGrows
<1> QED BY <1>2, <1>3, <1>4 DEF Have, Held, Shown

\* The frontier moves over messages that B shows, except when it takes a page.
LEMMA ThroughShown ==
  ASSUME IntakeTypes, Frontier, UNCHANGED intakeVars \/ Carries
  PROVE  1..through' \subseteq 1..through \cup Shown'
<1>p. through \in Nat
  BY DEF IntakeTypes
<1>s. through' = through => 1..through' \subseteq 1..through \cup Shown'
  OBVIOUS
<1>n. ASSUME through' = through + 1, through + 1 \in Shown' PROVE 1..through' \subseteq 1..through \cup Shown'
  <2>1. \A k \in 1..(through + 1) : k \in 1..through \/ k = through + 1
    BY <1>p
  <2> HIDE DEF Shown
  <2> QED BY <1>n, <2>1
<1>1. CASE UNCHANGED intakeVars
  BY <1>1, <1>s, IntakeSame
<1>2. CASE \E L \in SUBSET Published : Arrives(L)
  BY <1>2, <1>s DEF Arrives, Replicate, RepairRefused, frontier
<1>3. CASE Looks
  BY <1>3, <1>s DEF Looks, LookMissing, LookDuplicate, LookAhead, LookNext, frontier
<1>4. CASE Promote
  <2>1. through' = cur /\ cur = through + 1 /\ cur \in Shown'
    BY <1>4, <1>p DEF Promote, Frontier, Up, Shown
  <2> QED BY <1>n, <2>1
<1>5. CASE PromoteExpired
  <2>1. through' = cur /\ cur = through + 1 /\ cur \in Shown'
    BY <1>5, <1>p DEF PromoteExpired, Frontier, Up, Shown
  <2> QED BY <1>n, <2>1
<1>6. CASE PromoteRefused \/ Ends
  BY <1>6, <1>s DEF PromoteRefused, Ends, BatchDone, DrainDone, GivesBack, frontier
<1>7. CASE Drain
  <2>1. through' = through + 1 /\ through + 1 \in Shown'
    BY <1>7 DEF Drain, Shown
  <2> QED BY <1>n, <2>1
<1>8. CASE \E b \in SUBSET Published : Expire(b)
  BY <1>8, <1>s DEF Expire, frontier
<1>9. CASE ExpireMetadata
  <2>1. through' = through \/ through' = 0
    BY <1>9 DEF ExpireMetadata
  <2>2. CASE through' = 0
    <3>1. 1..through' = {}
      BY <2>2
    <3> QED BY <3>1
  <2> QED BY <1>s, <2>1, <2>2
<1> QED BY <1>1, <1>2, <1>3, <1>4, <1>5, <1>6, <1>7, <1>8, <1>9, Zenon DEF Carries, Promotes

\* A page moves the frontier to one of its own messages.
LEMMA ThroughPage ==
  ASSUME IntakeTypes, NEW L \in SUBSET Published, Repair(L) \/ Bootstrap(L)
  PROVE  /\ \A k \in 1..through' : k \in 1..through \/ \E n \in L : k <= n
         /\ L \subseteq Shown'
<1> DEFINE S == {through} \cup (L \ cache)
<1>1. S \subseteq 0..accepted /\ S # {} /\ accepted \in Nat /\ through \in Nat
  BY DEF IntakeTypes, Published
<1>2. Max(S) \in S /\ Max(S) \in 0..accepted
  BY ONLY <1>1, MaxOf
<1>3. through' = Max(S) /\ cache' = cache \cup (L \ expired) /\ expired' = expired
  BY DEF Repair, Bootstrap
<1>4. through' = through \/ through' \in L
  BY <1>2, <1>3
<1>5. through' \in Nat
  BY <1>2, <1>3
<1>6. ASSUME NEW k \in 1..through' PROVE k \in 1..through \/ \E n \in L : k <= n
  <2>1. CASE through' = through
    BY <2>1
  <2>2. CASE through' \in L
    BY <1>5, <2>2
  <2> QED BY <1>4, <2>1, <2>2
<1> QED BY <1>3, <1>6 DEF Shown

\* Taking a closed page leaves nothing missing behind the frontier.
LEMMA PageTaken ==
  ASSUME HeldInv, Have \subseteq Have', 1..through \subseteq Have,
         NEW P \in SUBSET Published, Closed(P), NEW L \in FoundLive(P), Repair(L)
  PROVE  1..through' \subseteq Have'
<1>1. L \subseteq P /\ P \ L \subseteq expired
  BY FoundLiveFacts
<1>2. IntakeTypes /\ L \in SUBSET Published
  BY <1>1 DEF HeldInv, ReceiverInv, Typed
<1>3. (\A k \in 1..through' : k \in 1..through \/ \E n \in L : k <= n) /\ L \subseteq Shown'
  BY ONLY <1>2, Repair(L), ThroughPage
<1>4. P \subseteq Have'
  BY <1>1, <1>3 DEF Have, Shown
<1>5. ASSUME NEW k \in 1..through' PROVE k \in Have'
  <2>1. CASE k \in 1..through
    BY <2>1
  <2>2. ASSUME NEW n \in L, k <= n PROVE k \in Have'
    <3>1. n \in P /\ n \in Nat /\ k \in Nat /\ 1 <= k
      BY <1>1, <1>2 DEF Published, IntakeTypes
    <3>2. k \in 1..n
      BY <2>2, <3>1
    <3>3. k \in P \cup Have
      BY <3>1, <3>2 DEF Closed
    <3> QED BY <1>4, <3>3
  <2> QED BY <1>3, <2>1, <2>2
<1> QED BY <1>5

\* Nothing goes missing behind the frontier or behind the repair pass.
LEMMA FrontierWholeStep ==
  ASSUME HeldInv, Serves, UpStep
  PROVE  FrontierWhole'
<1>h. Keeps /\ Shown \subseteq Shown' /\ Have \subseteq Have'
  BY HaveGrows
<1>t. Typed /\ IntakeTypes /\ Frontier /\ FrontierWhole /\ PagesClosed /\ AnswersHeld
  BY DEF HeldInv, ReceiverInv, Typed, Serves
<1>w. 1..through \subseteq Have /\ 1..ordinal \subseteq Have
  BY <1>t DEF FrontierWhole
<1>c. ASSUME UNCHANGED intakeVars \/ Carries PROVE 1..through' \subseteq Have'
  <2>1. 1..through' \subseteq 1..through \cup Shown'
    BY ONLY <1>t, <1>c, ThroughShown
  <2> QED BY <1>h, <1>w, <2>1 DEF Have
<1>r. ASSUME NEW P \in SUBSET Published, NEW L \in FoundLive(P), NEW p, p => Closed(P), Handle(p, L)
      PROVE  1..through' \subseteq Have'
  <2>1. L \in SUBSET Published
    BY FoundLiveFacts
  <2>2. CASE Replicate(L) \/ RepairRefused(L)
    BY <1>c, <2>1, <2>2 DEF Carries, Arrives
  <2>3. CASE ~(Replicate(L) \/ RepairRefused(L))
    <3>1. p /\ Repair(L)
      BY <1>r, <2>3, Zenon DEF Handle
    <3>2. Closed(P)
      BY <1>r, <3>1, Zenon
    <3> QED BY ONLY <1>h, <1>w, <1>r, <3>1, <3>2, HeldInv, P \in SUBSET Published, L \in FoundLive(P), PageTaken
  <2> QED BY <2>2, <2>3
<1>1. 1..through' \subseteq Have'
  <2>1. CASE Publishing \/ Looping
    BY <1>c, <2>1, SenderQuiet
  <2>2. ASSUME NEW r \in Requesters, Serve(r) PROVE 1..through' \subseteq Have'
    <3>1. PICK L \in FoundLive(Body(r)) : Handle(IsPage(r), L)
      BY <2>2, Zenon DEF Serve
    <3>2. Body(r) \in SUBSET Published
      BY <1>t, <2>2, BodyTyped DEF Serve
    <3>3. IsPage(r) => Closed(Body(r))
      BY <1>t DEF IsPage, Body, PagesClosed
    <3> HIDE DEF Body, IsPage
    <3> QED BY <1>r, <3>1, <3>2, <3>3
  <2>3. CASE ServeLate
    <3>1. PICK z \in late : \E L \in FoundLive(z[2]) : Handle(z[1], L)
      BY <2>3, Zenon DEF ServeLate
    <3>2. PICK L \in FoundLive(z[2]) : Handle(z[1], L)
      BY <3>1, Zenon
    <3>3. z[2] \in SUBSET Published /\ (z[1] => Closed(z[2]))
      BY <1>t DEF Typed, SenderTypes, PagesClosed
    <3> QED BY <1>r, <3>2, <3>3
  <2>4. CASE Work
    <3>1. Carries
      BY <2>4, Zenon DEF Work, Carries, Looks, Promotes, Ends
    <3> QED BY <1>c, <3>1
  <2>5. CASE Finish
    <3>1. GivesBack
      BY <2>5 DEF Finish, GivesBack, frontier, buffer
    <3>2. Carries
      BY <3>1, Zenon DEF Carries, Ends
    <3> QED BY <1>c, <3>2
  <2>6. CASE \E r \in Requesters : Reply(r)
    BY <1>c, <2>6 DEF Reply
  <2>7. CASE TimePasses
    <3>1. CASE ExpireMetadata
      BY <1>c, <3>1 DEF Carries
    <3>2. CASE ~ExpireMetadata
      <4>1. PICK b \in Batches : Expire(b)
        BY <2>7, <3>2, Zenon DEF TimePasses
      <4>2. through' = through
        BY <4>1 DEF Expire, frontier
      <4> QED BY <1>h, <1>w, <4>2
    <3> QED BY <3>1, <3>2
  <2> QED BY <2>1, <2>2, <2>3, <2>4, <2>5, <2>6, <2>7, Zenon DEF UpStep, Serving
<1>2. 1..ordinal' \subseteq Have'
  <2>1. CASE PageOk
    <3>1. loop = "page" /\ rpc[Loop] = "ok" /\ ordinal' = Max(item)
      BY <2>1 DEF PageOk
    <3>2. item \subseteq Have
      BY <1>t, <3>1, RequesterFacts DEF AnswersHeld, Body
    <3>3. Closed(item) /\ item \subseteq 0..accepted /\ item # {} /\ accepted \in Nat
      BY <1>t, <3>1 DEF PagesClosed, Typed, SenderTypes, Published, IntakeTypes
    <3>4. Max(item) \in item
      BY ONLY <3>3, MaxOf
    <3>5. \A k \in 1..Max(item) : k \in Have
      BY <3>2, <3>3, <3>4 DEF Closed
    <3> QED BY <1>h, <3>1, <3>5
  <2>2. CASE ~PageOk
    <3>1. ordinal' = ordinal \/ ordinal' = 0
      <4>1. CASE Publishing
        BY <4>1 DEF Publishing, Reserve, AcceptLocal, AcceptCopied, AcceptRefused, Enqueue, Offer, CopyOk, CopyFailed,
                    repairVars
      <4>2. CASE Looping
        BY <2>2, <4>2 DEF Looping, Take, PushOk, PushRetry, PushDropped, Ask, AskServed, AskAgain, AskQuiet,
                    AskStalled, PageDeferred, PageSent, PageFailed, PassDone, repairVars
      <4>3. CASE Serving \/ TimePasses
        BY <4>3 DEF Serving, Serve, ServeLate, Work, Finish, Reply, TimePasses, senderVars, repairVars
      <4> QED BY <4>1, <4>2, <4>3 DEF UpStep
    <3>2. CASE ordinal' = ordinal
      BY <1>h, <1>w, <3>2
    <3>3. CASE ordinal' = 0
      <4>1. 1..ordinal' = {}
        BY <3>3
      <4> QED BY <4>1
    <3> QED BY <3>1, <3>2, <3>3
  <2> QED BY <2>1, <2>2
<1> QED BY <1>1, <1>2 DEF FrontierWhole

\* The origin sends pages that have nothing missing below them.
LEMMA RepairPageClosed ==
  ASSUME Typed, 1..ordinal \subseteq Have
  PROVE  /\ \A n \in RepairPage : \A k \in 1..n : k \in RepairPage \cup Have
         /\ RepairPage = {} => Published \subseteq Have
<1> DEFINE rest == {m \in OriginCache : m > ordinal}
<1>t. accepted \in Nat /\ ordinal \in Nat
  BY DEF Typed, IntakeTypes, SenderTypes
<1>1. rest \subseteq 1..accepted
  BY DEF OriginCache
<1>2. RepairPage = PageOf(rest)
  BY DEF RepairPage, PageOf
<1>3. \A k \in 1..accepted : k \in rest \/ k \in Have
  <2>1. ASSUME NEW k \in 1..accepted, k \notin expired, ~(k > ordinal) PROVE k \in 1..ordinal
    BY <1>t, <2>1
  <2> QED BY <2>1 DEF OriginCache, Have, Shown
<1> HIDE DEF rest
<1>4. /\ PageOf(rest) \subseteq rest
      /\ rest # {} => PageOf(rest) # {}
      /\ \A n \in PageOf(rest), k \in rest : k <= n => k \in PageOf(rest)
  BY ONLY <1>t, <1>1, PageFacts
<1>5. ASSUME NEW n \in RepairPage, NEW k \in 1..n PROVE k \in RepairPage \cup Have
  <2>1. n \in PageOf(rest) /\ n \in 1..accepted
    BY <1>1, <1>2, <1>4
  <2>2. k \in 1..accepted /\ k <= n
    BY ONLY <1>t, <2>1, k \in 1..n
  <2>3. k \in rest => k \in PageOf(rest)
    BY ONLY <1>4, <2>1, <2>2
  <2> QED BY ONLY <1>2, <1>3, <2>2, <2>3
<1>6. ASSUME RepairPage = {} PROVE Published \subseteq Have
  BY <1>2, <1>3, <1>4, <1>6 DEF Published
<1> QED BY <1>5, <1>6

\* Every repair page that is sent or late stays closed.
LEMMA PagesClosedStep ==
  ASSUME HeldInv, Serves, UpStep
  PROVE  PagesClosed'
<1>h. Have \subseteq Have'
  BY HaveGrows
<1>t. Typed /\ FrontierWhole /\ PagesClosed
  BY DEF HeldInv, ReceiverInv, Serves
<1> DEFINE Fine(L) == \A n \in L : \A k \in 1..n : k \in L \cup Have'
<1>c. ASSUME NEW L, Closed(L) PROVE Fine(L)
  BY <1>h, <1>c DEF Closed
<1>i. loop = "page" => Fine(item)
  BY <1>c, <1>t DEF PagesClosed
<1>l. \A z \in late : z[1] => Fine(z[2])
  BY <1>c, <1>t DEF PagesClosed
<1> HIDE DEF Fine
<1>1. loop' = "page" => Fine(item')
  <2>1. CASE PageSent
    <3>1. \A n \in RepairPage : \A k \in 1..n : k \in RepairPage \cup Have
      BY <1>t, RepairPageClosed DEF FrontierWhole
    <3>2. Fine(RepairPage)
      BY <1>c, <3>1 DEF Closed
    <3>3. item' = RepairPage
      BY <2>1 DEF PageSent
    <3> QED BY <3>2, <3>3
  <2>2. CASE ~PageSent
    <3>1. loop' # "page" \/ (loop' = loop /\ item' = item)
      <4>1. CASE Publishing
        BY <4>1 DEF Publishing, Reserve, AcceptLocal, AcceptCopied, AcceptRefused, Enqueue, Offer, CopyOk, CopyFailed,
                    loopVars
      <4>2. CASE Looping
        BY <2>2, <4>2 DEF Looping, Take, PushOk, PushRetry, PushDropped, Ask, AskServed, AskAgain, AskQuiet,
                    AskStalled, PageDeferred, PageOk, PageFailed, PassDone, LoopIdle
      <4>3. CASE Serving \/ TimePasses
        BY <4>3 DEF Serving, Serve, ServeLate, Work, Finish, Reply, TimePasses, senderVars, loopVars
      <4> QED BY <4>1, <4>2, <4>3 DEF UpStep
    <3> QED BY <1>i, <3>1
  <2> QED BY <2>1, <2>2
<1>2. \A z \in late' : z[1] => Fine(z[2])
  <2>1. ASSUME NEW r \in Requesters, Failed(r) PROVE \A z \in late' : z[1] => Fine(z[2])
    <3>1. late' \subseteq late \cup {<<IsPage(r), Body(r)>>}
      BY <2>1 DEF Failed
    <3>2. IsPage(r) => Fine(Body(r))
      BY <1>i DEF IsPage, Body
    <3> HIDE DEF IsPage, Body
    <3>3. ASSUME NEW z \in late', z[1] PROVE Fine(z[2])
      <4>1. CASE z \in late
        BY <1>l, <3>3, <4>1
      <4>2. CASE z = <<IsPage(r), Body(r)>>
        <5>1. z[1] = IsPage(r) /\ z[2] = Body(r)
          BY <4>2
        <5>2. IsPage(r)
          BY <3>3, <5>1, Zenon
        <5> QED BY <3>2, <5>1, <5>2
      <4> QED BY <3>1, <4>1, <4>2
    <3> QED BY <3>3
  <2>2. CASE late' \subseteq late
    BY <1>l, <2>2
  <2>3. CASE Publishing
    <3>1. PICK b \in Batches :
             \/ Reserve(b) \/ AcceptLocal(b) \/ AcceptCopied(b) \/ AcceptRefused(b)
             \/ Enqueue(b) \/ Offer(b) \/ CopyOk(b) \/ CopyFailed(b)
      BY <2>3, Zenon DEF Publishing
    <3>2. late' = late \/ (pub[b] = "copying" /\ Failed(b))
      BY <3>1 DEF Reserve, AcceptLocal, AcceptCopied, AcceptRefused, Enqueue, Offer, CopyOk, CopyFailed
    <3>3. pub[b] = "copying" => b \in Requesters
      BY <1>t DEF Typed, PublicationTypes
    <3> QED BY <2>1, <2>2, <3>2, <3>3
  <2>4. CASE Looping
    <3>1. late' = late \/ Failed(Loop)
      BY <2>4 DEF Looping, Take, PushOk, PushRetry, PushDropped, Ask, AskServed, AskAgain, AskQuiet,
                AskStalled, PageDeferred, PageSent, PageOk, PageFailed, PassDone
    <3> QED BY <2>1, <2>2, <3>1, RequesterFacts
  <2>5. CASE Serving \/ TimePasses
    <3>1. late' \subseteq late
      BY <2>5 DEF Serving, Serve, ServeLate, Work, Finish, Reply, TimePasses, senderVars
    <3> QED BY <2>2, <3>1
  <2> QED BY <2>3, <2>4, <2>5 DEF UpStep
<1> QED BY <1>1, <1>2 DEF PagesClosed, Closed, Fine

\* A 204 on its way to the origin stays true.
LEMMA AnswersHeldStep ==
  ASSUME HeldInv, Serves, UpStep
  PROVE  AnswersHeld'
<1>t. Typed /\ AnswersHeld /\ ConfirmedKept /\ rpc \in [Requesters -> RpcStates]
  BY DEF HeldInv, ReceiverInv, Serves, Typed, PublicationTypes
<1>h. Have \subseteq Have' /\ Have \cup Buffered \subseteq Have' \cup Buffered'
  BY HaveGrows
<1> DEFINE True(r) == /\ rpc'[r] = "ok" => Body(r)' \subseteq Have'
                      /\ rpc'[r] = "gap" => Body(r)' \subseteq Have' \cup Buffered'
<1>s. ASSUME NEW r \in Requesters, rpc'[r] = rpc[r], Body(r)' = Body(r) PROVE True(r)
  <2>1. (rpc[r] = "ok" => Body(r) \subseteq Have) /\ (rpc[r] = "gap" => Body(r) \subseteq Have \cup Buffered)
    BY <1>t DEF AnswersHeld
  <2> HIDE DEF Body, Have, Buffered
  <2> QED BY <1>h, <1>s, <2>1
<1>o. ASSUME NEW r \in Requesters, rpc'[r] \notin {"ok", "gap"} PROVE True(r)
  BY <1>o
<1>k. ASSUME NEW r \in Requesters, Body(r) \subseteq Have, Body(r)' = Body(r) PROVE True(r)
  <2> HIDE DEF Body, Have, Buffered
  <2> QED BY <1>h, <1>k
<1>a. (\A r \in Requesters : True(r)) => AnswersHeld'
  BY DEF AnswersHeld
<1> HIDE DEF True
<1>1. CASE Publishing \/ Looping
  <2>1. ASSUME NEW r \in Requesters PROVE True(r)
    <3>1. CASE rpc'[r] \in {"ok", "gap"}
      <4>1. rpc[r] = rpc'[r] /\ Body(r)' = Body(r)
        BY <1>1, <1>t, <3>1, AnswersStay
      <4> QED BY <1>s, <4>1
    <3> QED BY <1>o, <3>1
  <2> QED BY <1>a, <2>1
<1>2. CASE (\E r \in Requesters : Serve(r)) \/ ServeLate \/ Work \/ TimePasses
  <2>1. rpc' = rpc /\ item' = item
    BY <1>2 DEF Serve, ServeLate, Work, TimePasses, senderVars, loopVars
  <2>2. \A r \in Requesters : Body(r)' = Body(r)
    BY <2>1, BodySame
  <2>3. \A r \in Requesters : True(r)
    BY <1>s, <2>1, <2>2
  <2> QED BY <1>a, <2>3
<1>3. CASE Finish
  <2>b. \A r \in Requesters : Body(r)' = Body(r)
    <3>1. item' = item
      BY <1>3 DEF Finish, loopVars
    <3> QED BY <3>1, BodySame
  <2>1. CASE server = Nobody
    <3>1. rpc' = rpc
      BY <1>3, <2>1 DEF Finish
    <3>2. \A r \in Requesters : True(r)
      BY <1>s, <2>b, <3>1
    <3> QED BY <1>a, <3>2
  <2>2. CASE server # Nobody
    <3>1. PICK q \in Requesters : server = <<q>>
      BY <1>t, <2>2 DEF Typed, ServerTypes
    <3>2. server[1] = q
      BY <3>1
    <3> DEFINE answer == IF op = "refused" THEN "failed"
                         ELSE IF IsPage(q) \/ live \cap reorder = {} THEN "ok" ELSE "looking"
    <3>3. rpc' = [rpc EXCEPT ![q] = answer]
      BY <1>3, <2>2, <3>2 DEF Finish
    <3>4. True(q)
      <4>1. CASE answer # "ok"
        <5>1. answer \in {"failed", "looking"}
          BY <4>1
        <5> HIDE DEF answer
        <5>2. rpc'[q] \notin {"ok", "gap"}
          BY <1>t, <3>3, <5>1
        <5> QED BY <1>o, <5>2
      <4>2. CASE answer = "ok"
        <5>1. op = "accepted" /\ (IsPage(q) \/ live \cap reorder = {})
          BY <1>3, <4>2 DEF Finish
        <5>2. Body(q) \subseteq cache \cup reorder \cup expired
          BY <3>1, <5>1, AcceptedHeld
        <5>3. Body(q) \ live \subseteq expired /\ (IsPage(q) => live \subseteq Shown)
          BY <3>1, <5>1 DEF HeldInv, RequestOwn
        <5> HIDE DEF Body, IsPage
        <5>4. Body(q) \subseteq Have
          BY <5>1, <5>2, <5>3 DEF Have, Shown
        <5> QED BY <1>k, <2>b, <5>4
      <4> QED BY <4>1, <4>2
    <3> HIDE DEF answer
    <3>5. ASSUME NEW r \in Requesters, r # q PROVE True(r)
      <4>1. rpc'[r] = rpc[r]
        BY <1>t, <3>3, <3>5
      <4> QED BY <1>s, <2>b, <4>1
    <3> QED BY <1>a, <3>4, <3>5
  <2> QED BY <2>1, <2>2
<1>4. ASSUME NEW q \in Requesters, Reply(q) PROVE AnswersHeld'
  <2>1. /\ op = "idle" /\ rpc[q] = "looking" /\ item' = item /\ UNCHANGED intakeVars
        /\ rpc' = [rpc EXCEPT ![q] = IF Body(q) \cap reorder = {} THEN "ok" ELSE "gap"]
    BY <1>4 DEF Reply, loopVars
  <2>b. \A r \in Requesters : Body(r)' = Body(r)
    BY <2>1, BodySame
  <2>2. cur = 0
    BY <2>1 DEF HeldInv, ReceiverInv, Frontier
  <2>3. Taken = {}
    BY <2>2 DEF Taken
  <2>4. Body(q) \subseteq Shown \cup reorder
    <3>1. Body(q) \subseteq Held
      BY <1>t, <2>1 DEF ConfirmedKept
    <3> QED BY <2>3, <3>1 DEF Held, Buffered, Shown
  <2> HIDE DEF Body
  <2>5. True(q)
    <3>1. CASE Body(q) \cap reorder = {}
      <4>1. Body(q) \subseteq Have
        BY <2>4, <3>1 DEF Have
      <4> QED BY <1>k, <2>b, <4>1
    <3>2. CASE Body(q) \cap reorder # {}
      <4>1. rpc'[q] = "gap"
        BY <1>t, <2>1, <3>2
      <4>2. Body(q) \subseteq Have \cup Buffered
        BY <2>4 DEF Have, Buffered
      <4> HIDE DEF Have, Buffered
      <4>3. Body(q)' \subseteq Have' \cup Buffered'
        BY <1>h, <2>b, <4>2
      <4> QED BY <4>1, <4>3 DEF True
    <3> QED BY <3>1, <3>2
  <2>6. ASSUME NEW r \in Requesters, r # q PROVE True(r)
    <3>1. rpc'[r] = rpc[r]
      BY <1>t, <2>1, <2>6
    <3> QED BY <1>s, <2>b, <3>1
  <2> QED BY <1>a, <2>5, <2>6
<1> QED BY <1>1, <1>2, <1>3, <1>4, Zenon DEF UpStep, Serving

\* One publication's handler moves: only its own messages can leave the handlers.
LEMMA HandlerStep ==
  ASSUME NEW b \in Batches, NEW s, pub \in [Batches -> PubStates], pub' = [pub EXCEPT ![b] = s], NEW m,
         InHandler(m)
  PROVE  InHandler(m)' \/ (m \in b /\ pub[b] \in {"queueing", "offering", "copying"})
<1>1. PICK c \in Batches : m \in c /\ pub[c] \in {"queueing", "offering", "copying"}
  BY DEF InHandler
<1>2. CASE c = b
  BY <1>1, <1>2
<1>3. CASE c # b
  <2>1. pub'[c] = pub[c]
    BY <1>3
  <2> QED BY <1>1, <2>1 DEF InHandler
<1> QED BY <1>2, <1>3

\* Nothing leaves the channel when a batch is appended.
LEMMA QueueStep ==
  ASSUME NEW b \in Batches, queue \in Seq(Batches), queue' = Append(queue, b)
  PROVE  /\ \A m : InQueue(m) => InQueue(m)'
         /\ \A m \in b : InQueue(m)'
<1>1. Len(queue') = Len(queue) + 1 /\ Len(queue) \in Nat
  OBVIOUS
<1>2. ASSUME NEW i \in 1..Len(queue) PROVE i \in 1..Len(queue') /\ queue'[i] = queue[i]
  BY <1>1
<1>3. Len(queue) + 1 \in 1..Len(queue') /\ queue'[Len(queue) + 1] = b
  BY <1>1
<1>4. ASSUME NEW m, InQueue(m) PROVE InQueue(m)'
  BY <1>2, <1>4 DEF InQueue
<1>5. ASSUME NEW m \in b PROVE InQueue(m)'
  BY <1>3 DEF InQueue
<1> QED BY <1>4, <1>5

\* What somebody has to do something about is never dropped by the publications.
LEMMA PublishingForgetsNone ==
  ASSUME HeldInv, Serves, Publishing
  PROVE  NoneForgotten'
<1>t. Typed /\ AnswersHeld /\ NoneForgotten /\ pub \in [Batches -> PubStates] /\ queue \in Seq(Batches)
  BY DEF HeldInv, ReceiverInv, Serves, Typed, PublicationTypes
<1>h. Have \subseteq Have' /\ Have \cup Buffered \subseteq Have' \cup Buffered'
  BY HaveGrows DEF UpStep
<1> DEFINE Fine(m) == m \in Have' \/ Owed(m)'
<1>a. ASSUME NEW m \in Published
      PROVE  m \in Have \/ needed \/ InHandler(m) \/ InQueue(m) \/ InPush(m) \/ (m \in Buffered /\ GapKnown)
  BY <1>t, Zenon DEF NoneForgotten, Owed
<1>f. ASSUME NEW m, m \in Have \/ m \in Have' \/ needed' \/ InHandler(m)' \/ InQueue(m)' \/ InPush(m)' \/ (m \in Buffered /\ GapKnown')
      PROVE  Fine(m)
  <2>1. (m \in Have => m \in Have') /\ (m \in Buffered => m \in Have' \/ m \in Buffered')
    BY <1>h
  <2> QED BY <1>f, <2>1, Zenon DEF Owed
<1>z. (\A m \in Published' : Fine(m)) => NoneForgotten'
  BY Zenon DEF NoneForgotten
<1> HIDE DEF Fine
<1>b. PICK b \in Batches :
         \/ Reserve(b) \/ AcceptLocal(b) \/ AcceptCopied(b) \/ AcceptRefused(b)
         \/ Enqueue(b) \/ Offer(b) \/ CopyOk(b) \/ CopyFailed(b)
  BY Zenon DEF Publishing
<1>1. \E s : pub' = [pub EXCEPT ![b] = s]
  BY <1>b DEF Reserve, AcceptLocal, AcceptCopied, AcceptRefused, Enqueue, Offer, CopyOk, CopyFailed, NoCopy
<1>2. \A m : InHandler(m) => InHandler(m)' \/ (m \in b /\ pub[b] \in {"queueing", "offering", "copying"})
  BY <1>1, <1>t, HandlerStep
<1>3. loop' = loop /\ item' = item
  BY <1>b DEF Reserve, AcceptLocal, AcceptCopied, AcceptRefused, Enqueue, Offer, CopyOk, CopyFailed, loopVars
<1>4. \A m : InPush(m) => InPush(m)'
  BY <1>3 DEF InPush
<1>5. needed => needed'
  BY <1>b, Zenon DEF Reserve, AcceptLocal, AcceptCopied, AcceptRefused, Enqueue, Offer, CopyOk, CopyFailed, repairVars,
               Bump
<1>6. (gapPending => gapPending') /\ (gapAgain => gapAgain')
  <2>1. (gapPending' = gapPending /\ gapAgain' = gapAgain) \/ CopyOk(b)
    BY <1>b DEF Reserve, AcceptLocal, AcceptCopied, AcceptRefused, Enqueue, Offer, CopyFailed, repairVars
  <2>2. ASSUME CopyOk(b) PROVE (gapPending => gapPending') /\ (gapAgain => gapAgain')
    <3>1. gapPending' = (gapPending \/ rpc[b] = "gap")
      BY <2>2 DEF CopyOk, Heard
    <3>2. gapAgain' = (gapAgain \/ (rpc[b] = "gap" /\ loop \in {"asking", "quiet", "stalled"}))
      BY <2>2 DEF CopyOk, Heard
    <3> QED BY <3>1, <3>2, Zenon
  <2>3. ASSUME gapPending' = gapPending, gapAgain' = gapAgain
        PROVE  (gapPending => gapPending') /\ (gapAgain => gapAgain')
    BY <2>3, Zenon
  <2> QED BY <2>1, <2>2, <2>3
<1>7. GapKnown => GapKnown'
  BY <1>3, <1>6, Zenon DEF GapKnown
<1>8. queue' = queue \/ queue' = Append(queue, b)
  BY <1>b DEF Reserve, AcceptLocal, AcceptCopied, AcceptRefused, Enqueue, Offer, CopyOk, CopyFailed, queueVars
<1>9. \A m : InQueue(m) => InQueue(m)'
  <2>1. CASE queue' = queue
    BY <2>1 DEF InQueue
  <2>2. CASE queue' = Append(queue, b)
    BY <1>t, <2>2, QueueStep
  <2> QED BY <1>8, <2>1, <2>2
<1>10. ASSUME NEW m \in Published, m \notin b \/ pub[b] \notin {"queueing", "offering", "copying"} PROVE Fine(m)
  BY <1>10, <1>a, <1>f, <1>2, <1>4, <1>5, <1>7, <1>9, Zenon
<1>11. ASSUME NEW m \in Published', m \in b, m \notin Published \/ pub[b] \in {"queueing", "offering", "copying"}
       PROVE  Fine(m)
  <2>e. \A s : pub' = [pub EXCEPT ![b] = s] => pub'[b] = s
    BY <1>t
  <2>n. ASSUME NoCopy(b) PROVE Fine(m)
    <3>1. CASE pub' = [pub EXCEPT ![b] = "offering"]
      <4>1. InHandler(m)'
        BY <1>11, <2>e, <3>1 DEF InHandler
      <4> QED BY <1>f, <4>1
    <3>2. CASE excused' = excused \cup b
      <4>1. m \in Have'
        BY <1>11, <3>2 DEF Have
      <4> QED BY <1>f, <4>1
    <3> QED BY <2>n, <3>1, <3>2 DEF NoCopy
  <2>1. CASE Reserve(b) \/ AcceptRefused(b)
    <3>1. Published' = Published /\ pub[b] \in {"new", "reserved"}
      BY <2>1 DEF Reserve, AcceptRefused, Published
    <3> QED BY <1>11, <3>1
  <2>2. CASE AcceptLocal(b)
    <3>1. pub'[b] \in {"queueing", "offering"}
      BY <2>e, <2>2 DEF AcceptLocal
    <3>2. InHandler(m)'
      BY <1>11, <3>1 DEF InHandler
    <3> QED BY <1>f, <3>2
  <2>3. CASE AcceptCopied(b)
    <3>1. CASE pub' = [pub EXCEPT ![b] = "copying"]
      <4>1. InHandler(m)'
        BY <1>11, <2>e, <3>1 DEF InHandler
      <4> QED BY <1>f, <4>1
    <3> QED BY <2>n, <2>3, <3>1 DEF AcceptCopied
  <2>4. CASE Enqueue(b)
    <3>1. queue' = Append(queue, b)
      BY <2>4 DEF Enqueue
    <3>2. InQueue(m)'
      BY <1>t, <1>11, <3>1, QueueStep
    <3> QED BY <1>f, <3>2
  <2>5. CASE Offer(b)
    <3>1. queue' = Append(queue, b) \/ needed'
      BY <2>5, Zenon DEF Offer, Bump
    <3>2. CASE queue' = Append(queue, b)
      <4>1. InQueue(m)'
        BY <1>t, <1>11, <3>2, QueueStep
      <4> QED BY <1>f, <4>1
    <3>3. ASSUME needed' PROVE Fine(m)
      BY <1>f, <3>3, Zenon
    <3> QED BY <3>1, <3>2, <3>3, Zenon
  <2>6. CASE CopyOk(b)
    <3>1. rpc[b] \in {"ok", "gap"} /\ pub[b] = "copying"
      BY <2>6 DEF CopyOk, Heard
    <3>2. b \in Requesters /\ Body(b) = b
      BY <1>t, <3>1, RequesterFacts DEF Typed, PublicationTypes, Body
    <3>3. (rpc[b] = "ok" => b \subseteq Have) /\ (rpc[b] = "gap" => b \subseteq Have \cup Buffered)
      BY <1>t, <3>2 DEF AnswersHeld
    <3>4. CASE rpc[b] = "ok"
      BY <1>11, <1>f, <3>3, <3>4
    <3>5. CASE rpc[b] = "gap"
      <4>1. gapPending' = (gapPending \/ rpc[b] = "gap")
        BY <2>6 DEF CopyOk, Heard
      <4>2. gapAgain' = (gapAgain \/ (rpc[b] = "gap" /\ loop \in {"asking", "quiet", "stalled"}))
        BY <2>6 DEF CopyOk, Heard
      <4>3. gapPending'
        BY <3>5, <4>1, Zenon
      <4>4. loop' = "quiet" => loop \in {"asking", "quiet", "stalled"}
        BY <1>3
      <4>5. GapKnown'
        BY <3>5, <4>2, <4>3, <4>4, Zenon DEF GapKnown
      <4>6. m \in Have \/ m \in Buffered
        BY <1>11, <3>3, <3>5
      <4> QED BY <1>f, <4>5, <4>6, Zenon
    <3> QED BY <3>1, <3>4, <3>5
  <2>7. CASE CopyFailed(b)
    BY <2>7, <2>n DEF CopyFailed
  <2> QED BY <1>b, <2>1, <2>2, <2>3, <2>4, <2>5, <2>6, <2>7
<1>12. Published' \subseteq Published \cup b
  <2>1. CASE Sequenced(b)
    BY <1>t, <2>1, SequencedPublished
  <2>2. CASE ~Sequenced(b)
    <3>1. accepted' = accepted
      BY <1>b, <2>2 DEF Reserve, AcceptLocal, AcceptCopied, AcceptRefused, Enqueue, Offer, CopyOk, CopyFailed
    <3> QED BY <3>1 DEF Published
  <2> QED BY <2>1, <2>2
<1>13. ASSUME NEW m \in Published' PROVE Fine(m)
  <2> HIDE DEF Published
  <2>1. m \in Published \/ m \in b
    BY <1>12
  <2> QED BY <1>10, <1>11, <2>1, Zenon
<1> QED BY <1>13, <1>z

\* What somebody has to do something about is never dropped by peerLoop.
LEMMA LoopingForgetsNone ==
  ASSUME HeldInv, Serves, Looping
  PROVE  NoneForgotten'
<1>t. /\ Typed /\ AnswersHeld /\ NoneForgotten /\ FrontierWhole /\ queue \in Seq(Batches)
      /\ op = "idle" /\ (op = "idle" => cur = 0) /\ UNCHANGED intakeVars
  BY SenderQuiet DEF HeldInv, ReceiverInv, Serves, Typed, PublicationTypes, Frontier
<1>h. Have \subseteq Have' /\ Have \cup Buffered \subseteq Have' \cup Buffered'
  BY HaveGrows DEF UpStep
<1> DEFINE Fine(m) == m \in Have' \/ Owed(m)'
<1>a. ASSUME NEW m \in Published
      PROVE  m \in Have \/ needed \/ InHandler(m) \/ InQueue(m) \/ InPush(m) \/ (m \in Buffered /\ GapKnown)
  BY <1>t, Zenon DEF NoneForgotten, Owed
<1>f. ASSUME NEW m, m \in Have \/ needed' \/ InHandler(m)' \/ InQueue(m)' \/ InPush(m)' \/ (m \in Buffered /\ GapKnown')
      PROVE  Fine(m)
  <2>1. (m \in Have => m \in Have') /\ (m \in Buffered => m \in Have' \/ m \in Buffered')
    BY <1>h
  <2> QED BY <1>f, <2>1, Zenon DEF Owed
<1>z. (\A m \in Published : Fine(m)) => NoneForgotten'
  <2>1. Published' = Published
    BY DEF Looping, Take, PushOk, PushRetry, PushDropped, Ask, AskServed, AskAgain, AskQuiet,
           AskStalled, PageDeferred, PageSent, PageOk, PageFailed, PassDone, Published
  <2> QED BY <2>1, Zenon DEF NoneForgotten
<1> HIDE DEF Fine
<1>u. pub' = pub
  BY DEF Looping, Take, PushOk, PushRetry, PushDropped, Ask, AskServed, AskAgain, AskQuiet,
         AskStalled, PageDeferred, PageSent, PageOk, PageFailed, PassDone
<1>p. \A m : InHandler(m) => InHandler(m)'
  BY <1>u DEF InHandler
<1>n. ASSUME needed' PROVE NoneForgotten'
  BY <1>f, <1>n, <1>z, Zenon
<1>k. ASSUME queue' = queue, needed => needed', reorder = {} \/ (GapKnown => GapKnown'),
             loop # "push" \/ (loop' = loop /\ item' = item)
      PROVE  NoneForgotten'
  <2>1. \A m : InQueue(m) => InQueue(m)'
    BY <1>k DEF InQueue
  <2>2. \A m : InPush(m) => InPush(m)'
    BY <1>k DEF InPush
  <2>3. reorder = {} => Buffered = {}
    BY <1>t DEF Buffered, Taken
  <2>4. \A m : m \in Buffered /\ GapKnown => GapKnown'
    BY <1>k, <2>3, Zenon
  <2>5. ASSUME NEW m \in Published PROVE Fine(m)
    BY <1>a, <1>f, <1>k, <1>p, <2>1, <2>2, <2>4, Zenon
  <2> QED BY <1>z, <2>5
<1>1. CASE Take
  <2>1. /\ queue # <<>> /\ loop = "idle" /\ loop' = "push" /\ item' = Head(queue) /\ queue' = Tail(queue)
        /\ needed' = needed /\ gapPending' = gapPending
    BY <1>1 DEF Take, repairVars
  <2>2. GapKnown => GapKnown'
    <3>1. loop' # "quiet"
      BY <2>1
    <3> QED BY <2>1, <3>1, Zenon DEF GapKnown
  <2>3. \A m : InPush(m) => FALSE
    BY <2>1 DEF InPush
  <2>4. ASSUME NEW m, InQueue(m) PROVE InQueue(m)' \/ InPush(m)'
    <3>1. PICK i \in 1..Len(queue) : m \in queue[i]
      BY <2>4 DEF InQueue
    <3>2. CASE i = 1
      <4>1. Head(queue) = queue[1]
        BY <1>t, <2>1
      <4> QED BY <2>1, <3>1, <3>2, <4>1 DEF InPush
    <3>3. CASE i # 1
      <4>1. Len(queue') = Len(queue) - 1 /\ Len(queue) \in Nat
        BY <1>t, <2>1
      <4>2. i - 1 \in 1..Len(queue')
        BY <3>1, <3>3, <4>1
      <4>3. queue'[i - 1] = queue[i]
        <5>1. \A j \in 1..Len(queue') : queue'[j] = queue[j + 1]
          BY <1>t, <2>1, <4>1
        <5>2. (i - 1) + 1 = i
          BY <3>1, <4>1
        <5> QED BY <4>2, <5>1, <5>2
      <4> QED BY <3>1, <4>2, <4>3 DEF InQueue
    <3> QED BY <3>2, <3>3
  <2>5. ASSUME NEW m \in Published PROVE Fine(m)
    BY <1>a, <1>f, <1>p, <2>1, <2>2, <2>3, <2>4, Zenon
  <2> QED BY <1>z, <2>5
<1>2. CASE PushOk
  <2>1. /\ loop = "push" /\ rpc[Loop] \in {"ok", "gap"} /\ loop' = "idle" /\ queue' = queue /\ needed' = needed
        /\ gapPending' = (gapPending \/ rpc[Loop] = "gap")
    BY <1>2 DEF PushOk, Heard, LoopIdle
  <2>2. loop' # "quiet"
    BY <2>1
  <2>3. (GapKnown => GapKnown') /\ (rpc[Loop] = "gap" => GapKnown')
    BY <2>1, <2>2, Zenon DEF GapKnown
  <2>4. (rpc[Loop] = "ok" => item \subseteq Have) /\ (rpc[Loop] = "gap" => item \subseteq Have \cup Buffered)
    BY <1>t, RequesterFacts DEF AnswersHeld, Body
  <2>5. ASSUME NEW m, InPush(m) PROVE m \in Have \/ (m \in Buffered /\ rpc[Loop] = "gap")
    <3>1. m \in item
      BY <2>5 DEF InPush
    <3> QED BY <2>1, <2>4, <3>1
  <2>6. \A m : InQueue(m) => InQueue(m)'
    BY <2>1 DEF InQueue
  <2>7. ASSUME NEW m \in Published PROVE Fine(m)
    BY <1>a, <1>f, <1>p, <2>1, <2>3, <2>5, <2>6, Zenon
  <2> QED BY <1>z, <2>7
<1>3. CASE PushRetry
  <2>1. queue' = queue /\ loop' = loop /\ item' = item /\ needed' = needed /\ gapPending' = gapPending /\ gapAgain' = gapAgain
    BY <1>3 DEF PushRetry, queueVars, repairVars
  <2>2. GapKnown => GapKnown'
    BY <2>1, Zenon DEF GapKnown
  <2> QED BY <1>k, <2>1, <2>2, Zenon
<1>4. CASE PushDropped \/ AskStalled
  <2>1. needed'
    BY <1>4, Zenon DEF PushDropped, AskStalled, Bump
  <2> QED BY <1>n, <2>1, Zenon
<1>5. CASE Ask \/ AskAgain \/ PageDeferred \/ PageSent \/ PageOk \/ PageFailed
  <2>1. queue' = queue /\ loop # "push" /\ loop' # "quiet"
    BY <1>5 DEF Ask, AskAgain, PageDeferred, PageSent, PageOk, PageFailed, queueVars, LoopIdle, Repairing
  <2>2. needed' = needed /\ gapPending' = gapPending
    BY <1>5 DEF Ask, AskAgain, PageDeferred, PageSent, PageOk, PageFailed, repairVars
  <2>3. GapKnown => GapKnown'
    BY <2>1, <2>2, Zenon DEF GapKnown
  <2> QED BY <1>k, <2>1, <2>2, <2>3, Zenon
<1>6. CASE AskServed
  <2>1. queue' = queue /\ loop = "asking" /\ (reorder # {} => loop' = "stalled")
    BY <1>6 DEF AskServed, queueVars
  <2>2. needed' = needed /\ gapPending' = gapPending
    BY <1>6 DEF AskServed, repairVars
  <2>3. loop # "push" /\ (reorder # {} => loop' # "quiet")
    BY <2>1
  <2>4. reorder = {} \/ (GapKnown => GapKnown')
    BY <2>2, <2>3, Zenon DEF GapKnown
  <2> QED BY <1>k, <2>1, <2>2, <2>3, <2>4, Zenon
<1>7. CASE AskQuiet
  <2>1. queue' = queue /\ loop = "quiet" /\ loop' = "idle"
    BY <1>7 DEF AskQuiet, queueVars
  <2>2. needed' = needed /\ gapPending' = gapAgain
    BY <1>7 DEF AskQuiet
  <2>3. loop # "push" /\ loop' # "quiet"
    BY <2>1
  <2>4. GapKnown => GapKnown'
    BY <2>1, <2>2, <2>3, Zenon DEF GapKnown
  <2> QED BY <1>k, <2>1, <2>2, <2>3, <2>4, Zenon
<1>8. CASE PassDone
  <2>1. RepairPage = {} /\ 1..ordinal \subseteq Have
    BY <1>8, <1>t DEF PassDone, FrontierWhole
  <2>2. Published \subseteq Have
    BY ONLY <1>t, <2>1, RepairPageClosed
  <2> HIDE DEF Published, Have
  <2> QED BY <1>f, <1>z, <2>2
<1> QED BY <1>1, <1>2, <1>3, <1>4, <1>5, <1>6, <1>7, <1>8, Zenon DEF Looping

\* Nothing is forgotten while B serves.
LEMMA NoneForgottenStep ==
  ASSUME HeldInv, Serves, UpStep
  PROVE  NoneForgotten'
<1>1. CASE Publishing
  BY <1>1, PublishingForgetsNone
<1>2. CASE Looping
  BY <1>2, LoopingForgetsNone
<1>3. CASE Serving \/ TimePasses
  <2>1. accepted' = accepted /\ pub' = pub /\ queue' = queue /\ loop' = loop /\ item' = item
    BY <1>3 DEF Serving, Serve, ServeLate, Work, Finish, Reply, TimePasses, senderVars, queueVars, loopVars
  <2>2. needed' = needed /\ gapPending' = gapPending /\ gapAgain' = gapAgain
    BY <1>3 DEF Serving, Serve, ServeLate, Work, Finish, Reply, TimePasses, senderVars, repairVars
  <2>3. Have \subseteq Have' /\ Have \cup Buffered \subseteq Have' \cup Buffered'
    BY HaveGrows
  <2>4. ASSUME NEW m \in Published PROVE m \in Have' \/ Owed(m)'
    <3>1. (m \in Have => m \in Have') /\ (m \in Buffered => m \in Have' \/ m \in Buffered')
      BY <2>3
    <3>2. (InHandler(m) => InHandler(m)') /\ (InQueue(m) => InQueue(m)') /\ (InPush(m) => InPush(m)')
      BY <2>1 DEF InHandler, InQueue, InPush
    <3>3. GapKnown => GapKnown'
      BY <2>1, <2>2, Zenon DEF GapKnown
    <3>4. m \in Have \/ Owed(m)
      BY DEF Serves, NoneForgotten
    <3> QED BY <2>2, <3>1, <3>2, <3>3, <3>4, Zenon DEF Owed
  <2>5. Published' = Published
    BY <2>1 DEF Published
  <2> QED BY <2>4, <2>5, Zenon DEF NoneForgotten
<1> QED BY <1>1, <1>2, <1>3, Zenon DEF UpStep

\* A B that has all that was published serves.
LEMMA WholeServes ==
  ASSUME Typed', Published' \subseteq Have'
  PROVE  Serves'
<1>t. /\ accepted' \in Nat /\ through' \in 0..accepted' /\ ordinal' \in 0..accepted'
      /\ item' \subseteq Published' /\ late' \subseteq BOOLEAN \X SUBSET Published'
  BY DEF Typed, IntakeTypes, SenderTypes
<1>1. FrontierWhole'
  <2>1. 1..through' \subseteq Published' /\ 1..ordinal' \subseteq Published'
    BY <1>t DEF Published
  <2> HIDE DEF Have, Published
  <2> QED BY <2>1 DEF FrontierWhole
<1>2. PagesClosed'
  <2>1. ASSUME NEW L, L \subseteq Published', NEW n \in L, NEW k \in 1..n PROVE k \in Have'
    <3>1. n \in 1..accepted'
      BY <2>1 DEF Published
    <3>2. k \in 1..accepted'
      BY ONLY <1>t, <3>1, k \in 1..n
    <3> QED BY <3>2 DEF Published
  <2>2. \A z \in late' : z[2] \subseteq Published'
    BY <1>t
  <2> HIDE DEF Have, Published
  <2>3. ASSUME NEW L, L \subseteq Published' PROVE \A n \in L : \A k \in 1..n : k \in L \cup Have'
    BY <2>1, <2>3
  <2>4. \A n \in item' : \A k \in 1..n : k \in item' \cup Have'
    BY <1>t, <2>3
  <2>5. \A z \in late' : \A n \in z[2] : \A k \in 1..n : k \in z[2] \cup Have'
    BY <2>2, <2>3
  <2> QED BY <2>4, <2>5 DEF PagesClosed, Closed
<1>3. AnswersHeld'
  <2>1. ASSUME NEW r \in Requesters, rpc'[r] # "none" PROVE Body(r)' \subseteq Published'
    BY <2>1 DEF Typed, PublicationTypes, SenderTypes, Body
  <2> HIDE DEF Have, Published, Body
  <2>2. ASSUME NEW r \in Requesters
        PROVE  /\ rpc'[r] = "ok" => Body(r)' \subseteq Have'
               /\ rpc'[r] = "gap" => Body(r)' \subseteq Have' \cup Buffered'
    <3>1. rpc'[r] \in {"ok", "gap"} => Body(r)' \subseteq Have'
      BY <2>1
    <3> QED BY <3>1
  <2> QED BY <2>2 DEF AnswersHeld
<1>4. NoneForgotten'
  BY DEF NoneForgotten
<1> QED BY <1>1, <1>2, <1>3, <1>4 DEF Serves

\* Bootstrap goes through the snapshot without leaving anything live behind.
LEMMA StartingStep ==
  ASSUME HeldInv, HeldInv', boot # "up", Starting, Next
  PROVE  (boot' = "up" => Serves') /\ (boot' # "up" => Starting')
<1>t. Typed /\ IntakeTypes /\ Frontier /\ accepted \in Nat /\ bootCursor \in 0..accepted /\ bootPage \subseteq Published
  BY DEF HeldInv, ReceiverInv, Typed, IntakeTypes, SenderTypes
<1>w. Typed'
  BY DEF HeldInv, ReceiverInv
<1>1. CASE UpStep
  <2>1. boot' = boot /\ bootPage' = bootPage /\ bootCursor' = bootCursor
    <3>1. CASE Publishing \/ Looping
      BY <3>1, SenderQuiet DEF bootVars
    <3>2. CASE Serving \/ TimePasses
      BY <3>2 DEF Serving, Serve, ServeLate, Work, Finish, Reply, TimePasses, bootVars
    <3> QED BY <1>1, <3>1, <3>2 DEF UpStep
  <2>2. Shown \subseteq Shown'
    BY <1>1, HaveGrows
  <2> HIDE DEF Shown
  <2>3. 1..bootCursor' \subseteq Shown'
    BY <2>1, <2>2 DEF Starting
  <2>4. boot' = "accept" => \A n \in bootPage' : \A k \in 1..n : k \in bootPage' \cup Shown'
    BY <2>1, <2>2 DEF Starting
  <2> QED BY <2>1, <2>3, <2>4 DEF Starting
<1>2. CASE Restart \/ BootExit
  <2>1. boot' = "fetch" /\ bootCursor' = 0
    BY <1>2 DEF Restart, BootExit, Reset
  <2>2. 1..bootCursor' = {}
    BY <2>1
  <2> QED BY <2>1, <2>2 DEF Starting
<1>3. CASE BootFetch
  <2> DEFINE rest == {m \in OriginCache : m > bootCursor}
  <2>1. /\ UNCHANGED intakeVars /\ accepted' = accepted
        /\ IF rest = {} THEN boot' = "up" /\ bootCursor' = 0 /\ UNCHANGED bootPage
           ELSE boot' = "accept" /\ UNCHANGED bootCursor /\ bootPage' = PageOf(rest)
    BY <1>3 DEF BootFetch, senderVars, PageOf
  <2>2. Shown' = Shown /\ Published' = Published
    BY <2>1, IntakeSame DEF Shown, Published
  <2>3. rest \subseteq 1..accepted
    BY DEF OriginCache
  <2>4. \A k \in 1..accepted : k \in rest \/ k \in Shown
    <3>1. ASSUME NEW k \in 1..accepted, k \notin expired, ~(k > bootCursor) PROVE k \in 1..bootCursor
      BY <1>t, <3>1
    <3>2. 1..bootCursor \subseteq Shown
      BY DEF Starting
    <3> QED BY <3>1, <3>2 DEF OriginCache, Shown
  <2> HIDE DEF rest
  <2>5. CASE rest = {}
    <3>1. boot' = "up"
      BY <2>1, <2>5
    <3>2. Published' \subseteq Have'
      BY <2>2, <2>4, <2>5 DEF Published, Have
    <3>3. Serves'
      BY ONLY <1>w, <3>2, WholeServes
    <3> QED BY <3>1, <3>3
  <2>6. CASE rest # {}
    <3>1. boot' = "accept" /\ bootCursor' = bootCursor /\ bootPage' = PageOf(rest)
      BY <2>1, <2>6
    <3>2. /\ PageOf(rest) \subseteq rest
          /\ \A n \in PageOf(rest), k \in rest : k <= n => k \in PageOf(rest)
      BY ONLY <1>t, <2>3, PageFacts
    <3>3. ASSUME NEW n \in PageOf(rest), NEW k \in 1..n PROVE k \in PageOf(rest) \cup Shown
      <4>1. n \in 1..accepted
        BY <2>3, <3>2
      <4>2. k \in 1..accepted /\ k <= n
        BY ONLY <1>t, <4>1, k \in 1..n
      <4>3. k \in rest => k \in PageOf(rest)
        BY ONLY <3>2, <4>2, n \in PageOf(rest)
      <4> QED BY ONLY <2>4, <4>2, <4>3
    <3>4. 1..bootCursor' \subseteq Shown'
      BY <2>2, <3>1 DEF Starting
    <3>5. \A n \in bootPage' : \A k \in 1..n : k \in bootPage' \cup Shown'
      BY <2>2, <3>1, <3>3
    <3> QED BY <3>1, <3>4, <3>5 DEF Starting
  <2> QED BY <2>5, <2>6
<1>4. CASE BootAccept
  <2>1. boot = "accept" /\ Bootstrap(bootPage) /\ boot' = "fetch" /\ bootCursor' = Max(bootPage)
    BY <1>4 DEF BootAccept
  <2>2. bootPage \in SUBSET Published
    BY <1>t
  <2>3. bootPage \subseteq Shown'
    BY ONLY <1>t, <2>1, <2>2, ThroughPage
  <2>4. Shown \subseteq Shown'
    <3>1. Stays
      BY <1>4 DEF Stays
    <3>2. Keeps
      BY <1>t, <3>1, KeepsOfStays
    <3> QED BY ONLY <1>t, <3>2, HeldGrows
  <2>5. bootPage # {} /\ bootPage \subseteq 0..accepted
    BY <1>t, <2>1 DEF Typed, SenderTypes, Published
  <2>6. Max(bootPage) \in bootPage
    BY ONLY <1>t, <2>5, MaxOf
  <2>7. \A k \in 1..Max(bootPage) : k \in bootPage \cup Shown
    BY <2>1, <2>6 DEF Starting
  <2> HIDE DEF Shown
  <2>8. 1..bootCursor' \subseteq Shown'
    BY <2>1, <2>3, <2>4, <2>7
  <2> QED BY <2>1, <2>8 DEF Starting
<1>5. CASE BootEmpty
  <2>1. boot' = "up" /\ accepted' = accepted /\ excused' = excused \cup 1..accepted
    BY <1>5 DEF BootEmpty, senderVars
  <2>2. Published' \subseteq Have'
    BY <2>1 DEF Published, Have
  <2>3. Serves'
    BY ONLY <1>w, <2>2, WholeServes
  <2> QED BY <2>1, <2>3
<1> QED BY <1>1, <1>2, <1>3, <1>4, <1>5, Zenon DEF Next, Booting, UpStep

\* The invariant of the copy at B holds in every reachable state.
LEMMA SyncInvariant == Spec => []SyncInv
<1>1. ASSUME Init, HeldInv PROVE SyncInv
  <2>1. /\ boot = "up" /\ accepted = 0 /\ through = 0 /\ ordinal = 0 /\ loop = "idle" /\ late = {}
        /\ rpc = [r \in Requesters |-> "none"]
    BY <1>1 DEF Init, IntakeInit
  <2>2. FrontierWhole
    <3>1. 1..through = {} /\ 1..ordinal = {}
      BY <2>1
    <3> QED BY <3>1 DEF FrontierWhole
  <2>3. PagesClosed /\ AnswersHeld
    BY <2>1 DEF PagesClosed, AnswersHeld
  <2>4. NoneForgotten
    <3>1. Published = {}
      BY <2>1 DEF Published
    <3> QED BY <3>1 DEF NoneForgotten
  <2> QED BY <1>1, <2>1, <2>2, <2>3, <2>4 DEF SyncInv, Serves
<1>2. ASSUME SyncInv, HeldInv', [Next]_vars PROVE SyncInv'
  <2>1. CASE Next
    <3>1. CASE boot # "up"
      <4>1. Starting
        BY <1>2, <3>1 DEF SyncInv
      <4>2. HeldInv /\ HeldInv'
        BY <1>2 DEF SyncInv
      <4>3. (boot' = "up" => Serves') /\ (boot' # "up" => Starting')
        BY ONLY <2>1, <3>1, <4>1, <4>2, StartingStep
      <4> QED BY <4>2, <4>3 DEF SyncInv
    <3>2. CASE boot = "up" /\ UpStep
      <4>1. HeldInv /\ Serves /\ UpStep
        BY <1>2, <3>2 DEF SyncInv
      <4>2. FrontierWhole'
        BY ONLY <4>1, FrontierWholeStep
      <4>3. PagesClosed'
        BY ONLY <4>1, PagesClosedStep
      <4>4. AnswersHeld'
        BY ONLY <4>1, AnswersHeldStep
      <4>5. NoneForgotten'
        BY ONLY <4>1, NoneForgottenStep
      <4>6. boot' = boot
        <5>1. CASE Publishing \/ Looping
          BY <5>1, SenderQuiet DEF bootVars
        <5>2. CASE Serving \/ TimePasses
          BY <5>2 DEF Serving, Serve, ServeLate, Work, Finish, Reply, TimePasses, bootVars
        <5> QED BY <3>2, <5>1, <5>2 DEF UpStep
      <4> QED BY <1>2, <3>2, <4>2, <4>3, <4>4, <4>5, <4>6 DEF SyncInv, Serves
    <3>3. CASE boot = "up" /\ ~UpStep
      <4>1. Restart
        BY <2>1, <3>3 DEF Next, UpStep, Booting, BootFetch, BootAccept, BootExit, BootEmpty
      <4>2. boot' = "fetch" /\ bootCursor' = 0
        BY <4>1 DEF Restart, Reset
      <4>3. 1..bootCursor' = {}
        BY <4>2
      <4> QED BY <1>2, <4>2, <4>3 DEF SyncInv, Starting
    <3> QED BY <3>1, <3>2, <3>3
  <2>2. CASE UNCHANGED vars
    <3>1. /\ UNCHANGED intakeVars /\ accepted' = accepted /\ pub' = pub /\ rpc' = rpc /\ queue' = queue /\ loop' = loop
          /\ item' = item /\ ordinal' = ordinal /\ late' = late
          /\ boot' = boot /\ bootPage' = bootPage /\ bootCursor' = bootCursor /\ excused' = excused
      BY <2>2 DEF vars, senderVars, queueVars, loopVars, repairVars, bootVars, histories
    <3>2. needed' = needed /\ gapPending' = gapPending /\ gapAgain' = gapAgain
      BY <2>2 DEF vars, senderVars, repairVars
    <3>3. /\ through' = through /\ cache' = cache /\ expired' = expired /\ reorder' = reorder /\ cur' = cur
          /\ fromGap' = fromGap
      BY <3>1, IntakeSame
    <3>4. Shown' = Shown /\ Have' = Have
      BY <3>1, <3>3 DEF Shown, Have
    <3>5. Buffered' = Buffered
      BY <3>3 DEF Buffered, Taken
    <3>6. \A r \in Requesters : Body(r)' = Body(r)
      BY <3>1, BodySame
    <3>7. Starting => Starting'
      BY <3>1, <3>4 DEF Starting
    <3>8. Serves => Serves'
      <4> HIDE DEF Have, Buffered, Body
      <4>1. FrontierWhole => FrontierWhole'
        BY <3>1, <3>3, <3>4 DEF FrontierWhole
      <4>2. PagesClosed => PagesClosed'
        BY <3>1, <3>4 DEF PagesClosed, Closed
      <4>3. AnswersHeld => AnswersHeld'
        BY <3>1, <3>4, <3>5, <3>6 DEF AnswersHeld
      <4>4. NoneForgotten => NoneForgotten'
        <5>1. \A m : (InHandler(m) => InHandler(m)') /\ (InQueue(m) => InQueue(m)') /\ (InPush(m) => InPush(m)')
          BY <3>1 DEF InHandler, InQueue, InPush
        <5>2. GapKnown => GapKnown'
          BY <3>1, <3>2, Zenon DEF GapKnown
        <5>3. Published' = Published
          BY <3>1 DEF Published
        <5>4. ASSUME NEW m, Owed(m) PROVE Owed(m)'
          BY <3>2, <3>5, <5>1, <5>2, <5>4, Zenon DEF Owed
        <5> QED BY <3>4, <5>3, <5>4, Zenon DEF NoneForgotten
      <4> QED BY <4>1, <4>2, <4>3, <4>4 DEF Serves
    <3> QED BY <1>2, <3>1, <3>7, <3>8 DEF SyncInv
  <2> QED BY <1>2, <2>1, <2>2
<1>3. Init /\ HeldInv => SyncInv
  BY <1>1
<1> QED BY <1>2, <1>3, HeldInvariant, PTL DEF Spec

\* acceptReplicatedBatch, acceptBatchLocked, drainContiguousLocked and the bootstrap: for every
\* order, loss and lateness of copies, pages and answers, a replica that serves never shows a
\* message while an earlier one is live and absent, unless the origin excused it.
THEOREM NoHoleServed == Spec => []NoLiveHole
<1>1. SyncInv => NoLiveHole
  <2> SUFFICES ASSUME SyncInv, boot = "up", NEW n \in cache, NEW k \in 1..(n - 1)
               PROVE  k \in cache \cup expired \cup excused
    BY DEF NoLiveHole
  <2>1. cache \subseteq 1..through /\ through \in Nat /\ 1..through \subseteq Have
    <3>1. Frontier /\ IntakeTypes /\ FrontierWhole
      BY DEF SyncInv, Serves, HeldInv, ReceiverInv, Typed
    <3> QED BY <3>1 DEF Frontier, IntakeTypes, FrontierWhole
  <2>2. n \in 1..through
    BY <2>1
  <2>3. k \in 1..through
    BY ONLY <2>1, <2>2, k \in 1..(n - 1)
  <2> QED BY <2>1, <2>3 DEF Have, Shown
<1> QED BY <1>1, SyncInvariant, PTL

\* peerLoop, enqueuePeerBatchExcept, replicateOne, repair and checkPeerGap: when the origin has
\* nothing queued, in flight, due for repair or reported as a gap, the replica has every live
\* message: no schedule of drops, retries, late requests, passes and restarts loses one for good.
THEOREM NothingLostForGood == Spec => []SettledComplete
<1>1. SyncInv => SettledComplete
  <2> SUFFICES ASSUME SyncInv, Settled, NEW m \in 1..accepted PROVE m \in cache \cup expired \cup excused
    BY DEF SettledComplete
  <2>1. m \in Have \/ Owed(m)
    BY DEF Settled, SyncInv, Serves, NoneForgotten, Published
  <2>2. ~InHandler(m)
    BY DEF Settled, InHandler
  <2>3. ~InPush(m)
    BY DEF Settled, InPush
  <2>4. ~InQueue(m)
    <3>1. Len(queue) = 0
      BY DEF Settled
    <3> QED BY <3>1 DEF InQueue
  <2>5. ~needed /\ ~GapKnown
    BY Zenon DEF Settled, GapKnown
  <2>6. ~Owed(m)
    BY <2>2, <2>3, <2>4, <2>5, Zenon DEF Owed
  <2> QED BY <2>1, <2>6 DEF Have, Shown
<1> QED BY <1>1, SyncInvariant, PTL

-----------------------------------------------------------------------------
(* The memory of the peer's queue.                                          *)

Waits == {"reserved", "queueing"}
Waiting == {b \in Batches : pub[b] \in Waits}
Size == [b \in Batches |-> Cardinality(b)]
QueueSizes == [i \in 1..Len(queue) |-> Cardinality(queue[i])]

ReservedBytes == SumFunctionOnSet(Size, Waiting)
ChannelBytes == SumFunctionOnSet(QueueSizes, 1..Len(queue))
LoopBytes == IF loop = "push" THEN Cardinality(item) ELSE IF loop = "page" THEN PageBytes ELSE 0

\* The size of a publication, and the publications that hold a reservation.
LEMMA WaitingFacts ==
  /\ \A b \in Batches : Cardinality(b) \in Nat /\ Size[b] = Cardinality(b)
  /\ Waiting \subseteq Batches /\ IsFiniteSet(Waiting)
  /\ \A b \in Waiting : Size[b] \in Nat
<1>1. \A b \in Batches : Cardinality(b) \in Nat /\ Size[b] = Cardinality(b)
  BY IntakeTyped, FS_CardinalityType DEF Size
<1>2. Waiting \subseteq Batches
  BY DEF Waiting
<1>3. IsFiniteSet(Waiting)
  BY <1>2, IntakeTyped, FS_Subset
<1> QED BY <1>1, <1>2, <1>3

\* What is held is counted in natural numbers.
LEMMA BytesNat ==
  ASSUME Typed
  PROVE  ReservedBytes \in Nat /\ ChannelBytes \in Nat /\ LoopBytes \in Nat /\ Cardinality(item) \in Nat
<1>1. ReservedBytes \in Nat
  BY WaitingFacts, SumNat DEF ReservedBytes
<1>2. ChannelBytes \in Nat
  <2>1. queue \in Seq(Batches) /\ Len(queue) \in Nat
    BY DEF Typed, PublicationTypes
  <2>2. IsFiniteSet(1..Len(queue))
    BY <2>1, FS_Interval
  <2>3. \A i \in 1..Len(queue) : QueueSizes[i] \in Nat
    BY <2>1, WaitingFacts DEF QueueSizes
  <2> QED BY ONLY <2>2, <2>3, SumNat DEF ChannelBytes
<1>3. Cardinality(item) \in Nat
  <2>1. item \subseteq Published /\ IntakeTypes
    BY DEF Typed, SenderTypes
  <2>2. IsFiniteSet(item)
    BY <2>1, PublishedFinite DEF IntakeTypes
  <2> QED BY <2>2, FS_CardinalityType
<1>4. LoopBytes \in Nat
  BY <1>3, SenderTyped DEF LoopBytes
<1> QED BY <1>1, <1>2, <1>3, <1>4

\* A publication takes a reservation.
LEMMA ReservedJoins ==
  ASSUME NEW b \in Batches, pub \in [Batches -> PubStates], pub[b] \notin Waits,
         pub' = [pub EXCEPT ![b] = "reserved"]
  PROVE  ReservedBytes' = ReservedBytes + Cardinality(b)
<1>1. Waiting' = Waiting \cup {b} /\ b \notin Waiting
  BY DEF Waiting, Waits
<1>2. IsFiniteSet(Waiting) /\ (\A y \in Waiting \cup {b} : Size[y] \in Int) /\ Size[b] = Cardinality(b)
  BY WaitingFacts
<1>3. SumFunctionOnSet(Size, Waiting \cup {b}) = SumFunctionOnSet(Size, Waiting) + Size[b]
  BY ONLY <1>1, <1>2, SumAdd
<1>4. Size' = Size
  BY DEF Size
<1> QED BY <1>1, <1>2, <1>3, <1>4 DEF ReservedBytes

\* A publication gives its reservation up.
LEMMA ReservedLeaves ==
  ASSUME NEW b \in Batches, pub \in [Batches -> PubStates], pub[b] \in Waits,
         NEW s, s \notin Waits, pub' = [pub EXCEPT ![b] = s]
  PROVE  ReservedBytes' = ReservedBytes - Cardinality(b)
<1>1. Waiting' = Waiting \ {b} /\ b \in Waiting
  BY DEF Waiting
<1>2. IsFiniteSet(Waiting) /\ (\A y \in Waiting : Size[y] \in Int) /\ Size[b] = Cardinality(b)
  BY WaitingFacts
<1>3. SumFunctionOnSet(Size, Waiting \ {b}) = SumFunctionOnSet(Size, Waiting) - Size[b]
  BY ONLY <1>1, <1>2, SumRemove
<1>4. Size' = Size
  BY DEF Size
<1> QED BY <1>1, <1>2, <1>3, <1>4 DEF ReservedBytes

\* A publication moves without touching the reservations.
LEMMA ReservedSame ==
  ASSUME NEW b \in Batches, pub \in [Batches -> PubStates], NEW s, pub' = [pub EXCEPT ![b] = s],
         pub[b] \in Waits <=> s \in Waits
  PROVE  ReservedBytes' = ReservedBytes
<1>1. Waiting' = Waiting
  BY DEF Waiting
<1>2. Size' = Size
  BY DEF Size
<1> QED BY <1>1, <1>2 DEF ReservedBytes

\* A batch joins the channel.
LEMMA ChannelAppends ==
  ASSUME NEW b \in Batches, queue \in Seq(Batches), queue' = Append(queue, b)
  PROVE  ChannelBytes' = ChannelBytes + Cardinality(b)
<1> DEFINE n == Len(queue)
<1>1. Len(queue') = n + 1 /\ n \in Nat
  OBVIOUS
<1>2. \A i \in 1..n : queue'[i] = queue[i] /\ queue[i] \in Batches
  OBVIOUS
<1>3. queue'[n + 1] = b
  OBVIOUS
<1> DEFINE after == QueueSizes'
<1>4. /\ \A i \in 1..n : after[i] \in Int /\ after[i] = QueueSizes[i]
      /\ after[n + 1] = Cardinality(b) /\ after[n + 1] \in Int
  BY <1>1, <1>2, <1>3, WaitingFacts DEF QueueSizes
<1>5. ChannelBytes' = SumFunctionOnSet(after, 1..(n + 1)) /\ ChannelBytes = SumFunctionOnSet(QueueSizes, 1..n)
  BY <1>1 DEF ChannelBytes
<1> HIDE DEF n, after
<1>6. 1..(n + 1) = (1..n) \cup {n + 1} /\ n + 1 \notin 1..n
  BY ONLY <1>1
<1>10. IsFiniteSet(1..n)
  BY <1>1, FS_Interval
<1>7. \A y \in (1..n) \cup {n + 1} : after[y] \in Int
  BY <1>4
<1>8. SumFunctionOnSet(after, (1..n) \cup {n + 1}) = SumFunctionOnSet(after, 1..n) + after[n + 1]
  <2> DEFINE S == 1..n
             x == n + 1
  <2>1. IsFiniteSet(S) /\ x \notin S /\ \A y \in S \cup {x} : after[y] \in Int
    BY <1>6, <1>7, <1>10
  <2> HIDE DEF S, x
  <2>2. SumFunctionOnSet(after, S \cup {x}) = SumFunctionOnSet(after, S) + after[x]
    BY ONLY <2>1, SumAdd
  <2> QED BY <2>2 DEF S, x
<1>9. SumFunctionOnSet(after, 1..n) = SumFunctionOnSet(QueueSizes, 1..n)
  BY ONLY <1>4, <1>10, SumSame
<1> QED BY <1>4, <1>5, <1>6, <1>8, <1>9

\* peerLoop takes the first batch of the channel.
LEMMA ChannelTakes ==
  ASSUME queue \in Seq(Batches), queue # <<>>, queue' = Tail(queue)
  PROVE  ChannelBytes' = ChannelBytes - Cardinality(Head(queue))
<1> DEFINE n == Len(queue')
<1>1. Len(queue) = n + 1 /\ n \in Nat
  OBVIOUS
<1>2. \A i \in 1..n : queue'[i] = queue[i + 1] /\ i + 1 \in 1..(n + 1)
  BY <1>1
<1>3. Head(queue) = queue[1] /\ \A i \in 1..(n + 1) : queue[i] \in Batches
  BY <1>1
<1> DEFINE after == QueueSizes'
<1>4. \A i \in 1..(n + 1) : QueueSizes[i] = Cardinality(queue[i]) /\ QueueSizes[i] \in Int
  BY <1>1, <1>3, WaitingFacts DEF QueueSizes
<1>5. \A i \in 1..n : after[i] = Cardinality(queue[i + 1])
  BY <1>2 DEF QueueSizes
<1>6. ChannelBytes' = SumFunctionOnSet(after, 1..n) /\ ChannelBytes = SumFunctionOnSet(QueueSizes, 1..(n + 1))
  BY <1>1 DEF ChannelBytes
<1> HIDE DEF n, after
<1>7. Window(after, QueueSizes, 1, n)
  BY <1>2, <1>4, <1>5 DEF Window
<1>8. SumFunctionOnSet(after, 1..n) = SumFunctionOnSet(QueueSizes, (1 + 1)..(1 + n))
  BY ONLY <1>1, <1>7, 1 \in Nat, SumShift
<1>9. (1 + 1)..(1 + n) = (1..(n + 1)) \ {1} /\ 1 \in 1..(n + 1)
  BY ONLY <1>1
<1>11. IsFiniteSet(1..(n + 1))
  BY <1>1, FS_Interval
<1>10. SumFunctionOnSet(QueueSizes, (1..(n + 1)) \ {1}) = SumFunctionOnSet(QueueSizes, 1..(n + 1)) - QueueSizes[1]
  BY ONLY <1>4, <1>9, <1>11, SumRemove
<1> QED BY <1>3, <1>4, <1>6, <1>8, <1>9, <1>10

\* The high-water mark is part of the queue's memory.
LEMMA HighWaterFits == HighWater \in Nat /\ HighWater <= QueueBytes
<1>1. QueueBytes \in Nat /\ QueueBytes >= 1
  BY SenderTyped
<1>2. (QueueBytes * 3) \div 4 \in 0..QueueBytes
  BY <1>1
<1> DEFINE S == {1, (QueueBytes * 3) \div 4}
<1>3. S \subseteq 0..QueueBytes /\ S # {}
  BY <1>1, <1>2
<1>4. Max(S) \in 0..QueueBytes
  BY ONLY <1>1, <1>3, MaxOf
<1> QED BY <1>1, <1>4 DEF HighWater

\* The ledger in terms of its three parts.
Ledger == queuedBytes = ReservedBytes + ChannelBytes + LoopBytes /\ queuedBytes <= QueueBytes

\* Nothing moves in the ledger.
LEMMA LedgerSame ==
  ASSUME Ledger, pub' = pub, queue' = queue, queuedBytes' = queuedBytes, LoopBytes' = LoopBytes
  PROVE  Ledger'
<1>1. ReservedBytes' = ReservedBytes
  BY DEF ReservedBytes, Size, Waiting
<1>2. ChannelBytes' = ChannelBytes
  BY DEF ChannelBytes, QueueSizes
<1> QED BY <1>1, <1>2 DEF Ledger

\* Publications keep the ledger.
LEMMA PublishingLedger ==
  ASSUME Typed, Ledger, Publishing
  PROVE  Ledger'
<1>t. /\ pub \in [Batches -> PubStates] /\ queue \in Seq(Batches)
      /\ ReservedBytes \in Nat /\ ChannelBytes \in Nat /\ LoopBytes \in Nat
      /\ QueueBytes \in Nat /\ HighWater \in Nat /\ HighWater <= QueueBytes
  BY BytesNat, HighWaterFits, SenderTyped DEF Typed, PublicationTypes
<1>l. queuedBytes = ReservedBytes + ChannelBytes + LoopBytes /\ queuedBytes <= QueueBytes
  BY DEF Ledger
<1>b. PICK b \in Batches :
         \/ Reserve(b) \/ AcceptLocal(b) \/ AcceptCopied(b) \/ AcceptRefused(b)
         \/ Enqueue(b) \/ Offer(b) \/ CopyOk(b) \/ CopyFailed(b)
  BY Zenon DEF Publishing
<1>c. Cardinality(b) \in Nat
  BY WaitingFacts
<1>n. ReservedBytes \in Nat /\ ChannelBytes \in Nat /\ LoopBytes \in Nat /\ QueueBytes \in Nat
  BY <1>t
<1>p. LoopBytes' = LoopBytes
  <2>1. loop' = loop /\ item' = item
    BY <1>b DEF Reserve, AcceptLocal, AcceptCopied, AcceptRefused, Enqueue, Offer, CopyOk, CopyFailed, loopVars
  <2> QED BY <2>1 DEF LoopBytes
<1>q. queue' = queue => ChannelBytes' = ChannelBytes
  BY DEF ChannelBytes, QueueSizes
<1>s. ASSUME NEW s, pub' = [pub EXCEPT ![b] = s], pub[b] \in Waits <=> s \in Waits, queue' = queue, queuedBytes' = queuedBytes
      PROVE  Ledger'
  <2>1. ReservedBytes' = ReservedBytes
    BY ONLY <1>s, <1>t, b \in Batches, ReservedSame
  <2> QED BY <1>l, <1>p, <1>q, <1>s, <2>1 DEF Ledger
<1>1. CASE Reserve(b)
  <2>1. /\ pub[b] = "new" /\ pub' = [pub EXCEPT ![b] = "reserved"] /\ queue' = queue
        /\ queuedBytes' = queuedBytes + Cardinality(b)
        /\ queuedBytes + Cardinality(b) <= HighWater \/ (queuedBytes = 0 /\ Cardinality(b) <= QueueBytes)
    BY <1>1 DEF Reserve
  <2>2. pub[b] \notin Waits
    BY <2>1 DEF Waits
  <2>3. ReservedBytes' = ReservedBytes + Cardinality(b)
    BY ONLY <1>t, <2>1, <2>2, b \in Batches, ReservedJoins
  <2>4. queuedBytes + Cardinality(b) <= QueueBytes
    BY ONLY <1>c, <1>l, <1>t, <2>1
  <2>5. ChannelBytes' = ChannelBytes /\ queuedBytes' = queuedBytes + Cardinality(b)
    BY <1>q, <2>1
  <2> QED BY ONLY <1>c, <1>l, <1>n, <1>p, <2>3, <2>4, <2>5 DEF Ledger
<1>2. CASE AcceptLocal(b)
  <2>1. queue' = queue /\ queuedBytes' = queuedBytes
    BY <1>2 DEF AcceptLocal, queueVars
  <2>2. \/ pub[b] = "reserved" /\ pub' = [pub EXCEPT ![b] = "queueing"]
        \/ pub[b] = "new" /\ pub' = [pub EXCEPT ![b] = "offering"]
    BY <1>2 DEF AcceptLocal
  <2> QED BY <1>s, <2>1, <2>2 DEF Waits
<1>3. CASE AcceptCopied(b) \/ CopyFailed(b)
  <2>1. queue' = queue /\ queuedBytes' = queuedBytes /\ pub[b] \in {"new", "copying"}
    BY <1>3 DEF AcceptCopied, CopyFailed, queueVars
  <2>2. \E s \in {"copying", "offering", "done"} : pub' = [pub EXCEPT ![b] = s]
    BY <1>3 DEF AcceptCopied, CopyFailed, NoCopy
  <2> QED BY <1>s, <2>1, <2>2 DEF Waits
<1>4. CASE AcceptRefused(b)
  <2>1. /\ pub[b] = "reserved" /\ pub' = [pub EXCEPT ![b] = "new"] /\ queue' = queue
        /\ queuedBytes' = queuedBytes - Cardinality(b)
    BY <1>4 DEF AcceptRefused
  <2>2. pub[b] \in Waits /\ "new" \notin Waits
    BY <2>1 DEF Waits
  <2>3. ReservedBytes' = ReservedBytes - Cardinality(b)
    BY ONLY <1>t, <2>1, <2>2, b \in Batches, ReservedLeaves
  <2> QED BY <1>c, <1>l, <1>p, <1>q, <1>t, <2>1, <2>3 DEF Ledger
<1>5. CASE Enqueue(b)
  <2>1. /\ pub[b] = "queueing" /\ pub' = [pub EXCEPT ![b] = "done"] /\ queue' = Append(queue, b)
        /\ queuedBytes' = queuedBytes
    BY <1>5 DEF Enqueue
  <2>2. pub[b] \in Waits /\ "done" \notin Waits
    BY <2>1 DEF Waits
  <2>3. ReservedBytes' = ReservedBytes - Cardinality(b)
    BY ONLY <1>t, <2>1, <2>2, b \in Batches, ReservedLeaves
  <2>4. ChannelBytes' = ChannelBytes + Cardinality(b)
    BY ONLY <1>t, <2>1, b \in Batches, ChannelAppends
  <2>5. queuedBytes' = queuedBytes
    BY <2>1
  <2> QED BY ONLY <1>c, <1>l, <1>n, <1>p, <2>3, <2>4, <2>5 DEF Ledger
<1>6. CASE Offer(b)
  <2>1. pub[b] = "offering" /\ pub' = [pub EXCEPT ![b] = "done"]
    BY <1>6 DEF Offer
  <2>2. pub[b] \in Waits <=> "done" \in Waits
    BY <2>1 DEF Waits
  <2>3. CASE UNCHANGED queueVars
    BY <1>s, <2>1, <2>2, <2>3 DEF queueVars
  <2>4. CASE ~UNCHANGED queueVars
    <3>1. /\ queue' = Append(queue, b) /\ queuedBytes' = queuedBytes + Cardinality(b)
          /\ queuedBytes + Cardinality(b) <= QueueBytes
      BY <1>6, <2>4 DEF Offer
    <3>2. ChannelBytes' = ChannelBytes + Cardinality(b)
      BY ONLY <1>t, <3>1, b \in Batches, ChannelAppends
    <3>3. ReservedBytes' = ReservedBytes
      BY ONLY <1>t, <2>1, <2>2, b \in Batches, ReservedSame
    <3>4. queuedBytes' = queuedBytes + Cardinality(b) /\ queuedBytes + Cardinality(b) <= QueueBytes
      BY <3>1
    <3> QED BY ONLY <1>c, <1>l, <1>n, <1>p, <3>2, <3>3, <3>4 DEF Ledger
  <2> QED BY <2>3, <2>4
<1>7. CASE CopyOk(b)
  <2>1. queue' = queue /\ queuedBytes' = queuedBytes /\ pub[b] = "copying" /\ pub' = [pub EXCEPT ![b] = "done"]
    BY <1>7 DEF CopyOk, queueVars
  <2> QED BY <1>s, <2>1 DEF Waits
<1> QED BY <1>b, <1>1, <1>2, <1>3, <1>4, <1>5, <1>6, <1>7

\* peerLoop keeps the ledger.
LEMMA LoopingLedger ==
  ASSUME Typed, Ledger, Looping
  PROVE  Ledger'
<1>t. /\ queue \in Seq(Batches) /\ Cardinality(item) \in Nat /\ PageBytes \in Nat /\ QueueBytes \in Nat
      /\ ReservedBytes \in Nat /\ ChannelBytes \in Nat /\ LoopBytes \in Nat
  BY BytesNat, SenderTyped DEF Typed, PublicationTypes
<1>l. queuedBytes = ReservedBytes + ChannelBytes + LoopBytes /\ queuedBytes <= QueueBytes
  BY DEF Ledger
<1>n. ReservedBytes \in Nat /\ ChannelBytes \in Nat /\ LoopBytes \in Nat /\ QueueBytes \in Nat
  BY <1>t
<1>p. pub' = pub
  BY DEF Looping, Take, PushOk, PushRetry, PushDropped, Ask, AskServed, AskAgain, AskQuiet,
         AskStalled, PageDeferred, PageSent, PageOk, PageFailed, PassDone
<1>r. ReservedBytes' = ReservedBytes
  BY <1>p DEF ReservedBytes, Size, Waiting
<1>q. queue' = queue => ChannelBytes' = ChannelBytes
  BY DEF ChannelBytes, QueueSizes
<1>1. CASE Take
  <2>1. /\ queue # <<>> /\ queue' = Tail(queue) /\ loop = "idle" /\ loop' = "push" /\ item' = Head(queue)
        /\ queuedBytes' = queuedBytes
    BY <1>1 DEF Take
  <2>2. ChannelBytes' = ChannelBytes - Cardinality(Head(queue))
    BY ONLY <1>t, <2>1, ChannelTakes
  <2>3. LoopBytes = 0 /\ LoopBytes' = Cardinality(Head(queue))
    BY <2>1 DEF LoopBytes
  <2>4. Cardinality(Head(queue)) \in Nat
    BY <1>t, <2>1, WaitingFacts
  <2>5. queuedBytes' = queuedBytes
    BY <2>1
  <2> QED BY ONLY <1>l, <1>n, <1>r, <2>2, <2>3, <2>4, <2>5 DEF Ledger
<1>2. CASE PushOk \/ PushDropped
  <2>1. loop = "push" /\ loop' = "idle" /\ queue' = queue /\ queuedBytes' = queuedBytes - Cardinality(item)
    BY <1>2 DEF PushOk, PushDropped, LoopIdle
  <2>2. LoopBytes = Cardinality(item) /\ LoopBytes' = 0
    BY <2>1 DEF LoopBytes
  <2>3. ChannelBytes' = ChannelBytes /\ queuedBytes' = queuedBytes - Cardinality(item) /\ Cardinality(item) \in Nat
    BY <1>q, <1>t, <2>1
  <2> QED BY ONLY <1>l, <1>n, <1>r, <2>2, <2>3 DEF Ledger
<1>3. CASE PushRetry
  <2>1. loop' = loop /\ item' = item /\ queue' = queue /\ queuedBytes' = queuedBytes
    BY <1>3 DEF PushRetry, queueVars
  <2>2. LoopBytes' = LoopBytes
    BY <2>1 DEF LoopBytes
  <2> QED BY <1>p, <2>1, <2>2, LedgerSame
<1>4. CASE Ask \/ AskServed \/ AskAgain \/ AskQuiet \/ AskStalled \/ PageDeferred \/ PassDone
  <2>1. queue' = queue /\ queuedBytes' = queuedBytes
    BY <1>4 DEF Ask, AskServed, AskAgain, AskQuiet, AskStalled, PageDeferred, PassDone, queueVars
  <2>2. loop \notin {"push", "page"} /\ loop' \notin {"push", "page"}
    BY <1>4 DEF Ask, AskServed, AskAgain, AskQuiet, AskStalled, PageDeferred, PassDone, Repairing
  <2>3. LoopBytes' = LoopBytes
    BY <2>2 DEF LoopBytes
  <2> QED BY <1>p, <2>1, <2>3, LedgerSame
<1>5. CASE PageSent
  <2>1. /\ loop \in {"repair", "idle"} /\ loop' = "page" /\ queue' = queue
        /\ queuedBytes' = queuedBytes + PageBytes /\ queuedBytes + PageBytes <= QueueBytes
    BY <1>5 DEF PageSent, Repairing
  <2>2. LoopBytes = 0 /\ LoopBytes' = PageBytes
    BY <2>1 DEF LoopBytes
  <2> QED BY ONLY <1>l, <1>q, <1>r, <1>t, <2>1, <2>2 DEF Ledger
<1>6. CASE PageOk \/ PageFailed
  <2>1. loop = "page" /\ loop' = "idle" /\ queue' = queue /\ queuedBytes' = queuedBytes - PageBytes
    BY <1>6 DEF PageOk, PageFailed, LoopIdle
  <2>2. LoopBytes = PageBytes /\ LoopBytes' = 0
    BY <2>1 DEF LoopBytes
  <2> QED BY ONLY <1>l, <1>q, <1>r, <1>t, <2>1, <2>2 DEF Ledger
<1> QED BY <1>1, <1>2, <1>3, <1>4, <1>5, <1>6, Zenon DEF Looping

\* waitReplicationAdmission, enqueuePeerBatch, enqueuePeerBatchExcept, peerLoop and repair: for every
\* schedule, peer.queuedBytes is exactly the reservations, the channel and what peerLoop holds, so
\* it never leaks, is never given back twice and never exceeds ReplicationQueueBytes.
THEOREM QueueMemory == Spec => []QueueLedger
<1>1. ASSUME Init PROVE Ledger
  <2>1. /\ pub = [b \in Batches |-> "new"] /\ queue = <<>> /\ queuedBytes = 0 /\ loop = "idle"
    BY <1>1 DEF Init
  <2>2. Waiting = {} /\ 1..Len(queue) = {}
    BY <2>1 DEF Waiting, Waits
  <2>3. ReservedBytes = 0
    BY <2>2, SumEmpty DEF ReservedBytes
  <2>4. ChannelBytes = 0
    BY <2>2, SumEmpty DEF ChannelBytes
  <2>5. LoopBytes = 0
    BY <2>1 DEF LoopBytes
  <2> QED BY <2>1, <2>3, <2>4, <2>5, SenderTyped DEF Ledger
<1>2. ASSUME Typed, Ledger, [Next]_vars PROVE Ledger'
  <2>1. CASE Publishing
    BY <1>2, <2>1, PublishingLedger
  <2>2. CASE Looping
    BY <1>2, <2>2, LoopingLedger
  <2>3. CASE Serving \/ Booting \/ TimePasses \/ UNCHANGED vars
    <3>1. pub' = pub /\ queue' = queue /\ queuedBytes' = queuedBytes /\ loop' = loop /\ item' = item
      BY <2>3 DEF Serving, Serve, ServeLate, Work, Finish, Reply, Booting, Restart, BootExit, Reset, BootFetch, BootAccept,
                  BootEmpty, TimePasses, vars, senderVars, queueVars, loopVars
    <3>2. LoopBytes' = LoopBytes
      BY <3>1 DEF LoopBytes
    <3> QED BY <1>2, <3>1, <3>2, LedgerSame
  <2> QED BY <1>2, <2>1, <2>2, <2>3 DEF Next
<1>3. Ledger => QueueLedger
  BY DEF Ledger, QueueLedger, ReservedBytes, ChannelBytes, LoopBytes, Size, Waiting, Waits, QueueSizes
<1>4. Init => Ledger
  BY <1>1
<1> QED BY <1>2, <1>3, <1>4, ReplicationTyped, PTL DEF Spec
=============================================================================
