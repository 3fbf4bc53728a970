----------------------------- MODULE Completions -----------------------------
(***************************************************************************)
(* How the end of a handler reaches the broker that made the delivery, and *)
(* how its completion reaches the others: the client's ackBatcher, the ack *)
(* and nack endpoints, broadcastAction with its bounded queues,            *)
(* actionLoop, and the internal endpoints of the peers.                    *)
(*                                                                         *)
(* A delivery belongs to one broker, its owner, and stands for the message *)
(* it delivers; a checkpoint names the message.  Any broker may get the    *)
(* client's request.  What the owner's group scheduler does with a         *)
(* completed, nacked or lapsed delivery is GroupWork's.                    *)
(*                                                                         *)
(* A handler is cut at every release of Broker.mu and before each          *)
(* broadcast: other requests, timeouts and retries come in between, and a  *)
(* request whose sender has given up on it is handled all the same.        *)
(***************************************************************************)
EXTENDS Integers, Sequences, FiniteSets, SequencesExt, FiniteSetsExt, Functions

CONSTANTS
  Brokers, Deliveries,
  Gateways,        \* the brokers that clients reach
  Owner,        \* the broker of each delivery
  Verdicts,     \* how the handler of each delivery may end
  ActionBytes,  \* ActionQueueBytes
  QueueDepth,   \* capacity of the acks and nacks channels
  BatchMax,     \* the 1024 of actionLoop
  MaxRepeats,   \* bound on the requests that repeat a failed one
  MaxRequests,  \* bound on the client requests that are handled at a time
  MaxHandlers,  \* bound on the actionLoops' requests that are handled at a time
  None

Kinds == {"ack", "nack"}

ASSUME CompletionsTyped ==
  /\ Verdicts \in [Deliveries -> SUBSET Kinds] /\ None \notin Kinds
  /\ IsFiniteSet(Brokers) /\ Gateways \subseteq Brokers /\ IsFiniteSet(Deliveries) /\ Owner \in [Deliveries -> Brokers]
  /\ ActionBytes \in Nat /\ QueueDepth \in Nat \ {0} /\ BatchMax \in Nat \ {0} /\ MaxRepeats \in Nat
  /\ MaxRequests \in Nat /\ MaxHandlers \in Nat

Links == {l \in Brokers \X Brokers : l[1] # l[2]}
Lines == Links \X Kinds  \* one goroutine actionLoop for each

\* An action: delivery IDs, checkpoints, and the bytes reserved for them.
Size(ids, cps) == Cardinality(ids) + Cardinality(cps)
Act(ids, cps) == [ids |-> ids, cps |-> cps, bytes |-> Size(ids, cps)]
Nothing == Act({}, {})

VARIABLES
  worker,    \* the client's worker for each delivery
  verdict,   \* how the handler of each delivery ended
  repeats,   \* requests that repeated a failed one
  calls,     \* the requests of the clients' ackBatchers that a broker is handling
  pending,   \* b.pending, at the owner of each
  due,       \* pending deliveries whose deadline a NACK has brought forward
  done,      \* the checkpoints each broker has
  channel,   \* p.acks, p.nacks
  carry,     \* the carry of each actionLoop
  sending,   \* the request body each actionLoop tries to send
  heard,     \* the loops whose peer has answered that request
  serving,   \* the loops' requests that a peer is handling
  bytes,     \* p.actionBytes
  missed     \* checkpoints no queue to the broker took, and what an actionLoop gave up for it

clientVars == <<worker, verdict, repeats, calls>>
ownerVars == <<pending, due, done>>
linkVars == <<channel, carry, sending, heard, serving, bytes, missed>>
vars == <<clientVars, ownerVars, linkVars>>

Init ==
  /\ worker = [d \in Deliveries |-> "handling"] /\ verdict = [d \in Deliveries |-> None]
  /\ repeats = 0 /\ calls = {}
  /\ pending = Deliveries /\ due = {} /\ done = [b \in Brokers |-> {}]
  /\ channel = [n \in Lines |-> <<>>] /\ carry = [n \in Lines |-> Nothing]
  /\ sending = [n \in Lines |-> Nothing] /\ heard = {} /\ serving = {}
  /\ bytes = [l \in Links |-> 0] /\ missed = [p \in Brokers |-> {}]

Mine(b) == {d \in pending : Owner[d] = b}

-----------------------------------------------------------------------------
(* broadcastAction: the peers in reach are tried before the request's       *)
(* context ends; the others get nothing.                                    *)

Admits(n, a) ==
  bytes[n[1]] + a.bytes <= ActionBytes /\ Len(channel[n]) < QueueDepth

\* Mutant: bytes reserved for an action the channel does not take are kept.
BroadcastLeaks(b, k, a, reach) ==
  LET lines == {n \in Lines : n[1][1] = b /\ n[2] = k}
      taken == {n \in lines : n[1][2] \in reach /\ Admits(n, a)}
  IN /\ channel' = [n \in Lines |-> IF n \in taken THEN Append(channel[n], a) ELSE channel[n]]
     /\ bytes' = [l \in Links |->
          IF l[1] = b /\ l[2] \in reach /\ bytes[l] + a.bytes <= ActionBytes
          THEN bytes[l] + a.bytes ELSE bytes[l]]

Broadcast(b, k, a, reach) ==
  LET lines == {n \in Lines : n[1][1] = b /\ n[2] = k}
      taken == {n \in lines : n[1][2] \in reach /\ Admits(n, a)}
  IN /\ channel' = [n \in Lines |-> IF n \in taken THEN Append(channel[n], a) ELSE channel[n]]
     /\ bytes' = [l \in Links |-> IF <<l, k>> \in taken THEN bytes[l] + a.bytes ELSE bytes[l]]

Refusing(b, k, a, reach) ==
  {p \in Brokers \ {b} : p \notin reach \/ ~Admits(<<<<b, p>>, k>>, a)}

\* The caller does not look at the result.
BestEffort(b, k, a, reach) ==
  /\ Broadcast(b, k, a, reach)
  /\ missed' = [p \in Brokers |-> IF p \in Refusing(b, k, a, reach)
                                  THEN missed[p] \cup a.cps ELSE missed[p]]

\* The peers a broadcast may reach: all of them while its request has a client.
Reaches(b, interrupted) ==
  IF interrupted THEN SUBSET (Brokers \ {b}) ELSE {Brokers \ {b}}

-----------------------------------------------------------------------------
(* The client.                                                              *)

\* A handler ends, and its worker submits the delivery to the ackBatcher of acks or nacks.
HandlerEnds(d, k) ==
  /\ worker[d] = "handling" /\ k \in Verdicts[d]
  /\ worker' = [worker EXCEPT ![d] = "submitted"] /\ verdict' = [verdict EXCEPT ![d] = k]
  /\ UNCHANGED <<repeats, calls, ownerVars, linkVars>>

\* ackBatcher.run: what was collected goes to some broker in one request, of any subscription and
\* whether or not an earlier one, given up, is still being handled.  A client may repeat a request
\* that failed.
Post(k, b, ids) ==
  /\ Cardinality(calls) < MaxRequests
  /\ ids # {} /\ ids \subseteq {d \in Deliveries : worker[d] \in {"submitted", "failed"} /\ verdict[d] = k}
  /\ repeats' = IF \E d \in ids : worker[d] = "failed" THEN repeats + 1 ELSE repeats
  /\ repeats' <= MaxRepeats
  /\ calls' = calls \cup {[phase |-> "arrived", kind |-> k, at |-> b, ids |-> ids, cps |-> {},
                           attempt |-> repeats', awaited |-> TRUE]}
  /\ worker' = [d \in Deliveries |-> IF d \in ids THEN "posted" ELSE worker[d]]
  /\ UNCHANGED <<verdict, ownerVars, linkVars>>

\* The client's context or connection ends: the members get an error.
Disconnect(c) ==
  /\ c.awaited
  /\ calls' = (calls \ {c}) \cup {[c EXCEPT !.awaited = FALSE]}
  /\ worker' = [d \in Deliveries |-> IF d \in c.ids THEN "failed" ELSE worker[d]]
  /\ UNCHANGED <<verdict, repeats, ownerVars, linkVars>>

Answer(c, ok) ==
  /\ calls' = calls \ {c} /\ UNCHANGED <<verdict, repeats>>
  /\ worker' = IF c.awaited THEN [d \in Deliveries |-> IF d \notin c.ids THEN worker[d]
                                                     ELSE IF ok THEN "confirmed" ELSE "failed"]
               ELSE worker

-----------------------------------------------------------------------------
(* ack.                                                                     *)

\* The handler of request c, of kind k, is at this point.
Handles(c, k, phase) == c.kind = k /\ c.phase = phase

\* The handler goes on, with these checkpoints.
Continues(c, phase, cps) ==
  /\ calls' = (calls \ {c}) \cup {[c EXCEPT !.phase = phase, !.cps = cps]}
  /\ UNCHANGED <<worker, verdict, repeats>>

\* removeAcks: what is pending here is completed.
Removed(b, ids) == Mine(b) \cap ids

RemoveAcks(b, ids) ==
  /\ pending' = pending \ Removed(b, ids) /\ due' = due \ Removed(b, ids)
  /\ done' = [done EXCEPT ![b] = @ \cup Removed(b, ids)]

Local(b, ids) == \A d \in ids : Owner[d] = b

\* Only deliveries of this broker: completion does not depend on any queue.
AckLocal(c) ==
  /\ Handles(c, "ack", "arrived") /\ Local(c.at, c.ids)
  /\ RemoveAcks(c.at, c.ids) /\ Continues(c, "completed", Removed(c.at, c.ids))
  /\ UNCHANGED linkVars

\* Their checkpoints go to the peers that take them, and the client is answered.
AckSpread(c) ==
  LET a == Act({}, c.cps) IN
  /\ Handles(c, "ack", "completed")
  /\ IF c.cps = {} THEN UNCHANGED linkVars
     ELSE /\ \E reach \in Reaches(c.at, ~c.awaited) : BestEffort(c.at, "ack", a, reach)
          /\ UNCHANGED <<carry, sending, heard, serving>>
  /\ Answer(c, TRUE) /\ UNCHANGED ownerVars

\* checkpointsForAcks, under the read lock.
AckRead(c) ==
  /\ Handles(c, "ack", "arrived") /\ ~Local(c.at, c.ids)
  /\ Continues(c, "read", Removed(c.at, c.ids))
  /\ UNCHANGED <<ownerVars, linkVars>>

\* Mutant: the answer does not wait for what broadcastAction returns.
AckForwardAnyway(c) ==
  LET a == Act(c.ids, c.cps) IN
  /\ Handles(c, "ack", "read")
  /\ \E reach \in Reaches(c.at, ~c.awaited) :
       Broadcast(c.at, "ack", a, reach) /\ Continues(c, "forwarded", c.cps)
  /\ UNCHANGED <<ownerVars, carry, sending, heard, serving, missed>>

\* Every peer's queue takes the request, or the client gets 503.
AckForward(c) ==
  LET a == Act(c.ids, c.cps) IN
  /\ Handles(c, "ack", "read")
  /\ \E reach \in Reaches(c.at, ~c.awaited) :
       /\ Broadcast(c.at, "ack", a, reach)
       /\ IF Refusing(c.at, "ack", a, reach) = {} THEN Continues(c, "forwarded", c.cps)
          ELSE Answer(c, FALSE)
  /\ UNCHANGED <<ownerVars, carry, sending, heard, serving, missed>>

AckRemove(c) ==
  /\ Handles(c, "ack", "forwarded")
  /\ RemoveAcks(c.at, c.ids) /\ Answer(c, TRUE)
  /\ UNCHANGED linkVars

-----------------------------------------------------------------------------
(* nack: applied here first, then queued for every peer.                    *)

NackApply(c) ==
  /\ Handles(c, "nack", "arrived")
  /\ due' = due \cup Removed(c.at, c.ids)
  /\ Continues(c, "read", {})
  /\ UNCHANGED <<pending, done, linkVars>>

NackForward(c) ==
  LET a == Act(c.ids, {}) IN
  /\ Handles(c, "nack", "read")
  /\ \E reach \in Reaches(c.at, ~c.awaited) :
       Broadcast(c.at, "nack", a, reach) /\ Answer(c, Refusing(c.at, "nack", a, reach) = {})
  /\ UNCHANGED <<ownerVars, carry, sending, heard, serving, missed>>

-----------------------------------------------------------------------------
(* actionLoop.                                                              *)

Waits(n) == (IF carry[n] = Nothing THEN <<>> ELSE <<carry[n]>>) \o channel[n]

Ids(s, m) == SumFunctionOnSet([i \in 1..m |-> Cardinality(s[i].ids)], 1..m)
Cps(s, m) == SumFunctionOnSet([i \in 1..m |-> Cardinality(s[i].cps)], 1..m)
Bytes(s, m) == SumFunctionOnSet([i \in 1..m |-> s[i].bytes], 1..m)

\* The loop over the channel goes on while both lists have room.
Draining(s, m) == Ids(s, m) < BatchMax /\ Cps(s, m) < BatchMax
Joins(s, m) == Draining(s, m) /\ Ids(s, m + 1) <= BatchMax /\ Cps(s, m + 1) <= BatchMax

\* How many of what waits go into one request.
Prefix(s) == Max({m \in 1..Len(s) : \A i \in 1..(m - 1) : Joins(s, i)})

\* An action that was received and did not fit.
Carry(s, m) == IF m < Len(s) /\ Draining(s, m) THEN s[m + 1] ELSE Nothing

Take(n) ==
  LET s == Waits(n)  m == Prefix(s)  next == Carry(s, m) IN
  /\ sending[n] = Nothing /\ s # <<>>
  /\ sending' = [sending EXCEPT ![n] =
       [ids |-> UNION {s[i].ids : i \in 1..m}, cps |-> UNION {s[i].cps : i \in 1..m},
        bytes |-> Bytes(s, m)]]
  /\ carry' = [carry EXCEPT ![n] = next]
  /\ channel' = [channel EXCEPT ![n] = SubSeq(s, IF next = Nothing THEN m + 1 ELSE m + 2, Len(s))]
  /\ UNCHANGED <<clientVars, ownerVars, heard, serving, bytes, missed>>

\* The loop no longer waits for the requests it has sent.
Abandoned(n) == {IF h.line = n THEN [h EXCEPT !.awaited = FALSE] ELSE h : h \in serving}

Finished(n) ==
  /\ bytes' = [bytes EXCEPT ![n[1]] = @ - sending[n].bytes]
  /\ sending' = [sending EXCEPT ![n] = Nothing] /\ heard' = heard \ {n}
  /\ serving' = Abandoned(n)

\* Mutant: a peer that does not answer is tried for ever.
DropNever(n) == sending[n] # Nothing /\ UNCHANGED vars

\* The AckDeadline has passed without an answer, whether or not the peer got the request.
Drop(n) ==
  /\ sending[n] # Nothing
  /\ missed' = [missed EXCEPT ![n[1][2]] = @ \cup sending[n].ids \cup sending[n].cps]
  /\ Finished(n)
  /\ UNCHANGED <<clientVars, ownerVars, channel, carry>>

\* A 2xx answer.
Answered(n) ==
  /\ n \in heard
  /\ Finished(n)
  /\ UNCHANGED <<clientVars, ownerVars, channel, carry, missed>>

-----------------------------------------------------------------------------
(* internalAck and internalNack.  An attempt may time out and be repeated   *)
(* while the peer is still handling it.                                     *)

\* The peer has the request; for an earlier attempt nobody waits any more.  Handlers that are left
\* with the same work are one: what one of them does, the other no longer changes.
Arrives(n) ==
  /\ sending[n] # Nothing /\ Cardinality(serving) < MaxHandlers
  /\ serving' = Abandoned(n) \cup
       {[line |-> n, ids |-> sending[n].ids, derived |-> {}, cps |-> sending[n].cps, awaited |-> TRUE]}
  /\ heard' = heard \ {n}
  /\ UNCHANGED <<clientVars, ownerVars, channel, carry, sending, bytes, missed>>

\* The handler goes on, or answers.
Moves(h, next) == serving' = (serving \ {h}) \cup {next} /\ UNCHANGED heard
Replies(h) ==
  /\ serving' = serving \ {h}
  /\ heard' = IF h.awaited THEN heard \cup {h.line} ELSE heard

\* Mutant: what the peer completed is not passed on.
DerivedNone(b, ids) == {}
\* The checkpoints of what the peer completed go on to all its peers.
Derived(b, ids) == Removed(b, ids)

\* removeAcks.
InternalRemove(h) ==
  LET b == h.line[1][2] IN
  /\ h.line[2] = "ack" /\ h.ids # {}
  /\ RemoveAcks(b, h.ids) /\ Moves(h, [h EXCEPT !.ids = {}, !.derived = Derived(b, h.ids)])
  /\ UNCHANGED <<clientVars, channel, carry, sending, bytes, missed>>

\* broadcastAction, for as long as the sender waits.
InternalSpread(h) ==
  LET b == h.line[1][2] IN
  /\ h.ids = {} /\ h.derived # {}
  /\ \E reach \in SUBSET (Brokers \ {b}) : BestEffort(b, "ack", Act({}, h.derived), reach)
  /\ Moves(h, [h EXCEPT !.derived = {}])
  /\ UNCHANGED <<clientVars, ownerVars, carry, sending>>

\* applyCheckpoints, and the answer.
InternalApply(h) ==
  /\ h.line[2] = "ack" /\ h.ids = {} /\ h.derived = {}
  /\ done' = [done EXCEPT ![h.line[1][2]] = @ \cup h.cps]
  /\ Replies(h)
  /\ UNCHANGED <<clientVars, pending, due, channel, carry, sending, bytes, missed>>

\* Mutant: a nack is handled like an ack.
HandleNackCompletes(b, ids) == RemoveAcks(b, ids)
HandleNack(b, ids) == due' = due \cup Removed(b, ids) /\ UNCHANGED <<pending, done>>

InternalNack(h) ==
  /\ h.line[2] = "nack"
  /\ HandleNack(h.line[1][2], h.ids)
  /\ Replies(h)
  /\ UNCHANGED <<clientVars, channel, carry, sending, bytes, missed>>

-----------------------------------------------------------------------------

\* maintenance: the deadline of a delivery passes, or its stream ends.
Lapse(d) ==
  /\ d \in pending
  /\ pending' = pending \ {d} /\ due' = due \ {d}
  /\ UNCHANGED <<clientVars, done, linkVars>>

Client ==
  \/ \E k \in Kinds, d \in Deliveries : HandlerEnds(d, k)
  \/ \E k \in Kinds, b \in Gateways, ids \in SUBSET Deliveries : Post(k, b, ids)
  \/ \E c \in calls : Disconnect(c)

Endpoints ==
  \E c \in calls : \/ AckLocal(c) \/ AckSpread(c) \/ AckRead(c) \/ AckForward(c) \/ AckRemove(c)
                   \/ NackApply(c) \/ NackForward(c)

Loop(n) == Take(n) \/ Drop(n) \/ Answered(n)

Handling == \E h \in serving : InternalRemove(h) \/ InternalSpread(h) \/ InternalApply(h) \/ InternalNack(h)

Next ==
  \/ Client
  \/ Endpoints
  \/ \E n \in Lines : Loop(n) \/ Arrives(n)
  \/ Handling
  \/ \E d \in Deliveries : Lapse(d)

Spec == Init /\ [][Next]_vars

\* Some handler that can go on does, and some actionLoop: its attempts end with an answer or at the
\* AckDeadline.
Fairness ==
  WF_vars(Endpoints) /\ WF_vars(\E n \in Lines : Loop(n)) /\ WF_vars(Handling)

LiveSpec == Spec /\ Fairness

-----------------------------------------------------------------------------

Phases == {"arrived", "completed", "read", "forwarded"}
Bodies == [ids : SUBSET Deliveries, cps : SUBSET Deliveries, bytes : 0..ActionBytes]

\* The values every variable ranges over.
TypeOK ==
  /\ worker \in [Deliveries -> {"handling", "submitted", "posted", "confirmed", "failed"}]
  /\ verdict \in [Deliveries -> Kinds \cup {None}] /\ repeats \in 0..MaxRepeats
  /\ \A c \in calls : c.phase \in Phases
  /\ pending \subseteq Deliveries /\ due \subseteq pending
  /\ done \in [Brokers -> SUBSET Deliveries]
  /\ channel \in [Lines -> Seq(Bodies)] /\ carry \in [Lines -> Bodies]
  /\ sending \in [Lines -> Bodies] /\ heard \subseteq {n \in Lines : sending[n] # Nothing}
  /\ bytes \in [Links -> 0..ActionBytes] /\ missed \in [Brokers -> SUBSET Deliveries]

Held(n) == Bytes(channel[n], Len(channel[n])) + carry[n].bytes + sending[n].bytes

\* broadcastAction, actionLoop: actionBytes is what waits, was carried over or is being sent, of
\* acks and nacks together.
ActionLedger == \A l \in Links : bytes[l] = Held(<<l, "ack">>) + Held(<<l, "nack">>)

\* Deliveries on their way from one broker to another.
Acts(n) == ToSet(channel[n]) \cup {carry[n], sending[n]}
Travels(d, b, p, k) == \E a \in Acts(<<<<b, p>>, k>>) : d \in a.ids \cup a.cps

\* ack, actionLoop: when the client was told that its ACK is taken, the owner has completed or
\* lost the delivery, or the ACK is on its way to the owner, or the broker that forwards it has
\* given it up after the AckDeadline.
AckKept ==
  \A d \in Deliveries :
    worker[d] = "confirmed" /\ verdict[d] = "ack" /\ d \in pending =>
      \/ \E b \in Brokers \ {Owner[d]} : Travels(d, b, Owner[d], "ack")
      \/ d \in missed[Owner[d]]

\* Completions that a handler of the broker has not yet passed on.
Spreading(b) ==
  UNION ({c.cps : c \in {e \in calls : e.phase = "completed" /\ e.at = b}}
         \cup {h.derived : h \in {g \in serving : g.line[1][2] = b}})

\* ack, internalAck: a delivery its owner completed is completed at every broker the owner's queues
\* did not fail, or its checkpoint is on the way there, or the handler that completed it has yet to
\* pass it on: no timeout, retry or request that overtakes the handler makes it forget.
CompletionSpreads ==
  \A d \in Deliveries, p \in Brokers :
    LET o == Owner[d] IN
    /\ d \in done[o] \ Spreading(o) /\ p # o
    /\ ~Travels(d, o, p, "ack") /\ d \notin missed[p]
    => d \in done[p]

\* ack, nack, actionLoop: a checkpoint at any broker is for a delivery whose handler succeeded,
\* whatever was coalesced, repeated or delivered twice on the way.
OnlyAcked ==
  \A b \in Brokers : \A d \in done[b] : verdict[d] = "ack"

\* ack, actionLoop, internalAck: what a completion sets off comes to an end, whatever the peers do:
\* every request is answered, no handler has anything left to pass on and the queues are empty again.
GoesQuiet == <>[](calls = {} /\ serving = {} /\ \A n \in Lines : Acts(n) = {Nothing})
=============================================================================
