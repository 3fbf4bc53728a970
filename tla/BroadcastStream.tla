--------------------------- MODULE BroadcastStream ---------------------------
(***************************************************************************)
(* One broadcast consumer of one topic: the replay, deferred and live      *)
(* phases of the stream handler of broker.go, the deliveries and retries   *)
(* it shares with acceptance and maintenance, and the Go client that turns *)
(* completed frames into the cursor it resumes from.                       *)
(*                                                                         *)
(* The topic has one origin, so a message is its sequence number and a     *)
(* cursor is a number.  Acceptance holds cache.mu until its delivery is    *)
(* sent; the other steps are critical sections of Broker.mu.  Messages     *)
(* have the same size.  Once a stream has ended, its pending entries can   *)
(* neither be delivered nor change another stream, and are dropped here.   *)
(***************************************************************************)
EXTENDS Integers, FiniteSets, Selection

CONSTANTS
  MaxMessages,  \* bound of the model: messages published
  SubWindow,    \* MaxSubscriberInflightBytes, in messages
  ChanCap,      \* capacity of subscriber.ch
  DeferredCap,  \* the 256 deferred identities of deliver
  MaxAttempts   \* MaxAttempts: deliveries of a message on one stream

ASSUME BroadcastTyped ==
  /\ {MaxMessages, SubWindow, ChanCap, DeferredCap} \subseteq Nat
  /\ MaxAttempts \in Nat \ {0}

VARIABLES
  accepted,   \* sequence of the last accepted message
  expired,    \* messages whose ExpiresAt has passed
  hand,       \* message that deliver has chosen this stream for and not yet sent, or 0
  stream,     \* phase of the stream handler
  todo,       \* identities the handler still has to replay
  deferred,   \* subscriber.deferred
  owed,       \* writeReplay has sent a delivery and must receive one
  chan,       \* subscriber.ch: deliveries <<message, attempt>>
  cancelled,  \* the stream's context is cancelled
  pending,    \* the stream's entries of Broker.pending
  retry,      \* maintenance's retry slice
  sentCursor, \* streamCursor
  written,    \* history: messages before the stream's first cursor or written on it
  cursor,     \* client: contiguous progress, the cursor of the next subscription
  frames,     \* client: frames received and not yet part of the progress
  failed,     \* client: subscribeOnce was cancelled by a failing handler or ack
  processed   \* history: messages some handler call succeeded for

writerVars == <<todo, deferred, owed, chan, sentCursor, written>>
clientVars == <<cursor, frames, failed, processed>>
vars == <<accepted, expired, hand, stream, writerVars, cancelled, pending, retry, clientVars>>

Messages == 1..MaxMessages
Phases == {"closed", "replay", "live"}
Deliveries == Messages \X (1..MaxAttempts)

Init ==
  /\ accepted = 0 /\ expired = {} /\ hand = 0
  /\ stream = "closed" /\ todo = <<>> /\ deferred = <<>> /\ owed = FALSE
  /\ chan = <<>> /\ cancelled = FALSE /\ pending = {} /\ retry = {}
  /\ sentCursor = 0 /\ written = {}
  /\ cursor = 0 /\ frames = <<>> /\ failed = FALSE /\ processed = {}

-----------------------------------------------------------------------------
(* sendDeliveryLocked for a broadcast stream: pressure cancels the stream   *)
(* and drops the delivery.  The stream stays registered until its handler   *)
(* returns.                                                                 *)

\* Mutant: the channel's capacity is not looked at.
RoomWindowOnly == Cardinality(pending) < SubWindow
Room == Cardinality(pending) < SubWindow /\ Len(chan) < ChanCap

SendDelivery(d) ==
  \/ /\ stream # "closed" /\ Room
     /\ pending' = pending \cup {d} /\ chan' = Append(chan, d)
     /\ UNCHANGED cancelled
  \/ /\ stream # "closed" /\ ~Room
     /\ cancelled' = TRUE
     /\ UNCHANGED <<pending, chan>>
  \/ /\ stream = "closed"
     /\ UNCHANGED <<pending, chan, cancelled>>

-----------------------------------------------------------------------------
(* Acceptance of a message and deliver.                                     *)

\* Mutant: a replaying stream is not told about new messages.
PublishUndeferred ==
  /\ accepted < MaxMessages /\ hand = 0
  /\ accepted' = accepted + 1
  /\ hand' = IF stream = "live" THEN accepted + 1 ELSE 0
  /\ UNCHANGED <<expired, stream, writerVars, cancelled, pending, retry, clientVars>>

\* A replaying stream defers the message, or is cancelled when it has deferred too many.
Publish ==
  /\ accepted < MaxMessages /\ hand = 0
  /\ accepted' = accepted + 1
  /\ hand' = IF stream = "live" THEN accepted + 1 ELSE 0
  /\ LET full == stream = "replay" /\ Len(deferred) >= DeferredCap IN
       /\ cancelled' = (cancelled \/ full)
       /\ deferred' = IF stream = "replay" /\ ~full
                      THEN Append(deferred, accepted + 1) ELSE deferred
  /\ UNCHANGED <<expired, stream, todo, owed, chan, sentCursor, written, pending, retry,
                 clientVars>>

DeliverLive ==
  /\ hand # 0
  /\ SendDelivery(<<hand, 1>>)
  /\ hand' = 0
  /\ UNCHANGED <<accepted, expired, stream, todo, deferred, owed, sentCursor, written,
                 retry, clientVars>>

Expire(m) ==
  /\ m \in 1..accepted \ expired
  /\ expired' = expired \cup {m}
  /\ UNCHANGED <<accepted, hand, stream, writerVars, cancelled, pending, retry, clientVars>>

-----------------------------------------------------------------------------
(* The stream handler.                                                      *)

ReplayIDs == Kept([i \in 1..accepted |-> i], {m \in 1..accepted \ expired : m > cursor})

\* The replay index is taken and the stream registered in one section of cache.mu.
Subscribe ==
  /\ stream = "closed" /\ hand = 0
  /\ stream' = "replay" /\ todo' = ReplayIDs /\ deferred' = <<>> /\ owed' = FALSE
  /\ chan' = <<>> /\ cancelled' = FALSE
  /\ sentCursor' = cursor /\ written' = 1..cursor
  /\ frames' = <<>> /\ failed' = FALSE
  /\ UNCHANGED <<accepted, expired, hand, pending, retry, cursor, processed>>

Close ==
  /\ stream' = "closed" /\ todo' = <<>> /\ deferred' = <<>> /\ owed' = FALSE
  /\ chan' = <<>> /\ cancelled' = FALSE /\ pending' = {} /\ retry' = {}
  /\ UNCHANGED <<sentCursor, written>>

\* Cancelled, a failed write, or the client gone.
StreamExit ==
  /\ stream # "closed" /\ Close
  /\ UNCHANGED <<accepted, expired, hand, clientVars>>

\* The frame of d, with the cursor advanced over its message.
Emit(d) ==
  LET c == IF d[1] > sentCursor THEN d[1] ELSE sentCursor IN
  /\ sentCursor' = c
  /\ written' = written \cup {d[1]}
  /\ frames' = Append(frames, [msg |-> d[1], att |-> d[2], cur |-> c, ok |-> FALSE])

\* writeReplay: an identity whose message is gone ends the stream, as does pressure.
ReplaySend ==
  /\ stream = "replay" /\ ~owed /\ todo # <<>>
  /\ Head(todo) \notin expired /\ Room
  /\ SendDelivery(<<Head(todo), 1>>)
  /\ todo' = Tail(todo) /\ owed' = TRUE
  /\ UNCHANGED <<accepted, expired, hand, stream, deferred, sentCursor, written, retry,
                 clientVars>>
ReplayClose ==
  /\ stream = "replay" /\ ~owed /\ todo # <<>>
  /\ Head(todo) \in expired \/ ~Room
  /\ Close
  /\ UNCHANGED <<accepted, expired, hand, clientVars>>

\* It takes whatever is first in the channel, perhaps a retry of an earlier message.
ReplayReceive ==
  /\ owed /\ chan # <<>>
  /\ Emit(Head(chan))
  /\ chan' = Tail(chan) /\ owed' = FALSE
  /\ UNCHANGED <<accepted, expired, hand, stream, todo, deferred, cancelled, pending, retry,
                 cursor, failed, processed>>

\* Mutant: the handler goes live without a last look at the deferred messages.
ReplayNextHasty ==
  /\ stream = "replay" /\ ~owed /\ todo = <<>>
  /\ stream' = "live" /\ deferred' = <<>>
  /\ UNCHANGED <<accepted, expired, hand, todo, owed, chan, sentCursor, written, cancelled,
                 pending, retry, clientVars>>

\* What was deferred meanwhile is replayed next; with nothing deferred the stream is live.
ReplayNext ==
  /\ stream = "replay" /\ ~owed /\ todo = <<>>
  /\ todo' = deferred /\ deferred' = <<>>
  /\ stream' = IF deferred = <<>> THEN "live" ELSE "replay"
  /\ UNCHANGED <<accepted, expired, hand, owed, chan, sentCursor, written, cancelled,
                 pending, retry, clientVars>>

\* The select of the live loop may take a delivery although the context is cancelled.
LiveWrite ==
  /\ stream = "live" /\ chan # <<>>
  /\ Emit(Head(chan))
  /\ chan' = Tail(chan)
  /\ UNCHANGED <<accepted, expired, hand, stream, todo, deferred, owed, cancelled, pending,
                 retry, cursor, failed, processed>>

-----------------------------------------------------------------------------
(* Maintenance: deliveries past their deadline are removed, then retried.   *)

MaintenancePop(D) ==
  /\ retry = {} /\ D # {}
  /\ retry' = D /\ pending' = pending \ D
  /\ UNCHANGED <<accepted, expired, hand, stream, writerVars, cancelled, clientVars>>

Retriable(d) == d[2] < MaxAttempts /\ d[1] \notin expired

Retry(d) ==
  /\ Retriable(d)
  /\ retry' = retry \ {d}
  /\ SendDelivery(<<d[1], d[2] + 1>>)
  /\ UNCHANGED <<accepted, expired, hand, stream, todo, deferred, owed, sentCursor, written,
                 clientVars>>
DropRetry(d) ==
  /\ ~Retriable(d)
  /\ retry' = retry \ {d}
  /\ UNCHANGED <<accepted, expired, hand, stream, writerVars, cancelled, pending, clientVars>>

-----------------------------------------------------------------------------
(* The client: subscribeOnce runs a handler per frame and markComplete      *)
(* advances the cursor over the longest completed prefix.                   *)

\* Mutant: the cursor follows the frame just completed.
ProgressLatest(fs, i) == [cursor |-> fs[i].cur, frames |-> fs]
Progress(fs, i) ==
  LET done == {k \in 0..Len(fs) : \A j \in 1..k : fs[j].ok}
      k == CHOOSE n \in done : \A x \in done : x <= n
  IN [cursor |-> IF k = 0 THEN cursor ELSE fs[k].cur, frames |-> SubSeq(fs, k + 1, Len(fs))]

\* The handler succeeds and its ack is accepted.
Complete(i) ==
  /\ ~failed /\ ~frames[i].ok
  /\ LET p == Progress([frames EXCEPT ![i].ok = TRUE], i) IN
       cursor' = p.cursor /\ frames' = p.frames
  /\ processed' = processed \cup {frames[i].msg}
  /\ pending' = pending \ {<<frames[i].msg, frames[i].att>>}
  /\ UNCHANGED <<accepted, expired, hand, stream, writerVars, cancelled, retry, failed>>

\* The handler fails and is nacked, or its ack fails: the subscription is cancelled.
Abandon(i) ==
  /\ ~failed /\ ~frames[i].ok
  /\ failed' = TRUE
  /\ processed' \in {processed, processed \cup {frames[i].msg}}
  /\ Close
  /\ UNCHANGED <<accepted, expired, hand, cursor, frames>>

-----------------------------------------------------------------------------
Next ==
  \/ Publish \/ DeliverLive \/ Subscribe \/ StreamExit
  \/ ReplaySend \/ ReplayClose \/ ReplayReceive \/ ReplayNext \/ LiveWrite
  \/ \E m \in Messages : Expire(m)
  \/ \E D \in SUBSET pending : MaintenancePop(D)
  \/ \E d \in retry : Retry(d) \/ DropRetry(d)
  \/ \E i \in 1..Len(frames) : Complete(i) \/ Abandon(i)

Spec == Init /\ [][Next]_vars

\* The broker's goroutines and the client's reconnect loop run; connections do not all
\* break before a frame is written, and a handler that keeps being given a message
\* completes the earliest of its frames in the end.
Fairness ==
  /\ WF_vars(DeliverLive) /\ WF_vars(Subscribe)
  /\ WF_vars(ReplayClose) /\ WF_vars(cancelled /\ StreamExit)
  /\ SF_vars(ReplaySend) /\ SF_vars(ReplayReceive) /\ SF_vars(ReplayNext) /\ SF_vars(LiveWrite)
  /\ \A m \in Messages :
       SF_vars(\E i \in 1..Len(frames) :
         /\ frames[i].msg = m /\ Complete(i)
         /\ \A j \in 1..(i - 1) : frames[j].msg = m => frames[j].ok)

LiveSpec == Spec /\ Fairness

-----------------------------------------------------------------------------
(* Properties.                                                              *)

\* Every variable keeps its type.
TypeOK ==
  /\ accepted \in 0..MaxMessages /\ hand \in 0..accepted
  /\ stream \in Phases /\ owed \in BOOLEAN /\ cancelled \in BOOLEAN /\ failed \in BOOLEAN
  /\ pending \subseteq Deliveries /\ retry \subseteq Deliveries
  /\ {sentCursor, cursor} \subseteq 0..accepted
  /\ written \subseteq 1..accepted /\ processed \subseteq 1..accepted
  /\ {chan[i] : i \in 1..Len(chan)} \subseteq Deliveries

\* Under pressure every buffer of the stream keeps its bound, and writeReplay never waits
\* on an empty channel: no send blocks while Broker.mu is held.
StreamBounded ==
  /\ Len(deferred) <= DeferredCap /\ Len(chan) <= ChanCap
  /\ Cardinality(pending) <= SubWindow
  /\ owed => chan # <<>>

\* The cursor of a frame never passes a live message that this stream has not written
\* before it: replay, deferral and live delivery hand over without a gap, whatever
\* retries are in the channel.
CursorCovers ==
  stream # "closed" => 1..sentCursor \subseteq written \cup expired

\* The cursor the client resumes from never passes a message that no handler completed
\* and that has not expired: no message is skipped without an error.
NoSilentSkip == \A m \in 1..cursor : m \in processed \cup expired

\* The consumer gets every accepted message in the end, across reconnections.
EventuallyProcessed ==
  \A m \in Messages : accepted >= m ~> m \in processed \cup expired
=============================================================================
