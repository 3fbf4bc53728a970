--------------------------- MODULE ProducerBatcher ---------------------------
(***************************************************************************)
(* The Go client's ProducerBatcher: callers of Publish, Flush and Close,   *)
(* the bounded queue with its slots, and the worker goroutine run with its *)
(* pending batch, its delay timer and the request it makes to the broker.  *)
(*                                                                         *)
(* Every publication counts one towards MaxMessages; its topic and options *)
(* without the key are its class.  The ID the broker gives a publication   *)
(* is the publication itself.  The once.Do goroutine of Close is the       *)
(* caller Closing: a Flush with the first closer's context that then       *)
(* closes stop.                                                            *)
(***************************************************************************)
EXTENDS Integers, Sequences, FiniteSets, SequencesExt, Selection

CONSTANTS
  Publishers, Flushers, Closers, Closing,
  Class,          \* topic and options of each publication
  Cancellable,    \* callers whose context may end
  MaxMessages, QueueDepth,
  None, Failed, Cancelled, Closed, Flushed

ASSUME BatcherTyped ==
  /\ MaxMessages \in Nat \ {0} /\ QueueDepth \in Nat \ {0}
  /\ Cancellable \subseteq Publishers \cup Flushers \cup Closers
  /\ IsFiniteSet(Publishers) /\ IsFiniteSet(Flushers)
  /\ Publishers \cap Flushers = {} /\ Closers \cap (Publishers \cup Flushers) = {}
  /\ Closing \notin Publishers \cup Flushers \cup Closers
  /\ None \notin Publishers \cup Closers \cup {Failed, Cancelled, Closed, Flushed}
  /\ Closed \notin Publishers \cup {Failed, Cancelled, Flushed}
  /\ {Failed, Flushed} \cap (Publishers \cup {Cancelled}) = {}

Callers == Publishers \cup Flushers \cup {Closing}

VARIABLES
  pc,        \* where each caller of Publish, Flush or Close is
  ended,     \* callers whose context has ended
  answer,    \* what each command's done or barrier channel received
  closeErr,  \* what the Flush of Close returned
  slots,     \* slots taken
  queue,     \* commands, by their caller
  stop, done, \* channels closed
  aborted,   \* the worker's context was cancelled
  pending,   \* the worker's batch
  timer,     \* the worker waits on its timer
  calling,   \* members of the batch the worker is publishing
  then,      \* what the worker does after the flush
  sent,      \* publications that were part of a request
  first,     \* the closer whose context the Flush of Close has
  covers     \* publications submitted before each Flush

callVars == <<pc, ended, closeErr>>
histories == <<first, covers>>
workVars == <<done, pending, timer, calling, then, sent>>
vars == <<callVars, answer, slots, queue, stop, aborted, workVars, histories>>

Init ==
  /\ pc = [c \in Callers \cup Closers |-> "idle"]
  /\ ended = {} /\ answer = [c \in Callers |-> None]  /\ closeErr = None
  /\ slots = 0 /\ queue = <<>> /\ stop = FALSE /\ done = FALSE /\ aborted = FALSE
  /\ pending = <<>> /\ timer = FALSE /\ calling = <<>> /\ then = <<"select">> /\ sent = {}
  /\ first = None /\ covers = [c \in Callers |-> {}]

-----------------------------------------------------------------------------
(* Publish and Flush.                                                       *)

\* The Flush of Close runs with the context of the closer that came first.
ContextEnded(c) == (IF c = Closing THEN first ELSE c) \in ended

Returns(c, r) ==
  /\ pc' = [pc EXCEPT ![c] = "returned"]
  /\ closeErr' = IF c = Closing THEN r ELSE closeErr

\* reserve: a free slot is taken at once, or the caller's context had already ended.
Call(c) ==
  /\ c \in Publishers \cup Flushers /\ pc[c] = "idle"
  /\ \/ stop /\ Returns(c, Closed) /\ UNCHANGED slots
     \/ /\ ~stop /\ slots < QueueDepth
        /\ pc' = [pc EXCEPT ![c] = "reserved"] /\ slots' = slots + 1 /\ UNCHANGED closeErr
     \/ ~stop /\ ContextEnded(c) /\ Returns(c, Cancelled) /\ UNCHANGED slots
     \/ /\ ~stop /\ slots = QueueDepth
        /\ pc' = [pc EXCEPT ![c] = "reserving"] /\ UNCHANGED <<slots, closeErr>>
  /\ UNCHANGED <<ended, answer, queue, stop, aborted, workVars, histories>>

Reserve(c) ==
  /\ pc[c] = "reserving" /\ slots < QueueDepth
  /\ pc' = [pc EXCEPT ![c] = "reserved"] /\ slots' = slots + 1
  /\ UNCHANGED <<ended, closeErr, answer, queue, stop, aborted, workVars, histories>>

\* The batcher is closed, or the caller's context ended while it waited for a slot.
ReserveFails(c) ==
  /\ pc[c] = "reserving"
  /\ \/ stop /\ Returns(c, Closed)
     \/ ContextEnded(c) /\ Returns(c, Cancelled)
  /\ UNCHANGED <<ended, answer, slots, queue, stop, aborted, workVars, histories>>

Submitted ==
  {p \in Publishers : \/ p \in ToSet(queue) \cup ToSet(pending) \/ then = <<"append", p>>
                      \/ answer[p] # None}

Submit(c) ==
  /\ queue' = Append(queue, c) /\ pc' = [pc EXCEPT ![c] = "waiting"]
  /\ covers' = [covers EXCEPT ![c] = IF c \in Publishers THEN {} ELSE Submitted]
  /\ UNCHANGED <<slots, closeErr, first>>

\* Mutant: stop is not looked at again under the lock.
EnqueueUnchecked(c) ==
  /\ pc[c] = "reserved"
  /\ Submit(c)
  /\ UNCHANGED <<ended, answer, stop, aborted, workVars>>

\* Mutant: a refused caller keeps its slot.
EnqueueLeaks(c) ==
  /\ pc[c] = "reserved"
  /\ IF stop THEN Returns(c, Closed) /\ UNCHANGED <<queue, slots, histories>> ELSE Submit(c)
  /\ UNCHANGED <<ended, answer, stop, aborted, workVars>>

\* enqueueReserved: submission and close(stop) exclude each other.
Enqueue(c) ==
  /\ pc[c] = "reserved"
  /\ IF stop THEN Returns(c, Closed) /\ slots' = slots - 1 /\ UNCHANGED <<queue, histories>>
     ELSE Submit(c)
  /\ UNCHANGED <<ended, answer, stop, aborted, workVars>>

Answered(c) ==
  /\ pc[c] = "waiting"
  /\ \/ answer[c] # None /\ Returns(c, answer[c])
     \/ ContextEnded(c) /\ Returns(c, Cancelled)
  /\ UNCHANGED <<ended, answer, slots, queue, stop, aborted, workVars, histories>>

EndContext(c) ==
  /\ pc[c] # "returned" /\ c \notin ended /\ ended' = ended \cup {c}
  /\ UNCHANGED <<pc, closeErr, answer, slots, queue, stop, aborted, workVars, histories>>

-----------------------------------------------------------------------------
(* Close.                                                                   *)

CallClose(k) ==
  /\ pc[k] = "idle"
  /\ pc' = [pc EXCEPT ![k] = "waiting",
                      ![Closing] = IF pc[Closing] = "idle" THEN "reserving" ELSE pc[Closing]]
  /\ first' = IF pc[Closing] = "idle" THEN k ELSE first
  /\ UNCHANGED <<ended, closeErr, answer, slots, queue, stop, aborted, workVars, covers>>

\* The goroutine has its closeErr and closes stop under enqueueMu.
CloseStop ==
  /\ pc[Closing] = "returned" /\ ~stop
  /\ stop' = TRUE
  /\ UNCHANGED <<callVars, answer, slots, queue, aborted, workVars, histories>>

CloseReturns(k) ==
  /\ pc[k] = "waiting"
  /\ \/ done /\ Returns(k, closeErr) /\ UNCHANGED aborted
     \/ k \in ended /\ Returns(k, Cancelled) /\ aborted' = TRUE
  /\ UNCHANGED <<ended, answer, slots, queue, stop, workVars, histories>>

-----------------------------------------------------------------------------
(* run.                                                                     *)

Selecting == then = <<"select">> /\ calling = <<>> /\ ~done

\* Members whose context ended are answered; the others go to the broker.
Active == Kept(pending, Publishers \ ended)

StartFlush(what) ==
  /\ calling' = Active /\ then' = what
  /\ answer' = [c \in Callers |-> IF c \in ToSet(pending) /\ c \in ended THEN Cancelled ELSE answer[c]]
  /\ IF Active = <<>> THEN pending' = <<>> /\ timer' = FALSE ELSE UNCHANGED <<pending, timer>>

\* Mutant: results are matched with the pending publications, not with those sent.
FlushDoneByPending(ok) ==
  /\ calling # <<>>
  /\ answer' = [c \in Callers |->
       IF c \in ToSet(pending)
       THEN LET i == CHOOSE j \in 1..Len(pending) : pending[j] = c IN
            IF ok /\ i <= Len(calling) THEN calling[i] ELSE Failed
       ELSE answer[c]]
  /\ sent' = sent \cup ToSet(calling)
  /\ calling' = <<>> /\ pending' = <<>> /\ timer' = FALSE
  /\ then' = IF then[1] = "barrier" /\ ~ok THEN <<"failed", then[2]>> ELSE then
  /\ UNCHANGED <<callVars, slots, queue, stop, aborted, done, histories>>

\* PublishBatchEntries returned: one ID per member sent, or one error for all.
FlushDone(ok) ==
  /\ calling # <<>>
  /\ answer' = [c \in Callers |->
       IF c \in ToSet(calling)
       THEN LET i == CHOOSE j \in 1..Len(calling) : calling[j] = c IN
            IF ok THEN calling[i] ELSE Failed
       ELSE answer[c]]
  /\ sent' = sent \cup ToSet(calling)
  /\ calling' = <<>> /\ pending' = <<>> /\ timer' = FALSE
  /\ then' = IF then[1] = "barrier" /\ ~ok THEN <<"failed", then[2]>> ELSE then
  /\ UNCHANGED <<callVars, slots, queue, stop, aborted, done, histories>>

SelectStop ==
  /\ Selecting /\ stop
  /\ StartFlush(<<"drain">>)
  /\ UNCHANGED <<callVars, slots, queue, stop, aborted, done, sent, histories>>

SelectTimer ==
  /\ Selecting /\ timer
  /\ StartFlush(<<"select">>)
  /\ UNCHANGED <<callVars, slots, queue, stop, aborted, done, sent, histories>>

\* A command leaves the queue and gives its slot back.
Receive == queue # <<>> /\ queue' = Tail(queue) /\ slots' = slots - 1

\* Mutant: the barrier is answered without a flush.
SelectBarrierIdle ==
  /\ Selecting /\ Receive /\ Head(queue) \notin Publishers
  /\ then' = <<"barrier", Head(queue)>> /\ UNCHANGED <<answer, calling, pending, timer>>
  /\ UNCHANGED <<callVars, stop, aborted, done, sent, histories>>

SelectBarrier ==
  /\ Selecting /\ Receive /\ Head(queue) \notin Publishers
  /\ StartFlush(<<"barrier", Head(queue)>>)
  /\ UNCHANGED <<callVars, stop, aborted, done, sent, histories>>

BarrierDone ==
  /\ calling = <<>> /\ then[1] \in {"barrier", "failed"}
  /\ answer' = [answer EXCEPT ![then[2]] = IF then[1] = "barrier" THEN Flushed ELSE Failed]
  /\ then' = <<"select">>
  /\ UNCHANGED <<callVars, slots, queue, stop, aborted, done, pending, timer, calling, sent, histories>>

Incompatible(p) ==
  pending # <<>> /\ (Class[pending[1]] # Class[p] \/ Len(pending) >= MaxMessages)

SelectPublish ==
  /\ Selecting /\ Receive /\ Head(queue) \in Publishers
  /\ LET p == Head(queue) IN
       \/ /\ p \in ended
          /\ answer' = [answer EXCEPT ![p] = Cancelled]
          /\ UNCHANGED <<pending, timer, calling, then>>
       \/ p \notin ended /\ Incompatible(p) /\ StartFlush(<<"append", p>>)
       \/ /\ p \notin ended /\ ~Incompatible(p)
          /\ then' = <<"append", p>> /\ UNCHANGED <<answer, pending, timer, calling>>
  /\ UNCHANGED <<callVars, stop, aborted, done, sent, histories>>

\* Mutant: the timer is not started for the first member of a batch.
AppendUntimed ==
  /\ calling = <<>> /\ then[1] = "append"
  /\ pending' = Append(pending, then[2]) /\ UNCHANGED timer
  /\ then' = IF Len(pending) + 1 >= MaxMessages THEN <<"full">> ELSE <<"select">>
  /\ UNCHANGED <<callVars, answer, slots, queue, stop, aborted, done, calling, sent, histories>>

\* The publication joins the batch; the first member starts the timer, the last one flushes.
AppendPending ==
  /\ calling = <<>> /\ then[1] = "append"
  /\ pending' = Append(pending, then[2]) /\ timer' = (timer \/ pending = <<>>)
  /\ then' = IF Len(pending) + 1 >= MaxMessages THEN <<"full">> ELSE <<"select">>
  /\ UNCHANGED <<callVars, answer, slots, queue, stop, aborted, done, calling, sent, histories>>

FlushFull ==
  /\ then = <<"full">>
  /\ StartFlush(<<"select">>)
  /\ UNCHANGED <<callVars, slots, queue, stop, aborted, done, sent, histories>>

\* After stop: what is still queued is refused, then the worker ends.
Drain ==
  /\ calling = <<>> /\ then = <<"drain">> /\ ~done
  /\ \/ /\ Receive
        /\ answer' = [answer EXCEPT ![Head(queue)] = Closed]
        /\ UNCHANGED <<done, aborted>>
     \/ /\ queue = <<>>
        /\ done' = TRUE /\ aborted' = TRUE
        /\ UNCHANGED <<queue, slots, answer>>
  /\ UNCHANGED <<callVars, stop, pending, timer, calling, then, sent, histories>>

-----------------------------------------------------------------------------

Worker ==
  \/ SelectStop \/ SelectTimer \/ SelectBarrier \/ SelectPublish
  \/ BarrierDone \/ AppendPending \/ FlushFull \/ Drain
  \/ \E ok \in BOOLEAN : FlushDone(ok)

Caller(c) == Call(c) \/ Reserve(c) \/ ReserveFails(c) \/ Enqueue(c) \/ Answered(c)

Next ==
  \/ Worker \/ CloseStop
  \/ \E c \in Callers : Caller(c)
  \/ \E k \in Closers : CallClose(k) \/ CloseReturns(k)
  \/ \E c \in Cancellable : EndContext(c)

Spec == Init /\ [][Next]_vars

\* Some goroutine that can go on does: the timer fires and every request to the broker ends.  New
\* calls and ending contexts are never forced.
Progress ==
  \/ Worker \/ CloseStop
  \/ \E c \in Callers : Reserve(c) \/ ReserveFails(c) \/ Enqueue(c) \/ Answered(c)
  \/ \E k \in Closers : CloseReturns(k)

LiveSpec == Spec /\ WF_vars(Progress)

-----------------------------------------------------------------------------

\* The values every variable ranges over.
TypeOK ==
  /\ pc \in [Callers \cup Closers -> {"idle", "reserving", "reserved", "waiting", "returned"}]
  /\ ended \subseteq Publishers \cup Flushers \cup Closers
  /\ answer \in [Callers -> Publishers \cup {None, Failed, Cancelled, Closed, Flushed}]
  /\ closeErr \in {None, Failed, Cancelled, Closed, Flushed}
  /\ slots \in 0..QueueDepth /\ queue \in Seq(Callers)
  /\ {stop, done, aborted, timer} \subseteq BOOLEAN
  /\ pending \in Seq(Publishers) /\ calling \in Seq(Publishers) /\ sent \subseteq Publishers
  /\ then[1] \in {"select", "drain", "barrier", "failed", "append", "full"}
  /\ first \in Closers \cup {None} /\ covers \in [Callers -> SUBSET Publishers]

\* reserve, enqueueReserved: a slot is held by exactly the queued commands and the callers about to
\* submit, so the send on the queue never blocks while enqueueMu is held.
SlotLedger ==
  slots = Len(queue) + Cardinality({c \in Callers : pc[c] = "reserved"})

\* Flush, Close: when the barrier is answered, every publication submitted before it has been
\* answered, and none of them was refused because the batcher closed.
FlushCovers ==
  \A c \in Flushers \cup {Closing} :
    answer[c] \in {Flushed, Failed} => \A p \in covers[c] : answer[p] \notin {None, Closed}

\* run, Close: once the worker has ended, nobody waits for an answer it will not get.
NoneStranded ==
  done => queue = <<>> /\ \A c \in Callers : pc[c] = "waiting" => answer[c] # None

\* ProducerBatcher keeps BatchPromise: every publication is answered once, with its own ID, its
\* batch's error, or because it never left; batches are compatible and bounded.
Promise == INSTANCE BatchPromise WITH submitted <- Submitted,
                                      answer <- [p \in Publishers |-> answer[p]]
KeepsPromise == Promise!Spec

\* Publish, Flush and Close: every call returns.
AllReturn ==
  \A c \in Callers \cup Closers : pc[c] # "idle" ~> pc[c] = "returned"
=============================================================================
