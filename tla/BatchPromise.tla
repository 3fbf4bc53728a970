---------------------------- MODULE BatchPromise ----------------------------
(***************************************************************************)
(* What ProducerBatcher promises its callers: a submitted publication is   *)
(* answered exactly once.  Either its batch went to the broker, in which   *)
(* case it gets its own ID or the batch's error, or it never left: the     *)
(* caller's context ended or the batcher closed.  A batch holds at most    *)
(* MaxMessages publications of one topic and one set of options.           *)
(***************************************************************************)
EXTENDS Integers, FiniteSets

CONSTANTS Publishers, Class, MaxMessages, None, Failed, Cancelled, Closed

VARIABLES
  submitted,  \* publications in the batcher's hands
  answer,     \* the answer of each, or None
  sent        \* publications that were part of a request to the broker

promiseVars == <<submitted, answer, sent>>

Init == submitted = {} /\ sent = {} /\ answer = [p \in Publishers |-> None]

Submit ==
  /\ \E p \in Publishers \ submitted : submitted' = submitted \cup {p}
  /\ UNCHANGED <<answer, sent>>

Waiting == {p \in submitted : answer[p] = None}

\* One request for a batch, answered for each of its members.
Send ==
  \E S \in SUBSET (Waiting \ sent) :
    /\ S # {} /\ Cardinality(S) <= MaxMessages
    /\ \A p, q \in S : Class[p] = Class[q]
    /\ sent' = sent \cup S
    /\ \/ answer' = [p \in Publishers |-> IF p \in S THEN p ELSE answer[p]]
       \/ answer' = [p \in Publishers |-> IF p \in S THEN Failed ELSE answer[p]]
    /\ UNCHANGED submitted

\* Publications that did not leave.
Return ==
  /\ \E S \in SUBSET (Waiting \ sent), a \in {Cancelled, Closed} :
       answer' = [p \in Publishers |-> IF p \in S THEN a ELSE answer[p]]
  /\ UNCHANGED <<submitted, sent>>

Next == Submit \/ Send \/ Return

Spec == Init /\ [][Next]_promiseVars
=============================================================================
