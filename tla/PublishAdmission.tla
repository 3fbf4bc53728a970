-------------------------- MODULE PublishAdmission --------------------------
(***************************************************************************)
(* Byte admission of publish requests: acquirePublishAdmission,            *)
(* grantPublishAdmissionLocked and releasePublishAdmission in broker.go.   *)
(*                                                                         *)
(* Every publish handler reserves its body size before it reads the body   *)
(* and gives it back when it returns.  A request that does not fit waits   *)
(* in admissionWaiters until a grant, its timer or its client ends the     *)
(* wait.                                                                   *)
(*                                                                         *)
(* admissionMu is held from the change that starts a grant loop until the  *)
(* loop returns.  The loop is modelled one turn at a time, because a       *)
(* waiter may see its ready channel closed, or its timer fire, between two *)
(* turns; "granting" is TRUE while the lock is held, and every action that *)
(* takes the lock waits for it.                                            *)
(***************************************************************************)
EXTENDS Integers, FiniteSets, Functions

CONSTANTS
  Requests,     \* names of publish handlers, recycled after use
  Bytes,        \* reserved: the declared size of each request
  Budget,       \* PublishAdmissionBytes
  BypassLimit   \* the 8 of grantPublishAdmissionLocked

ASSUME AdmissionTyped ==
  /\ IsFiniteSet(Requests)
  /\ Bytes \in [Requests -> Nat \ {0}]
  /\ Budget \in Nat /\ BypassLimit \in Nat

VARIABLES
  state,     \* where each handler is
  used,      \* publishAdmissionBytes
  queue,     \* the requests in admissionWaiters
  before,    \* the waiters in front of each waiter
  bypassed,  \* publishAdmissionWaiter.bypassed
  granted,   \* requests whose waiter.granted is set and that have not returned yet
  granting   \* a handler is inside grantPublishAdmissionLocked

vars == <<state, used, queue, before, bypassed, granted, granting>>

\* "waiting": in the select.  "leaving": the timer fired or the client went away, and
\* admissionMu is not yet taken.  "admitted": acquirePublishAdmission returned true.
States == {"idle", "waiting", "leaving", "admitted"}

Init ==
  /\ state = [r \in Requests |-> "idle"]
  /\ used = 0 /\ queue = {} /\ granted = {} /\ granting = FALSE
  /\ before = [r \in Requests |-> {}]
  /\ bypassed = [r \in Requests |-> 0]

Fits(r) == Bytes[r] <= Budget - used

-----------------------------------------------------------------------------
(* acquirePublishAdmission.  A request larger than the budget is refused    *)
(* without a trace, so only the others are actions.                         *)

Acceptable(r) == state[r] = "idle" /\ Bytes[r] <= Budget

AdmitAtOnce(r) ==
  /\ ~granting /\ Acceptable(r)
  /\ queue = {} /\ Fits(r)
  /\ state' = [state EXCEPT ![r] = "admitted"]
  /\ used' = used + Bytes[r]
  /\ UNCHANGED <<queue, before, bypassed, granted, granting>>

Enqueue(r) ==
  /\ ~granting /\ Acceptable(r)
  /\ queue # {} \/ ~Fits(r)
  /\ state' = [state EXCEPT ![r] = "waiting"]
  /\ queue' = queue \cup {r}
  /\ before' = [before EXCEPT ![r] = queue]
  /\ bypassed' = [bypassed EXCEPT ![r] = 0]
  /\ UNCHANGED <<used, granted, granting>>

\* The ready channel is closed.
Wake(r) ==
  /\ state[r] = "waiting" /\ r \in granted
  /\ state' = [state EXCEPT ![r] = "admitted"]
  /\ granted' = granted \ {r}
  /\ UNCHANGED <<used, queue, before, bypassed, granting>>

\* The timer fires or the request context ends, perhaps after the grant.
GiveUp(r) ==
  /\ state[r] = "waiting"
  /\ state' = [state EXCEPT ![r] = "leaving"]
  /\ UNCHANGED <<used, queue, before, bypassed, granted, granting>>

\* Under the lock again, and the grant was first: the answer is still yes.
LeaveGranted(r) ==
  /\ ~granting /\ state[r] = "leaving" /\ r \in granted
  /\ state' = [state EXCEPT ![r] = "admitted"]
  /\ granted' = granted \ {r}
  /\ UNCHANGED <<used, queue, before, bypassed, granting>>

Without(r) == [q \in Requests |-> before[q] \ {r}]

\* Mutant: the waiter that leaves does not let the ones behind it in.
LeaveQueueSilently(r) ==
  /\ ~granting /\ state[r] = "leaving" /\ r \notin granted
  /\ state' = [state EXCEPT ![r] = "idle"]
  /\ queue' = queue \ {r} /\ before' = Without(r)
  /\ UNCHANGED <<used, bypassed, granted, granting>>

\* Mutant: the waiter that gives up does not look whether it was granted.
LeaveQueueUnchecked(r) ==
  /\ ~granting /\ state[r] = "leaving"
  /\ state' = [state EXCEPT ![r] = "idle"]
  /\ queue' = queue \ {r} /\ before' = Without(r)
  /\ granted' = granted \ {r}
  /\ granting' = TRUE
  /\ UNCHANGED <<used, bypassed>>

LeaveQueue(r) ==
  /\ ~granting /\ state[r] = "leaving" /\ r \notin granted
  /\ state' = [state EXCEPT ![r] = "idle"]
  /\ queue' = queue \ {r} /\ before' = Without(r)
  /\ granting' = TRUE
  /\ UNCHANGED <<used, bypassed, granted>>

\* releasePublishAdmission, deferred by both publish handlers.
Release(r) ==
  /\ ~granting /\ state[r] = "admitted"
  /\ state' = [state EXCEPT ![r] = "idle"]
  /\ used' = used - Bytes[r]
  /\ granting' = TRUE
  /\ UNCHANGED <<queue, before, bypassed, granted>>

-----------------------------------------------------------------------------
(* grantPublishAdmissionLocked: each turn grants the first waiter that      *)
(* fits, unless the head does not fit and has been passed often enough.     *)

\* Mutant: the head may be passed for ever.
SelectableAlways(r) == r \in queue /\ Fits(r) /\ \A q \in before[r] : ~Fits(q)
Selectable(r) ==
  /\ r \in queue /\ Fits(r)
  /\ \A q \in before[r] : ~Fits(q) /\ (before[q] = {} => bypassed[q] < BypassLimit)

Grant(r) ==
  /\ granting /\ Selectable(r)
  /\ used' = used + Bytes[r]
  /\ queue' = queue \ {r} /\ before' = [Without(r) EXCEPT ![r] = {}]
  /\ bypassed' = [q \in Requests |->
       IF q \in before[r] /\ bypassed[q] < BypassLimit THEN bypassed[q] + 1 ELSE bypassed[q]]
  /\ granted' = granted \cup {r}
  /\ UNCHANGED <<state, granting>>

GrantDone ==
  /\ granting /\ \A r \in queue : ~Selectable(r)
  /\ granting' = FALSE
  /\ UNCHANGED <<state, used, queue, before, bypassed, granted>>

-----------------------------------------------------------------------------
Next ==
  \/ \E r \in Requests : \/ AdmitAtOnce(r) \/ Enqueue(r) \/ Wake(r) \/ GiveUp(r)
                          \/ LeaveGranted(r) \/ LeaveQueue(r) \/ Release(r) \/ Grant(r)
  \/ GrantDone

Spec == Init /\ [][Next]_vars

-----------------------------------------------------------------------------
(* Properties.                                                              *)

\* Every variable keeps its type; bypassed never passes its limit, as in its uint8.
TypeOK ==
  /\ state \in [Requests -> States]
  /\ used \in Int /\ granting \in BOOLEAN
  /\ queue \subseteq Requests /\ granted \subseteq Requests
  /\ before \in [Requests -> SUBSET Requests]
  /\ bypassed \in [Requests -> 0..BypassLimit]

\* A waiter is queued or granted, never both, and only while its handler waits: it can
\* be granted once, and no grant reaches a handler that already returned.
WaiterOnce ==
  /\ queue \cap granted = {}
  /\ \A r \in queue \cup granted : state[r] \in {"waiting", "leaving"}

Holders == {r \in Requests : state[r] = "admitted"} \cup granted

\* publishAdmissionBytes is exactly what the admitted requests and the granted ones hold:
\* a grant that races the timer or the client is neither lost nor charged twice.
AdmissionLedger == used = SumFunctionOnSet(Bytes, Holders)

\* The bytes admitted never exceed the budget, and when no grant loop is running the first waiter
\* really does not fit: no release and no abandoned wait leaves it behind with room for it.
HeadBlocked ==
  /\ used <= Budget
  /\ ~granting => \A r \in queue : before[r] = {} => ~Fits(r)

\* A waiter that does not give up is granted in the end, however many small requests
\* keep passing it.
NoStarvation == \A r \in Requests : r \in queue ~> r \notin queue
=============================================================================
