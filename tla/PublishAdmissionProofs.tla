----------------------- MODULE PublishAdmissionProofs -----------------------
(* Safety of publish admission, for every set of requests, all sizes and    *)
(* every budget.                                                            *)
EXTENDS PublishAdmission, FoldTheorems, TLAPS

\* Every step of acquire, grant and release keeps the types, and the bypass counter
\* within its limit.
LEMMA TypeStep == TypeOK /\ [Next]_vars => TypeOK'
<1> SUFFICES ASSUME TypeOK, [Next]_vars PROVE TypeOK'
  OBVIOUS
<1> USE AdmissionTyped
<1>1. ASSUME NEW r \in Requests, AdmitAtOnce(r) PROVE TypeOK'
  BY <1>1 DEF TypeOK, AdmitAtOnce, States
<1>2. ASSUME NEW r \in Requests, Enqueue(r) PROVE TypeOK'
  <2>1. bypassed' \in [Requests -> 0..BypassLimit]
    BY <1>2 DEF TypeOK, Enqueue
  <2> QED BY <1>2, <2>1 DEF TypeOK, Enqueue, States
<1>3. ASSUME NEW r \in Requests, Wake(r) \/ GiveUp(r) \/ LeaveGranted(r) PROVE TypeOK'
  BY <1>3 DEF TypeOK, Wake, GiveUp, LeaveGranted, States
<1>4. ASSUME NEW r \in Requests, LeaveQueue(r) PROVE TypeOK'
  <2>1. before' \in [Requests -> SUBSET Requests]
    BY <1>4 DEF TypeOK, LeaveQueue, Without
  <2> QED BY <1>4, <2>1 DEF TypeOK, LeaveQueue, States
<1>5. ASSUME NEW r \in Requests, Release(r) PROVE TypeOK'
  BY <1>5 DEF TypeOK, Release, States
<1>6. ASSUME NEW r \in Requests, Grant(r) PROVE TypeOK'
  <2>1. before' \in [Requests -> SUBSET Requests]
    BY <1>6 DEF TypeOK, Grant, Without
  <2>2. bypassed' \in [Requests -> 0..BypassLimit]
    BY <1>6 DEF TypeOK, Grant
  <2> QED BY <1>6, <2>1, <2>2 DEF TypeOK, Grant
<1>7. CASE GrantDone
  BY <1>7 DEF TypeOK, GrantDone
<1>8. CASE UNCHANGED vars
  BY <1>8 DEF TypeOK, vars
<1> QED BY <1>1, <1>2, <1>3, <1>4, <1>5, <1>6, <1>7, <1>8 DEF Next

\* A step keeps the first waiter blocked: a step that could make room for it holds the
\* lock, and the grant loop gives the lock back only when no waiter can be selected.
LEMMA HeadStep == TypeOK /\ HeadBlocked /\ [Next]_vars => HeadBlocked'
<1> SUFFICES ASSUME TypeOK, HeadBlocked, [Next]_vars PROVE HeadBlocked'
  OBVIOUS
<1> USE AdmissionTyped
<1>1. ASSUME NEW r \in Requests, AdmitAtOnce(r) PROVE HeadBlocked'
  BY <1>1 DEF TypeOK, HeadBlocked, AdmitAtOnce, Fits
<1>2. ASSUME NEW r \in Requests, Enqueue(r) PROVE HeadBlocked'
  <2>1. ASSUME NEW q \in queue', before'[q] = {} PROVE ~Fits(q)'
    <3>1. CASE q = r
      <4>1. queue = {}
        BY <1>2, <2>1, <3>1 DEF TypeOK, Enqueue
      <4> QED BY <1>2, <3>1, <4>1 DEF Enqueue, Fits
    <3>2. CASE q # r
      <4>1. q \in queue /\ before[q] = {}
        BY <1>2, <2>1, <3>2 DEF TypeOK, Enqueue
      <4> QED BY <1>2, <4>1 DEF Enqueue, HeadBlocked, Fits
    <3> QED BY <3>1, <3>2
  <2>2. used' <= Budget
    BY <1>2 DEF HeadBlocked, Enqueue
  <2> QED BY <2>1, <2>2 DEF HeadBlocked
<1>3. ASSUME NEW r \in Requests, Wake(r) \/ GiveUp(r) \/ LeaveGranted(r) PROVE HeadBlocked'
  BY <1>3 DEF HeadBlocked, Fits, Wake, GiveUp, LeaveGranted
<1>4. ASSUME NEW r \in Requests, LeaveQueue(r) \/ Release(r) PROVE HeadBlocked'
  BY <1>4 DEF TypeOK, HeadBlocked, LeaveQueue, Release
<1>5. ASSUME NEW r \in Requests, Grant(r) PROVE HeadBlocked'
  BY <1>5 DEF TypeOK, HeadBlocked, Grant, Selectable, Fits
<1>6. CASE GrantDone
  <2>1. ASSUME NEW q \in queue, before[q] = {} PROVE ~Fits(q)
    BY <1>6, <2>1 DEF GrantDone, Selectable
  <2> QED BY <1>6, <2>1 DEF HeadBlocked, GrantDone, Fits
<1>7. CASE UNCHANGED vars
  BY <1>7 DEF HeadBlocked, Fits, vars
<1> QED BY <1>1, <1>2, <1>3, <1>4, <1>5, <1>6, <1>7 DEF Next

\* A step moves a waiter from the queue to the granted ones or out of either: a handler
\* returns only after it took its grant or left the queue.
LEMMA OnceStep == TypeOK /\ WaiterOnce /\ [Next]_vars => WaiterOnce'
<1> SUFFICES ASSUME TypeOK, WaiterOnce, [Next]_vars PROVE WaiterOnce'
  OBVIOUS
<1>1. ASSUME NEW r \in Requests, AdmitAtOnce(r) \/ Enqueue(r) PROVE WaiterOnce'
  BY <1>1 DEF TypeOK, WaiterOnce, AdmitAtOnce, Enqueue, Acceptable
<1>2. ASSUME NEW r \in Requests, Wake(r) \/ GiveUp(r) \/ LeaveGranted(r) PROVE WaiterOnce'
  BY <1>2 DEF TypeOK, WaiterOnce, Wake, GiveUp, LeaveGranted
<1>3. ASSUME NEW r \in Requests, LeaveQueue(r) \/ Release(r) PROVE WaiterOnce'
  BY <1>3 DEF TypeOK, WaiterOnce, LeaveQueue, Release
<1>4. ASSUME NEW r \in Requests, Grant(r) PROVE WaiterOnce'
  BY <1>4 DEF TypeOK, WaiterOnce, Grant, Selectable
<1>5. CASE GrantDone \/ UNCHANGED vars
  BY <1>5 DEF WaiterOnce, GrantDone, vars
<1> QED BY <1>1, <1>2, <1>3, <1>4, <1>5 DEF Next

\* A grant takes the bytes of a request that held none, a release gives back those of one that did,
\* and everything between leaves the holders alone: the counter follows the holders.
LEMMA LedgerStep == TypeOK /\ WaiterOnce /\ AdmissionLedger /\ [Next]_vars => AdmissionLedger'
<1> SUFFICES ASSUME TypeOK, WaiterOnce, AdmissionLedger, [Next]_vars PROVE AdmissionLedger'
  OBVIOUS
<1>1. /\ IsFiniteSet(Holders) /\ Holders \subseteq Requests
      /\ \A r \in Requests : Bytes[r] \in Int
  BY AdmissionTyped, FS_Subset DEF Holders, TypeOK
<1>2. used \in Int /\ used = SumFunctionOnSet(Bytes, Holders)
  BY DEF TypeOK, AdmissionLedger
<1>3. ASSUME NEW r \in Requests, r \notin Holders, Holders' = Holders \cup {r}, used' = used + Bytes[r]
      PROVE  AdmissionLedger'
  <2>1. \A q \in Holders \cup {r} : Bytes[q] \in Int
    BY <1>1
  <2>2. SumFunctionOnSet(Bytes, Holders \cup {r}) = SumFunctionOnSet(Bytes, Holders) + Bytes[r]
    BY ONLY <1>1, <1>3, <2>1, SumAdd
  <2> QED BY <1>2, <1>3, <2>2 DEF AdmissionLedger
<1>4. ASSUME NEW r \in Holders, Holders' = Holders \ {r}, used' = used - Bytes[r]
      PROVE  AdmissionLedger'
  <2>1. \A q \in Holders : Bytes[q] \in Int
    BY <1>1
  <2>2. SumFunctionOnSet(Bytes, Holders \ {r}) = SumFunctionOnSet(Bytes, Holders) - Bytes[r]
    BY ONLY <1>1, <1>4, <2>1, SumRemove
  <2> QED BY <1>2, <1>4, <2>2 DEF AdmissionLedger
<1>5. ASSUME Holders' = Holders, used' = used PROVE AdmissionLedger'
  BY <1>2, <1>5 DEF AdmissionLedger
<1>6. ASSUME NEW r \in Requests, AdmitAtOnce(r) PROVE AdmissionLedger'
  <2>1. r \notin Holders /\ Holders' = Holders \cup {r}
    BY <1>6 DEF AdmitAtOnce, Acceptable, Holders, TypeOK, WaiterOnce
  <2> QED BY <1>3, <1>6, <2>1 DEF AdmitAtOnce
<1>7. ASSUME NEW r \in Requests, Grant(r) PROVE AdmissionLedger'
  <2>1. r \notin Holders /\ Holders' = Holders \cup {r}
    BY <1>7 DEF Grant, Selectable, Holders, TypeOK, WaiterOnce
  <2> QED BY <1>3, <1>7, <2>1 DEF Grant
<1>8. ASSUME NEW r \in Requests, Release(r) PROVE AdmissionLedger'
  <2>1. r \in Holders /\ Holders' = Holders \ {r}
    BY <1>8 DEF Release, Holders, TypeOK, WaiterOnce
  <2> QED BY <1>4, <1>8, <2>1 DEF Release
<1>9. ASSUME NEW r \in Requests, Wake(r) \/ LeaveGranted(r) PROVE AdmissionLedger'
  <2>1. Holders' = Holders
    BY <1>9 DEF Wake, LeaveGranted, Holders, TypeOK
  <2> QED BY <1>5, <1>9, <2>1 DEF Wake, LeaveGranted
<1>10. ASSUME NEW r \in Requests, Enqueue(r) \/ GiveUp(r) \/ LeaveQueue(r) PROVE AdmissionLedger'
  <2>1. Holders' = Holders
    BY <1>10 DEF Enqueue, Acceptable, GiveUp, LeaveQueue, Holders, TypeOK
  <2> QED BY <1>5, <1>10, <2>1 DEF Enqueue, GiveUp, LeaveQueue
<1>11. CASE GrantDone \/ UNCHANGED vars
  BY <1>5, <1>11 DEF GrantDone, vars, Holders
<1> QED BY <1>6, <1>7, <1>8, <1>9, <1>10, <1>11 DEF Next

\* Publish admission never exceeds its budget, grants a waiter at most once, and whenever
\* admissionMu is free the first waiter does not fit: a release, a timeout or a cancelled
\* client never leaves room in front of a waiter that could use it.
THEOREM AdmissionSafety == Spec => [](TypeOK /\ WaiterOnce /\ HeadBlocked)
<1>1. Init => TypeOK /\ WaiterOnce /\ HeadBlocked
  <2> SUFFICES ASSUME Init PROVE TypeOK /\ WaiterOnce /\ HeadBlocked
    OBVIOUS
  <2>1. bypassed \in [Requests -> 0..BypassLimit]
    <3>1. 0 \in 0..BypassLimit
      BY AdmissionTyped
    <3> QED BY <3>1 DEF Init
  <2>2. state \in [Requests -> States] /\ before \in [Requests -> SUBSET Requests]
    BY DEF Init, States
  <2>3. TypeOK
    <3>1. used \in Int /\ queue \subseteq Requests /\ granted \subseteq Requests
      BY DEF Init
    <3>2. granting \in BOOLEAN
      BY Zenon DEF Init
    <3> QED BY <2>1, <2>2, <3>1, <3>2, Zenon DEF TypeOK
  <2>4. HeadBlocked
    BY AdmissionTyped DEF Init, HeadBlocked
  <2>5. WaiterOnce
    BY DEF Init, WaiterOnce
  <2> QED BY <2>3, <2>4, <2>5
<1>2. TypeOK /\ WaiterOnce /\ HeadBlocked /\ [Next]_vars
        => (TypeOK /\ WaiterOnce /\ HeadBlocked)'
  BY TypeStep, OnceStep, HeadStep
<1> QED BY <1>1, <1>2, PTL DEF Spec

\* grantPublishAdmissionLocked and the wait in acquirePublishAdmission: publishAdmissionBytes is at
\* every moment exactly what the admitted and the granted requests hold, whichever of the grant, the
\* timer and the client comes first.
THEOREM AdmissionConserved == Spec => []AdmissionLedger
<1>1. Init => AdmissionLedger
  <2> SUFFICES ASSUME Init PROVE AdmissionLedger
    OBVIOUS
  <2>1. Holders = {} /\ used = 0
    BY DEF Init, Holders
  <2> QED BY <2>1, SumEmpty DEF AdmissionLedger
<1> QED BY <1>1, LedgerStep, AdmissionSafety, PTL DEF Spec
=============================================================================
