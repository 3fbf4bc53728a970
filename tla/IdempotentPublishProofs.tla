---------------------- MODULE IdempotentPublishProofs ----------------------
(* Theorems about the publish handlers, for any number of requests, keys    *)
(* and contents, every budget and every size of the idempotency table.      *)
EXTENDS IdempotentPublish, PublishAdmissionProofs, SequenceTheorems

-----------------------------------------------------------------------------
(* The handlers use admission as PublishAdmission says.                     *)

\* What a handler does between admission and return leaves admission alone, and its return
\* is a Release: every step of publish is a step of PublishAdmission or none.
LEMMA AdmissionStep == [PublishNext]_publishVars => [Next]_vars
<1> SUFFICES ASSUME [PublishNext]_publishVars PROVE [Next]_vars
  OBVIOUS
<1>1. CASE Admission
  BY <1>1 DEF Admission, Next
<1>2. ASSUME NEW r \in Requests, Body(r) PROVE UNCHANGED vars
  BY <1>2 DEF Body, BeginConflict, BeginDuplicate, BeginExhausted, BeginOwner,
              AcceptIdempotent, Rejected, Accepted, Duplicate
<1>3. ASSUME NEW r \in Requests, WaitCancelled(r) \/ Overloaded(r) PROVE UNCHANGED vars
  BY <1>3 DEF WaitCancelled, Overloaded
<1>4. ASSUME NEW r \in Requests, Return(r) PROVE Next
  BY <1>4 DEF Return, Next
<1>5. ASSUME NEW k \in Keys, Expire(k) PROVE UNCHANGED vars
  BY <1>5 DEF Expire
<1>6. CASE UNCHANGED publishVars
  BY <1>6 DEF publishVars
<1> QED BY <1>1, <1>2, <1>3, <1>4, <1>5, <1>6 DEF PublishNext

\* publish implements the admission of PublishAdmission, whatever its handlers do with
\* idempotency entries while they hold their bytes.
THEOREM PublishImplementsAdmission == PublishSpec => Spec
<1>1. PublishInit => Init
  BY DEF PublishInit
<1> QED BY <1>1, AdmissionStep, PTL DEF PublishSpec, Spec

\* Handlers that wait for another publication of their key keep their bytes, and still admission
\* never exceeds its budget, grants a waiter once, and leaves no first waiter that fits.
THEOREM PublishAdmissionSafety == PublishSpec => [](WaiterOnce /\ HeadBlocked)
BY PublishImplementsAdmission, AdmissionSafety, PTL

-----------------------------------------------------------------------------
(* One owner, one copy, one content.                                        *)

Publication == Keys \X Contents

BodyTyped ==
  /\ phase \in [Requests -> Phases] /\ wants \in [Requests -> {None} \cup Publication]
  /\ owner \in [Requests -> {None} \cup Requests] /\ told \in [Requests -> {None} \cup Contents]
  /\ table \in [Keys -> {None} \cup Entry]
  /\ cache \in [Keys -> {None} \cup Contents] /\ copies \in [Keys -> Nat]

\* A handler inside beginIdempotency or after it knows what it publishes.
KnowsWhat == \A r \in Requests : phase[r] \notin {"start", "end"} => wants[r] \in Publication

\* The entry of an owner is in the table, names it and has its fingerprint.
OwnerEntry ==
  \A r \in Owners : /\ InProgress(Key(r)) /\ table[Key(r)].owner = r
                    /\ table[Key(r)].fingerprint = Content(r)

\* An unfinished entry has a handler that will finish it.
EntryOwner == \A k \in Keys : InProgress(k) => table[k].owner \in Owners /\ Key(table[k].owner) = k

\* A handler waits for an owner of the same publication.
WaitsForTwin ==
  \A r \in Requests : phase[r] = "wait" => owner[r] \in Owners /\ wants[owner[r]] = wants[r]

\* A finished entry stores the content it was made for.
StoredAsAsked ==
  \A k \in Keys : table[k] # None /\ table[k].owner = None => table[k].stored = table[k].fingerprint

\* A key with no live message has no copy to its name.
NoCopyLeft == \A k \in Keys : cache[k] = None => copies[k] = 0

BodyInv ==
  /\ BodyTyped /\ KnowsWhat /\ OwnerEntry /\ EntryOwner /\ WaitsForTwin /\ StoredAsAsked
  /\ SameContent /\ NoCopyLeft /\ OneCopy

\* Invariants of the handlers' variables do not depend on admission.
LEMMA BodyUnchanged == ASSUME BodyInv, UNCHANGED bodyVars PROVE BodyInv'
BY DEF BodyInv, bodyVars, BodyTyped, KnowsWhat, OwnerEntry, EntryOwner, WaitsForTwin,
       StoredAsAsked, SameContent, NoCopyLeft, OneCopy, Owners, InProgress, Key, Content

\* A handler that ends without being an owner takes nothing with it.
LEMMA EndsKeeps ==
  ASSUME BodyInv, NEW r \in Requests, r \notin Owners, Ends(r),
         UNCHANGED <<table, cache, copies>>
  PROVE  BodyInv'
<1> USE DEF BodyInv, BodyTyped
<1>1. BodyTyped'
  BY DEF Ends, Goes, Phases
<1>2. \A q \in Requests : q # r => /\ phase'[q] = phase[q] /\ wants'[q] = wants[q]
                                  /\ owner'[q] = owner[q] /\ told'[q] = told[q]
  BY DEF Ends, Goes
<1>3. phase'[r] = "end" /\ Owners' = Owners
  BY <1>2 DEF Ends, Goes, Owners
<1>4. KnowsWhat' /\ SameContent'
  BY <1>2, <1>3 DEF KnowsWhat, SameContent, Content
<1>5. OwnerEntry' /\ EntryOwner'
  BY <1>2, <1>3, IdempotencyTyped DEF OwnerEntry, EntryOwner, InProgress, Key, Content, Entry, Owners
<1>6. WaitsForTwin'
  BY <1>2, <1>3 DEF WaitsForTwin, Owners
<1>7. StoredAsAsked' /\ NoCopyLeft' /\ OneCopy'
  BY DEF StoredAsAsked, NoCopyLeft, OneCopy
<1> QED BY <1>1, <1>4, <1>5, <1>6, <1>7

\* A turn of beginIdempotency is taken by a handler that owns no entry, for a publication it may
\* be asked for.
LEMMA TurnFacts ==
  ASSUME BodyInv, NEW r \in Requests, NEW p \in Publications[r], Turn(r, p)
  PROVE  r \notin Owners /\ p \in Publication /\ phase[r] # "wait"
BY IdempotencyTyped DEF Turn, Owners, Publication

\* Another handler's publication of the key is found, finished or in progress.
LEMMA DuplicateKeeps ==
  ASSUME BodyInv, NEW r \in Requests, NEW p \in Publications[r], BeginDuplicate(r, p)
  PROVE  BodyInv'
<1> USE DEF BodyInv, BodyTyped
<1> DEFINE e == table[p[1]]
<1>1. /\ r \notin Owners /\ p \in Publication /\ p[1] \in Keys
      /\ e # None /\ e \in Entry /\ e.fingerprint = p[2] /\ wants'[r] = p
  BY TurnFacts DEF BeginDuplicate, Usable, Publication
<1>2. \A q \in Requests : q # r => /\ phase'[q] = phase[q] /\ wants'[q] = wants[q]
                                  /\ owner'[q] = owner[q] /\ told'[q] = told[q]
  BY DEF BeginDuplicate, Goes
<1>3. phase'[r] \in {"duplicate", "wait"} /\ Owners' = Owners
  BY <1>1, <1>2 DEF BeginDuplicate, Goes, Owners
<1>4. BodyTyped'
  BY <1>1 DEF BeginDuplicate, Goes, Phases, Entry
<1>5. KnowsWhat'
  BY <1>1, <1>2 DEF KnowsWhat
<1>6. OwnerEntry' /\ EntryOwner'
  BY <1>1, <1>2, <1>3 DEF BeginDuplicate, OwnerEntry, EntryOwner, InProgress, Key, Content, Owners
<1>7. WaitsForTwin'
  <2>1. ASSUME phase'[r] = "wait" PROVE owner'[r] \in Owners' /\ wants'[owner'[r]] = wants'[r]
    <3>1. e.owner # None /\ owner'[r] = e.owner
      BY <2>1 DEF BeginDuplicate, Goes
    <3>2. e.owner \in Owners /\ Key(e.owner) = p[1] /\ Content(e.owner) = p[2]
      BY <1>1, <3>1 DEF EntryOwner, OwnerEntry, InProgress
    <3>3. wants[e.owner] \in Publication
      BY <3>2 DEF KnowsWhat, Owners
    <3>4. wants[e.owner] = p
      BY <1>1, <3>2, <3>3 DEF Key, Content, Publication
    <3> QED BY <1>1, <1>2, <1>3, <3>1, <3>2, <3>4 DEF Owners
  <2> QED BY <1>2, <1>3, <2>1 DEF WaitsForTwin, Owners
<1>8. SameContent'
  <2>1. ASSUME phase'[r] = "duplicate" PROVE told'[r] = Content(r)'
    <3>1. e.owner = None /\ told'[r] = e.stored
      BY <2>1 DEF BeginDuplicate, Goes
    <3> QED BY <1>1, <3>1, IdempotencyTyped DEF StoredAsAsked, Content, Entry, BeginDuplicate, Usable
  <2> QED BY <1>2, <1>3, <2>1 DEF SameContent, Content
<1>9. StoredAsAsked' /\ NoCopyLeft' /\ OneCopy'
  BY DEF BeginDuplicate, StoredAsAsked, NoCopyLeft, OneCopy
<1> QED BY <1>4, <1>5, <1>6, <1>7, <1>8, <1>9

\* A new entry: the key had none in use, and what is evicted for it was finished.
LEMMA OwnerKeeps ==
  ASSUME BodyInv, NEW r \in Requests, NEW p \in Publications[r], BeginOwner(r, p)
  PROVE  BodyInv'
<1> USE DEF BodyInv, BodyTyped
<1>1. /\ r \notin Owners /\ p \in Publication /\ p[1] \in Keys /\ phase[r] # "wait"
      /\ ~Usable(p[1]) /\ ~InProgress(p[1])
  BY TurnFacts DEF BeginOwner, Usable, InProgress, Publication
<1>2. PICK kept \in [Keys -> {None} \cup Entry] :
        /\ table' = [kept EXCEPT ![p[1]] = NewEntry(r, p)]
        /\ \A k \in Keys : kept[k] = table[k] \/ (kept[k] = None /\ ~InProgress(k))
  <2>1. CASE ~Full
    BY <2>1 DEF BeginOwner, Owned
  <2>2. CASE Full
    <3>1. PICK i \in 1..Len(order) :
            /\ Evictable(i)
            /\ Owned(r, p, [table EXCEPT ![order[i].key] = None], RemoveAt(order, i))
      BY <2>2 DEF BeginOwner
    <3> DEFINE K == [table EXCEPT ![order[i].key] = None]
    <3>2. K \in [Keys -> {None} \cup Entry]
      OBVIOUS
    <3>3. \A k \in Keys : K[k] = table[k] \/ (K[k] = None /\ ~InProgress(k))
      BY <3>1 DEF Evictable
    <3>4. table' = [K EXCEPT ![p[1]] = NewEntry(r, p)]
      BY <3>1 DEF Owned
    <3> HIDE DEF K
    <3> QED BY <3>2, <3>3, <3>4
  <2> QED BY <2>1, <2>2
<1>3. NewEntry(r, p) \in Entry /\ NewEntry(r, p).owner = r /\ NewEntry(r, p).fingerprint = p[2]
  BY <1>1, IdempotencyTyped DEF NewEntry, Entry, Publication
<1>4. /\ table'[p[1]] = NewEntry(r, p) /\ NewEntry(r, p) # None /\ r # None
      /\ \A k \in Keys : k # p[1] => table'[k] = table[k] \/ (table'[k] = None /\ ~InProgress(k))
  BY <1>1, <1>2, <1>3, IdempotencyTyped
<1>5. /\ phase'[r] = "owner" /\ wants'[r] = p
      /\ \A q \in Requests : q # r => /\ phase'[q] = phase[q] /\ wants'[q] = wants[q]
                                     /\ owner'[q] = owner[q] /\ told'[q] = told[q]
  BY DEF BeginOwner, Goes
<1>6. Owners' = Owners \cup {r} /\ Owners \subseteq Requests
  BY <1>5 DEF Owners
<1>7. BodyTyped'
  BY <1>1, <1>2, <1>3 DEF BeginOwner, Goes, Phases
<1>8. KnowsWhat' /\ SameContent'
  BY <1>1, <1>5 DEF KnowsWhat, SameContent, Content
<1>9. \A q \in Owners : /\ Key(q) \in Keys /\ Key(q) # p[1] /\ q # r
                        /\ wants'[q] = wants[q] /\ table'[Key(q)] = table[Key(q)]
  BY <1>1, <1>4, <1>5, <1>6 DEF OwnerEntry, KnowsWhat, Owners, Key, Publication
<1>10. OwnerEntry'
  BY <1>3, <1>4, <1>5, <1>6, <1>9 DEF OwnerEntry, InProgress, Key, Content
<1>11. EntryOwner'
  <2>1. ASSUME NEW k \in Keys, InProgress(k)', k # p[1]
        PROVE  table'[k].owner \in Owners' /\ wants'[table'[k].owner][1] = k
    <3>1. table'[k] = table[k] /\ InProgress(k)
      BY <1>4, <2>1 DEF InProgress
    <3>2. table[k].owner \in Owners /\ Key(table[k].owner) = k
      BY <3>1 DEF EntryOwner
    <3> QED BY <1>6, <1>9, <3>1, <3>2 DEF Key
  <2>2. table'[p[1]].owner = r /\ r \in Owners' /\ Key(r)' = p[1]
    BY <1>3, <1>4, <1>5, <1>6 DEF Key
  <2> QED BY <2>1, <2>2 DEF EntryOwner, Key
<1>12. WaitsForTwin'
  BY <1>1, <1>5, <1>6, <1>9 DEF WaitsForTwin
<1>13. StoredAsAsked'
  BY <1>1, <1>3, <1>4 DEF StoredAsAsked
<1>14. NoCopyLeft' /\ OneCopy'
  BY DEF BeginOwner, NoCopyLeft, OneCopy
<1> QED BY <1>7, <1>8, <1>10, <1>11, <1>12, <1>13, <1>14

\* An owner finishes: its entry is finished or gone, and those that waited have its content
\* or take another turn.
LEMMA FinishKeeps ==
  ASSUME BodyInv, NEW r \in Owners, NEW accepted \in BOOLEAN, accepted => phase[r] = "accepted",
         Finish(r, accepted), UNCHANGED <<cache, copies>>
  PROVE  BodyInv'
<1> USE DEF BodyInv, BodyTyped
<1> DEFINE k == Key(r)
           e == table[k]
<1>1. r \in Requests /\ phase[r] \notin {"wait", "start", "end"} /\ Owners \subseteq Requests
  BY DEF Owners
<1>2. /\ k \in Keys /\ wants[r] \in Publication /\ InProgress(k) /\ e.owner = r
      /\ e.fingerprint = Content(r) /\ e \in Entry /\ e # None
  BY <1>1 DEF KnowsWhat, OwnerEntry, Key, Publication, InProgress
<1>3. accepted => told[r] = Content(r) /\ told[r] \in Contents
  BY <1>1, <1>2 DEF SameContent, Content, Publication
<1>4. /\ accepted => table' = [table EXCEPT ![k].owner = None, ![k].stored = told[r]]
      /\ ~accepted => table' = [table EXCEPT ![k] = None]
  BY <1>2 DEF Finish
<1>5. /\ \A c \in Keys : c # k => table'[c] = table[c]
      /\ accepted => /\ table'[k].owner = None /\ table'[k].stored = told[r]
                     /\ table'[k].fingerprint = e.fingerprint
      /\ ~accepted => table'[k] = None
      /\ table' \in [Keys -> {None} \cup Entry]
  BY <1>2, <1>3, <1>4 DEF Entry
<1>6. table'[k] = None \/ table'[k].owner = None
  BY <1>5
<1>7. /\ phase'[r] = "end"
      /\ \A q \in Requests : q # r => wants'[q] = wants[q]
      /\ \A q \in Requests : q # r /\ q \notin Waiters(r) =>
           phase'[q] = phase[q] /\ owner'[q] = owner[q] /\ told'[q] = told[q]
      /\ \A q \in Waiters(r) : /\ q \in Requests /\ q # r
                               /\ phase'[q] = IF accepted THEN "duplicate" ELSE "again"
                               /\ accepted => told'[q] = told[r]
  BY <1>1 DEF Finish, Waiters
<1>8. BodyTyped'
  BY <1>1, <1>3, <1>5 DEF Finish, Phases
<1>9. Owners' = Owners \ {r}
  BY <1>7 DEF Owners, Waiters
<1>10. \A q \in Waiters(r) : wants[q] = wants[r]
  BY DEF Waiters, WaitsForTwin
<1>11. \A q \in Owners : q # r => /\ Key(q) \in Keys /\ Key(q) # k /\ wants'[q] = wants[q]
                                  /\ table'[Key(q)] = table[Key(q)]
  BY <1>1, <1>2, <1>5, <1>7 DEF OwnerEntry, KnowsWhat, Key, Owners, Publication
<1>12. KnowsWhat'
  BY <1>2, <1>7, <1>10 DEF KnowsWhat
<1>13. SameContent'
  BY <1>3, <1>7, <1>10 DEF SameContent, Content
<1>14. OwnerEntry'
  BY <1>9, <1>11 DEF OwnerEntry, InProgress, Key, Content
<1>15. EntryOwner'
  <2> SUFFICES ASSUME NEW c \in Keys, InProgress(c)'
               PROVE  table'[c].owner \in Owners' /\ wants'[table'[c].owner][1] = c
    BY DEF EntryOwner, Key
  <2>1. c # k /\ table'[c] = table[c] /\ InProgress(c)
    BY <1>5, <1>6 DEF InProgress
  <2>2. table[c].owner \in Owners /\ Key(table[c].owner) = c /\ table[c].owner # r
    BY <2>1 DEF EntryOwner
  <2> QED BY <1>9, <1>11, <2>1, <2>2 DEF Key
<1>16. WaitsForTwin'
  <2> SUFFICES ASSUME NEW q \in Requests, phase'[q] = "wait"
               PROVE  owner'[q] \in Owners' /\ wants'[owner'[q]] = wants'[q]
    BY DEF WaitsForTwin
  <2>1. q # r /\ q \notin Waiters(r) /\ phase[q] = "wait" /\ owner'[q] = owner[q]
    BY <1>7
  <2>2. owner[q] \in Owners /\ wants[owner[q]] = wants[q] /\ owner[q] # r
    BY <2>1 DEF WaitsForTwin, Waiters
  <2> QED BY <1>1, <1>7, <1>9, <2>1, <2>2
<1>17. StoredAsAsked'
  BY <1>2, <1>3, <1>5 DEF StoredAsAsked
<1>18. NoCopyLeft' /\ OneCopy'
  BY DEF NoCopyLeft, OneCopy
<1> QED BY <1>8, <1>12, <1>13, <1>14, <1>15, <1>16, <1>17, <1>18

\* The cache takes a message of the key only when it has none.
LEMMA AcceptKeeps ==
  ASSUME BodyInv, NEW r \in Requests, AcceptIdempotent(r)
  PROVE  BodyInv'
<1> USE DEF BodyInv, BodyTyped
<1>1. /\ r \in Owners /\ phase'[r] \in {"accepted", "rejected"}
      /\ wants' = wants /\ owner' = owner /\ table' = table
  BY DEF AcceptIdempotent, Owners, Goes
<1>2. Key(r) \in Keys /\ Content(r) \in Contents /\ wants[r] \in Publication
  BY DEF AcceptIdempotent, KnowsWhat, Key, Content, Publication
<1>3. \A q \in Requests : q # r => phase'[q] = phase[q] /\ told'[q] = told[q]
  BY DEF AcceptIdempotent, Goes
<1>4. phase'[r] = "accepted" => told'[r] = Content(r)
  BY DEF AcceptIdempotent, Goes
<1>5. Owners' = Owners
  BY <1>1, <1>3 DEF Owners
<1>6. BodyTyped'
  BY <1>1, <1>2 DEF AcceptIdempotent, Goes, Phases
<1>7. KnowsWhat' /\ SameContent'
  BY <1>1, <1>2, <1>3, <1>4 DEF KnowsWhat, SameContent, Content
<1>8. OwnerEntry' /\ EntryOwner' /\ StoredAsAsked'
  BY <1>1, <1>5 DEF OwnerEntry, EntryOwner, StoredAsAsked, InProgress, Key, Content
<1>9. WaitsForTwin'
  BY <1>1, <1>3, <1>5 DEF WaitsForTwin
<1>10. NoCopyLeft' /\ OneCopy'
  BY <1>2, IdempotencyTyped DEF AcceptIdempotent, NoCopyLeft, OneCopy
<1> QED BY <1>6, <1>7, <1>8, <1>9, <1>10

\* An expired message takes its copies with it; its entry stays.
LEMMA ExpireKeeps ==
  ASSUME BodyInv, NEW k \in Keys, Expire(k)
  PROVE  BodyInv'
<1> USE DEF BodyInv, BodyTyped
<1>1. phase' = phase /\ wants' = wants /\ owner' = owner /\ told' = told /\ Owners' = Owners
  BY DEF Expire, Owners
<1>2. /\ table' \in [Keys -> {None} \cup Entry]
      /\ \A c \in Keys : /\ (table'[c] = None) = (table[c] = None)
                         /\ table[c] # None => /\ table'[c].owner = table[c].owner
                                               /\ table'[c].stored = table[c].stored
                                               /\ table'[c].fingerprint = table[c].fingerprint
  <2>1. CASE ~Adopted(k)
    BY <2>1 DEF Expire
  <2>2. CASE Adopted(k)
    <3>1. table[k] # None /\ table[k] \in Entry /\ table' = [table EXCEPT ![k].expired = TRUE]
      BY <2>2 DEF Expire, Adopted
    <3>2. \A c \in Keys : c # k => table'[c] = table[c]
      BY <3>1
    <3>3. /\ table'[k] \in Entry /\ table'[k].owner = table[k].owner
          /\ table'[k].stored = table[k].stored /\ table'[k].fingerprint = table[k].fingerprint
      BY <3>1 DEF Entry
    <3>4. table'[k] # None
      BY <3>3, IdempotencyTyped
    <3>5. table' \in [Keys -> {None} \cup Entry]
      BY <3>1, <3>2, <3>3
    <3> QED BY <3>1, <3>2, <3>3, <3>4, <3>5
  <2> QED BY <2>1, <2>2
<1>3. BodyTyped'
  BY <1>1, <1>2 DEF Expire
<1>4. KnowsWhat' /\ SameContent' /\ WaitsForTwin'
  BY <1>1 DEF KnowsWhat, SameContent, WaitsForTwin, Content
<1>5. \A q \in Owners : Key(q) \in Keys
  BY DEF KnowsWhat, Owners, Key, Publication
<1>6. OwnerEntry' /\ EntryOwner' /\ StoredAsAsked'
  BY <1>1, <1>2, <1>5 DEF OwnerEntry, EntryOwner, StoredAsAsked, InProgress, Key, Content
<1>7. NoCopyLeft' /\ OneCopy'
  BY DEF Expire, NoCopyLeft, OneCopy
<1> QED BY <1>3, <1>4, <1>6, <1>7

\* A handler that returns owns nothing.
LEMMA ReturnKeeps ==
  ASSUME BodyInv, NEW r \in Requests, Return(r)
  PROVE  BodyInv'
<1> USE DEF BodyInv, BodyTyped
<1>1. /\ phase'[r] = "start" /\ phase[r] \in {"start", "end"}
      /\ \A q \in Requests : q # r => phase'[q] = phase[q]
      /\ wants' = wants /\ owner' = owner /\ told' = told /\ table' = table
      /\ cache' = cache /\ copies' = copies
  BY DEF Return, Goes
<1>2. Owners' = Owners
  BY <1>1 DEF Owners
<1>3. BodyTyped'
  BY <1>1 DEF Return, Goes, Phases
<1>4. KnowsWhat' /\ SameContent' /\ WaitsForTwin'
  BY <1>1, <1>2 DEF KnowsWhat, SameContent, WaitsForTwin, Content
<1>5. OwnerEntry' /\ EntryOwner' /\ StoredAsAsked'
  BY <1>1, <1>2 DEF OwnerEntry, EntryOwner, StoredAsAsked, InProgress, Key, Content
<1>6. NoCopyLeft' /\ OneCopy'
  BY <1>1 DEF NoCopyLeft, OneCopy
<1> QED BY <1>3, <1>4, <1>5, <1>6

\* Nothing has been asked yet: the requests' part of the invariant holds initially.
LEMMA BodyInitially == PublishInit => BodyInv
BY IdempotencyTyped DEF PublishInit, BodyInv, BodyTyped, KnowsWhat, OwnerEntry, EntryOwner, WaitsForTwin,
   StoredAsAsked, SameContent, NoCopyLeft, OneCopy, Owners, InProgress, Phases

\* Every step of a publication, of its owner or of the table keeps the requests' part.
LEMMA BodyStep == BodyInv /\ [PublishNext]_publishVars => BodyInv'
<1> SUFFICES ASSUME BodyInv, [PublishNext]_publishVars PROVE BodyInv'
  OBVIOUS
<1>1. CASE Admission \/ UNCHANGED publishVars
  BY <1>1, BodyUnchanged DEF Admission, publishVars
<1>2. ASSUME NEW r \in Requests, NEW p \in Publications[r], BeginConflict(r, p) \/ BeginExhausted(r, p)
      PROVE  BodyInv'
  BY <1>2, TurnFacts, EndsKeeps DEF BeginConflict, BeginExhausted
<1>3. ASSUME NEW r \in Requests, WaitCancelled(r) \/ Duplicate(r) PROVE BodyInv'
  BY <1>3, EndsKeeps DEF WaitCancelled, Duplicate, Owners
<1>4. ASSUME NEW r \in Requests, Overloaded(r) \/ Rejected(r) PROVE BodyInv'
  BY <1>4, FinishKeeps DEF Overloaded, Rejected, Owners
<1>5. ASSUME NEW r \in Requests, Accepted(r) PROVE BodyInv'
  BY <1>5, FinishKeeps DEF Accepted, Owners
<1> QED
  BY <1>1, <1>2, <1>3, <1>4, <1>5, DuplicateKeeps, OwnerKeeps, AcceptKeeps, ReturnKeeps, ExpireKeeps
  DEF PublishNext, Body

\* beginIdempotency and finishIdempotency: a key has one owner at a time and who waits, waits for
\* it.  No eviction, expiry, failure or cancellation, in whatever order, breaks this.
THEOREM IdempotencySafety == PublishSpec => []SingleOwner
<1>1. BodyInv => SingleOwner
  BY DEF BodyInv, OwnerEntry, WaitsForTwin, SingleOwner, Key
<1> QED BY <1>1, BodyInitially, BodyStep, PTL DEF PublishSpec

-----------------------------------------------------------------------------
(* The table and its order.                                                 *)

Place == [key : Keys, current : BOOLEAN]

\* The place of a key whose entry is still the key's.
Mark(k) == [key |-> k, current |-> TRUE]

\* The places of o that are current are those of the keys in O, one for each.
Indexed(o, O) ==
  /\ o \in Seq(Place)
  /\ \A k \in Keys : k \in O <=> \E i \in 1..Len(o) : o[i] = Mark(k)
  /\ \A k \in Keys : \A i, j \in 1..Len(o) : o[i] = Mark(k) /\ o[j] = Mark(k) => i = j

\* Marks of different keys differ, and the current places are the marks.
LEMMA Marks ==
  /\ \A k \in Keys : Mark(k) \in Place /\ Mark(k) \in Current /\ Mark(k).key = k
  /\ \A k, c \in Keys : Mark(k) = Mark(c) => k = c
  /\ \A x \in Place : x \in Current => x.key \in Keys /\ x = Mark(x.key)
  /\ \A x \in Place : x.current => x.key \in Keys /\ x = Mark(x.key)
<1>1. \A k \in Keys : Mark(k) \in Place /\ Mark(k) \in Current /\ Mark(k).key = k
  BY DEF Mark, Place, Current
<1>2. \A k, c \in Keys : Mark(k) = Mark(c) => k = c
  BY <1>1
<1>3. ASSUME NEW x \in Place, x \in Current PROVE x.key \in Keys /\ x = Mark(x.key)
  <2>1. x.current = TRUE /\ x.key \in Keys /\ x = [key |-> x.key, current |-> x.current]
    BY <1>3 DEF Current
  <2> QED BY <2>1 DEF Mark
<1>4. ASSUME NEW x \in Place, x.current PROVE x.key \in Keys /\ x = Mark(x.key)
  <2>1. x.current \in BOOLEAN /\ x.key \in Keys /\ x = [key |-> x.key, current |-> x.current]
    BY DEF Place
  <2>2. x.current = TRUE
    BY <1>4, <2>1
  <2> QED BY <2>1, <2>2 DEF Mark
<1> QED BY <1>1, <1>2, <1>3, <1>4

\* A key that leaves the table leaves no current place behind.
LEMMA SupersededIndexed ==
  ASSUME NEW o, NEW O, Indexed(o, O), NEW k \in Keys
  PROVE  Indexed(Superseded(o, k), O \ {k}) /\ Len(Superseded(o, k)) = Len(o)
<1> DEFINE s == Superseded(o, k)
<1>1. o \in Seq(Place) /\ Len(o) \in Nat /\ \A i \in 1..Len(o) : o[i] \in Place
  BY DEF Indexed
<1>2. s = [i \in 1..Len(o) |-> [key |-> o[i].key, current |-> o[i].current /\ o[i].key # k]]
  BY DEF Superseded
<1> HIDE DEF s
<1>3. ASSUME NEW i \in 1..Len(o)
      PROVE  s[i] \in Place /\ \A c \in Keys : s[i] = Mark(c) <=> o[i] = Mark(c) /\ c # k
  <2>1. o[i] \in Place
    BY <1>1
  <2>2. s[i] = [key |-> o[i].key, current |-> o[i].current /\ o[i].key # k]
    BY <1>2
  <2>3. s[i] \in Place
    BY <2>1, <2>2 DEF Place
  <2>4. ASSUME NEW c \in Keys, o[i] = Mark(c), c # k PROVE s[i] = Mark(c)
    <3>1. o[i].key = c /\ o[i].current = TRUE
      BY <2>4 DEF Mark
    <3>2. (o[i].current /\ o[i].key # k) = TRUE
      BY <2>4, <3>1
    <3> QED BY <2>2, <3>1, <3>2, Zenon DEF Mark
  <2>5. ASSUME NEW c \in Keys, s[i] = Mark(c) PROVE o[i] = Mark(c) /\ c # k
    <3>1. s[i].current = TRUE /\ s[i].key = c
      BY <2>5 DEF Mark
    <3>2. s[i].current = (o[i].current /\ o[i].key # k) /\ s[i].key = o[i].key
      BY <2>2
    <3>3. o[i].current /\ o[i].key = c /\ c # k
      BY <3>1, <3>2, Zenon
    <3> QED BY <2>1, <3>3, Marks
  <2> QED BY <2>3, <2>4, <2>5
<1>4. s \in Seq(Place) /\ Len(s) = Len(o)
  BY <1>1, <1>2, <1>3
<1> QED BY <1>1, <1>3, <1>4 DEF Indexed, s

\* A key that joins the table gets the last place.
LEMMA AppendIndexed ==
  ASSUME NEW o, NEW O, Indexed(o, O), NEW k \in Keys, k \notin O
  PROVE  Indexed(Append(o, Mark(k)), O \cup {k}) /\ Len(Append(o, Mark(k))) = Len(o) + 1
<1> DEFINE s == Append(o, Mark(k))
<1>1. o \in Seq(Place) /\ Len(o) \in Nat
  BY DEF Indexed
<1>2. /\ s \in Seq(Place) /\ Len(s) = Len(o) + 1 /\ s[Len(o) + 1] = Mark(k)
      /\ \A i \in 1..Len(o) : s[i] = o[i]
  BY <1>1, Marks
<1> HIDE DEF s
<1>3. ASSUME NEW c \in Keys PROVE c \in O \cup {k} <=> \E i \in 1..Len(s) : s[i] = Mark(c)
  <2>1. c \in O => \E i \in 1..Len(s) : s[i] = Mark(c)
    BY <1>1, <1>2 DEF Indexed
  <2>2. c = k => \E i \in 1..Len(s) : s[i] = Mark(c)
    BY <1>1, <1>2
  <2>3. ASSUME NEW i \in 1..Len(s), s[i] = Mark(c), c # k PROVE c \in O
    <3>1. i # Len(o) + 1
      BY <1>2, <2>3, Marks
    <3>2. i \in 1..Len(o) /\ o[i] = Mark(c)
      BY <1>1, <1>2, <2>3, <3>1
    <3> QED BY <3>2 DEF Indexed
  <2> QED BY <2>1, <2>2, <2>3
<1>4. ASSUME NEW c \in Keys, NEW i \in 1..Len(s), NEW j \in 1..Len(s), s[i] = Mark(c), s[j] = Mark(c)
      PROVE  i = j
  <2>1. CASE c = k
    <3>1. \A n \in 1..Len(o) : o[n] # Mark(c)
      BY <2>1 DEF Indexed
    <3> QED BY <1>1, <1>2, <1>4, <3>1
  <2>2. CASE c # k
    <3>1. i # Len(o) + 1 /\ j # Len(o) + 1
      BY <1>2, <1>4, <2>2, Marks
    <3> QED BY <1>1, <1>2, <1>4, <3>1 DEF Indexed
  <2> QED BY <2>1, <2>2
<1> QED BY <1>2, <1>3, <1>4 DEF Indexed, s

\* The evicted entry leaves the table and the order together.
LEMMA RemovedIndexed ==
  ASSUME NEW o, NEW O, Indexed(o, O), NEW i \in 1..Len(o), NEW k \in Keys, o[i] = Mark(k)
  PROVE  Indexed(RemoveAt(o, i), O \ {k}) /\ Len(RemoveAt(o, i)) = Len(o) - 1
<1> DEFINE s == RemoveAt(o, i)
           a == SubSeq(o, 1, i - 1)
           b == SubSeq(o, i + 1, Len(o))
           at(j) == IF j < i THEN j ELSE j + 1
<1>1. o \in Seq(Place) /\ Len(o) \in Nat /\ i \in 1..Len(o)
  BY DEF Indexed
<1>2. s = a \o b
  BY DEF RemoveAt
<1>3. a \in Seq(Place) /\ Len(a) = i - 1 /\ \A j \in 1..(i - 1) : a[j] = o[j]
  BY <1>1
<1>4. b \in Seq(Place) /\ Len(b) = Len(o) - i /\ \A j \in 1..(Len(o) - i) : b[j] = o[i + j]
  BY <1>1
<1> HIDE DEF s, a, b
<1>5. /\ s \in Seq(Place) /\ Len(s) = Len(a) + Len(b)
      /\ \A j \in 1..(Len(a) + Len(b)) : s[j] = IF j <= Len(a) THEN a[j] ELSE b[j - Len(a)]
  BY ONLY <1>2, <1>3, <1>4, ConcatProperties, Zenon
<1>6. Len(s) = Len(o) - 1
  BY <1>1, <1>3, <1>4, <1>5
<1>7. ASSUME NEW j \in 1..Len(s) PROVE at(j) \in 1..Len(o) /\ at(j) # i /\ s[j] = o[at(j)]
  <2>1. CASE j < i
    BY <1>1, <1>3, <1>5, <1>6, <2>1
  <2>2. CASE ~(j < i)
    <3>1. ~(j <= Len(a)) /\ j - Len(a) \in 1..(Len(o) - i) /\ i + (j - Len(a)) = j + 1
      BY <1>1, <1>3, <1>6, <2>2
    <3>2. s[j] = b[j - Len(a)] /\ b[j - Len(a)] = o[j + 1]
      BY <1>3, <1>4, <1>5, <3>1
    <3> QED BY <1>1, <1>6, <2>2, <3>2
  <2> QED BY <2>1, <2>2
<1>8. \A m, n \in 1..Len(s) : at(m) = at(n) => m = n
  BY <1>1, <1>6
<1>9. ASSUME NEW n \in 1..Len(o), n # i PROVE \E j \in 1..Len(s) : at(j) = n
  <2>1. CASE n < i
    BY <1>1, <1>6, <2>1
  <2>2. CASE n > i
    <3>1. n - 1 \in 1..Len(s) /\ at(n - 1) = n
      BY <1>1, <1>6, <2>2
    <3> QED BY <3>1
  <2> QED BY <1>9, <1>1, <2>1, <2>2
<1> HIDE DEF at
<1>10. ASSUME NEW c \in Keys PROVE c \in O \ {k} <=> \E j \in 1..Len(s) : s[j] = Mark(c)
  <2>1. ASSUME c \in O, c # k PROVE \E j \in 1..Len(s) : s[j] = Mark(c)
    <3>1. PICK n \in 1..Len(o) : o[n] = Mark(c)
      BY <2>1 DEF Indexed
    <3>2. n # i
      BY <2>1, <3>1, Marks
    <3> QED BY <1>7, <1>9, <3>1, <3>2
  <2>2. ASSUME NEW j \in 1..Len(s), s[j] = Mark(c) PROVE c \in O /\ c # k
    <3>1. at(j) \in 1..Len(o) /\ at(j) # i /\ o[at(j)] = Mark(c)
      BY <1>7, <2>2
    <3> QED BY <1>1, <3>1 DEF Indexed
  <2> QED BY <2>1, <2>2
<1>11. ASSUME NEW c \in Keys, NEW m \in 1..Len(s), NEW n \in 1..Len(s), s[m] = Mark(c), s[n] = Mark(c)
       PROVE  m = n
  BY <1>7, <1>8, <1>11 DEF Indexed
<1> QED BY <1>5, <1>6, <1>10, <1>11 DEF Indexed, s

\* Compaction keeps every current place, and nothing else: no more than the table has entries.
LEMMA KeptIndexed ==
  ASSUME NEW o, NEW O \in SUBSET Keys, Indexed(o, O), IsFiniteSet(O)
  PROVE  Indexed(Kept(o, Current), O) /\ Len(Kept(o, Current)) <= Cardinality(O)
<1> DEFINE s == Kept(o, Current)
<1>1. o \in Seq(Place) /\ Len(o) \in Nat /\ \A i \in 1..Len(o) : o[i] \in Place
  BY DEF Indexed
<1>2. s \in Seq(Place) /\ \E f : Picks(f, s, o, Current, Len(o))
  BY <1>1, KeptPicks
<1>3. PICK f : Picks(f, s, o, Current, Len(o))
  BY <1>2
<1> HIDE DEF s
<1>4. /\ f \in [1..Len(s) -> 1..Len(o)] /\ Len(s) \in Nat
      /\ \A i, j \in 1..Len(s) : i < j => f[i] < f[j]
      /\ \A j \in 1..Len(s) : s[j] = o[f[j]] /\ s[j] \in Current
      /\ \A i \in 1..Len(o) : o[i] \in Current => \E j \in 1..Len(s) : f[j] = i
  BY <1>2, <1>3 DEF Picks
<1>5. \A j \in 1..Len(s) : s[j].key \in Keys /\ s[j] = Mark(s[j].key)
  BY <1>1, <1>4, Marks
<1>6. ASSUME NEW c \in Keys, NEW i \in 1..Len(s), NEW j \in 1..Len(s), s[i] = Mark(c), s[j] = Mark(c)
      PROVE  i = j
  <2>1. f[i] \in 1..Len(o) /\ f[j] \in 1..Len(o) /\ o[f[i]] = Mark(c) /\ o[f[j]] = Mark(c)
    BY <1>4, <1>6
  <2>2. f[i] = f[j]
    BY <2>1 DEF Indexed
  <2>3. ~(i < j) /\ ~(j < i)
    BY <1>4, <2>1, <2>2
  <2> QED BY <1>4, <2>3
<1>7. ASSUME NEW k \in Keys PROVE k \in O <=> \E i \in 1..Len(s) : s[i] = Mark(k)
  <2>1. ASSUME k \in O PROVE \E i \in 1..Len(s) : s[i] = Mark(k)
    <3>1. PICK i \in 1..Len(o) : o[i] = Mark(k)
      BY <2>1 DEF Indexed
    <3>2. PICK j \in 1..Len(s) : f[j] = i
      BY <1>4, <3>1, Marks
    <3> QED BY <1>4, <3>1, <3>2
  <2>2. ASSUME NEW i \in 1..Len(s), s[i] = Mark(k) PROVE k \in O
    BY <1>4, <2>2 DEF Indexed
  <2> QED BY <2>1, <2>2
<1>8. Len(s) <= Cardinality(O)
  <2> DEFINE g == [j \in 1..Len(s) |-> s[j].key]
  <2>1. g \in Injection(1..Len(s), O)
    <3>1. \A j \in 1..Len(s) : s[j].key \in O
      BY <1>5, <1>7
    <3>2. \A i, j \in 1..Len(s) : s[i].key = s[j].key => i = j
      BY <1>5, <1>6
    <3>3. g \in [1..Len(s) -> O] /\ \A i, j \in 1..Len(s) : g[i] = g[j] => i = j
      BY <3>1, <3>2
    <3> HIDE DEF g
    <3> QED BY <3>3 DEF Injection, IsInjective
  <2>2. IsFiniteSet(1..Len(s)) /\ Cardinality(1..Len(s)) = Len(s)
    <3>1. 1 \in Int /\ Len(s) \in Int
      BY <1>4
    <3>2. Cardinality(1..Len(s)) = IF 1 > Len(s) THEN 0 ELSE Len(s) - 1 + 1
      BY <3>1, FS_Interval, Zenon
    <3>3. IsFiniteSet(1..Len(s))
      BY <3>1, FS_Interval, Zenon
    <3> QED BY <1>4, <3>2, <3>3
  <2>3. Cardinality(1..Len(s)) <= Cardinality(O)
    BY <2>1, <2>2, FS_Injection
  <2> QED BY <2>2, <2>3
<1> QED BY <1>2, <1>6, <1>7, <1>8 DEF Indexed, s

\* The order that a new entry of k leaves: it has a place for k, and it is short again.
LEMMA CompactedIndexed ==
  ASSUME NEW o, NEW O \in SUBSET Keys, Indexed(o, O), IsFiniteSet(O), NEW k \in Keys,
         Len(o) <= 2 * EntryLimit, Cardinality(O \cup {k}) <= EntryLimit
  PROVE  LET c == Compacted(Append(Superseded(o, k), Mark(k)))
         IN  Indexed(c, O \cup {k}) /\ Len(c) <= 2 * EntryLimit
<1> DEFINE s == Superseded(o, k)
           a == Append(s, Mark(k))
           U == O \cup {k}
<1>1. Indexed(s, O \ {k})
  BY SupersededIndexed
<1>2. k \notin O \ {k} /\ (O \ {k}) \cup {k} = U /\ U \in SUBSET Keys
  OBVIOUS
<1>3. Indexed(a, U)
  BY <1>1, <1>2, AppendIndexed
<1>4. IsFiniteSet(U) /\ Cardinality(U) <= EntryLimit
  BY FS_AddElement
<1> HIDE DEF s, a, U
<1>5. Indexed(Kept(a, Current), U) /\ Len(Kept(a, Current)) <= Cardinality(U)
  BY <1>2, <1>3, <1>4, KeptIndexed
<1>6. EntryLimit \in Nat /\ Cardinality(U) \in Nat /\ Len(Kept(a, Current)) \in Nat
  BY <1>4, <1>5, FS_CardinalityType, IdempotencyTyped DEF Indexed
<1>7. CASE Len(a) <= 2 * EntryLimit
  BY <1>3, <1>7 DEF Compacted, a, s, U
<1>8. CASE ~(Len(a) <= 2 * EntryLimit)
  <2>1. Len(Kept(a, Current)) <= 2 * EntryLimit
    BY <1>4, <1>5, <1>6
  <2> QED BY <1>5, <1>8, <2>1 DEF Compacted, a, s, U
<1> QED BY <1>7, <1>8

\* The table is as large as it may be, and its order has its entries and room for no others.
TableInv ==
  /\ Indexed(order, Occupied) /\ Len(order) <= 2 * EntryLimit
  /\ IsFiniteSet(Occupied) /\ Cardinality(Occupied) <= EntryLimit

\* What keeps the entries in the table, whatever their fields, keeps their places.
LEMMA TableKept ==
  ASSUME TableInv, Occupied' = Occupied, order' = order
  PROVE  TableInv'
BY DEF TableInv, Indexed

\* An evicted entry makes room for the new one.
LEMMA OwnerTable ==
  ASSUME BodyInv, TableInv, NEW r \in Requests, NEW p \in Publications[r], BeginOwner(r, p)
  PROVE  TableInv'
<1> DEFINE k == p[1]
           new == NewEntry(r, p)
<1>1. p \in Publication /\ k \in Keys /\ table \in [Keys -> {None} \cup Entry]
  BY TurnFacts DEF BeginOwner, Publication, BodyInv, BodyTyped
<1>2. new # None
  <2>1. new \in Entry
    BY <1>1, IdempotencyTyped DEF NewEntry, Entry, Publication
  <2> QED BY <2>1, IdempotencyTyped
<1>3. /\ Occupied \in SUBSET Keys /\ IsFiniteSet(Occupied) /\ Cardinality(Occupied) \in Nat
      /\ EntryLimit \in Nat \ {0} /\ Cardinality(Occupied) <= EntryLimit
      /\ Indexed(order, Occupied) /\ Len(order) \in Nat /\ Len(order) <= 2 * EntryLimit
  BY IdempotencyTyped, FS_CardinalityType DEF TableInv, Occupied, Indexed
<1> HIDE DEF new
<1>4. PICK O \in SUBSET Keys, o \in Seq(Place) :
        /\ Occupied' = O \cup {k} /\ IsFiniteSet(O) /\ Cardinality(O \cup {k}) <= EntryLimit
        /\ Indexed(o, O) /\ Len(o) <= 2 * EntryLimit
        /\ order' = Compacted(Append(Superseded(o, k), Mark(k)))
  <2>1. CASE ~Full
    <3>1. table' = [table EXCEPT ![k] = new]
      BY <2>1 DEF BeginOwner, Owned, new
    <3>2. Occupied' = Occupied \cup {k}
      BY <1>1, <1>2, <3>1 DEF Occupied
    <3>3. Cardinality(Occupied \cup {k}) <= EntryLimit
      <4>1. Cardinality(Occupied \cup {k}) =
              IF k \in Occupied THEN Cardinality(Occupied) ELSE Cardinality(Occupied) + 1
        BY <1>3, FS_AddElement, Zenon
      <4> QED BY <1>3, <2>1, <4>1 DEF Full
    <3>4. order' = Compacted(Append(Superseded(order, k), Mark(k)))
      BY <2>1 DEF BeginOwner, Owned, Mark
    <3>5. order \in Seq(Place)
      BY <1>3 DEF Indexed
    <3> QED BY <1>3, <3>2, <3>3, <3>4, <3>5
  <2>2. CASE Full
    <3>1. PICK i \in 1..Len(order) :
            /\ Evictable(i)
            /\ Owned(r, p, [table EXCEPT ![order[i].key] = None], RemoveAt(order, i))
      BY <2>2 DEF BeginOwner
    <3> DEFINE e == order[i].key
               kept == [table EXCEPT ![e] = None]
               O == Occupied \ {e}
    <3>2. order[i] \in Place /\ order[i].current
      BY <1>3, <3>1 DEF Indexed, Evictable
    <3>3. e \in Keys /\ order[i] = Mark(e)
      BY <3>2, Marks
    <3>4. e \in Occupied
      BY <1>3, <3>3 DEF Indexed
    <3>5. table' = [kept EXCEPT ![k] = new]
      BY <3>1 DEF Owned, new
    <3> HIDE DEF e
    <3>6. Occupied' = O \cup {k}
      BY <1>1, <1>2, <3>3, <3>5 DEF Occupied
    <3>7. IsFiniteSet(O) /\ Cardinality(O) = Cardinality(Occupied) - 1
      BY <1>3, <3>4, FS_RemoveElement
    <3>8. Cardinality(O \cup {k}) <= Cardinality(O) + 1
      <4>1. Cardinality(O \cup {k}) = IF k \in O THEN Cardinality(O) ELSE Cardinality(O) + 1
        BY <3>7, FS_AddElement, Zenon
      <4>2. Cardinality(O) \in Int
        BY <1>3, <3>7
      <4> HIDE DEF O
      <4> QED BY <4>1, <4>2
    <3>9. Indexed(RemoveAt(order, i), O) /\ Len(RemoveAt(order, i)) = Len(order) - 1
      BY <1>3, <3>3, RemovedIndexed
    <3>10. order' = Compacted(Append(Superseded(RemoveAt(order, i), k), Mark(k)))
      BY <3>1 DEF Owned, Mark
    <3>11. O \in SUBSET Keys
      BY <1>3
    <3>12. Cardinality(O \cup {k}) <= EntryLimit /\ Len(RemoveAt(order, i)) <= 2 * EntryLimit
      <4>1. Cardinality(O \cup {k}) \in Nat
        BY <3>7, FS_AddElement, FS_CardinalityType
      <4> HIDE DEF O
      <4> QED BY <1>3, <3>7, <3>8, <3>9, <4>1
    <3>13. RemoveAt(order, i) \in Seq(Place)
      BY <3>9 DEF Indexed
    <3> HIDE DEF O
    <3> QED BY <3>6, <3>7, <3>9, <3>10, <3>11, <3>12, <3>13
  <2> QED BY <2>1, <2>2
<1>5. Indexed(order', O \cup {k}) /\ Len(order') <= 2 * EntryLimit
  BY <1>1, <1>4, CompactedIndexed
<1>6. IsFiniteSet(O \cup {k})
  BY <1>4, FS_AddElement
<1>7. Indexed(order, Occupied)'
  BY <1>4, <1>5 DEF Indexed
<1> QED BY <1>4, <1>5, <1>6, <1>7 DEF TableInv

\* An owner that fails takes its entry and the current place of the key with it.
LEMMA FinishTable ==
  ASSUME BodyInv, TableInv, NEW r \in Owners, NEW accepted \in BOOLEAN, Finish(r, accepted)
  PROVE  TableInv'
<1> DEFINE k == Key(r)
<1>1. /\ k \in Keys /\ InProgress(k) /\ table[k].owner = r /\ table[k] \in Entry
      /\ table \in [Keys -> {None} \cup Entry]
  BY DEF BodyInv, BodyTyped, OwnerEntry, KnowsWhat, Owners, Key, Publication, InProgress
<1>2. k \in Occupied
  BY <1>1 DEF Occupied, InProgress
<1>3. CASE accepted
  <2>1. table' = [table EXCEPT ![k].owner = None, ![k].stored = told[r]] /\ order' = order
    BY <1>1, <1>3 DEF Finish
  <2>2. told[r] \in {None} \cup Contents
    BY DEF BodyInv, BodyTyped, Owners
  <2>3. table'[k] \in Entry /\ \A c \in Keys : c # k => table'[c] = table[c]
    BY <1>1, <2>1, <2>2 DEF Entry
  <2>4. Occupied' = Occupied
    BY <1>1, <1>2, <2>3, IdempotencyTyped DEF Occupied
  <2> QED BY <2>1, <2>4, TableKept
<1>4. CASE ~accepted
  <2>1. table' = [table EXCEPT ![k] = None] /\ order' = Superseded(order, k)
    BY <1>1, <1>4 DEF Finish
  <2>2. Occupied' = Occupied \ {k}
    BY <1>1, <2>1 DEF Occupied
  <2>3. Indexed(order', Occupied \ {k}) /\ Len(order') = Len(order)
    BY <1>1, <2>1, SupersededIndexed DEF TableInv
  <2>4. IsFiniteSet(Occupied \ {k}) /\ Cardinality(Occupied \ {k}) = Cardinality(Occupied) - 1
    BY <1>2, FS_RemoveElement DEF TableInv
  <2>5. Cardinality(Occupied) \in Nat
    BY FS_CardinalityType DEF TableInv
  <2>6. Cardinality(Occupied)' <= EntryLimit
    BY <2>2, <2>4, <2>5, IdempotencyTyped DEF TableInv
  <2>7. Indexed(order, Occupied)'
    BY <2>2, <2>3 DEF Indexed
  <2> QED BY <2>2, <2>3, <2>4, <2>6, <2>7 DEF TableInv
<1> QED BY <1>3, <1>4

\* An empty table with an empty order is indexed.
LEMMA TableInitially == PublishInit => TableInv
<1> SUFFICES ASSUME PublishInit PROVE TableInv
  OBVIOUS
<1>1. Occupied = {} /\ order = <<>>
  BY DEF PublishInit, Occupied
<1>2. Indexed(<<>>, {})
  BY DEF Indexed
<1> QED BY <1>1, <1>2, FS_EmptySet, IdempotencyTyped DEF TableInv

\* Every step keeps the table, its size and its order in agreement.
LEMMA TableStep == BodyInv /\ TableInv /\ [PublishNext]_publishVars => TableInv'
<1> SUFFICES ASSUME BodyInv, TableInv, [PublishNext]_publishVars PROVE TableInv'
  OBVIOUS
<1>1. CASE UNCHANGED <<table, order>>
  BY <1>1, TableKept DEF Occupied
<1>2. CASE Admission \/ UNCHANGED publishVars
  BY <1>1, <1>2 DEF Admission, publishVars, bodyVars
<1>3. ASSUME NEW r \in Requests, NEW p \in Publications[r],
             BeginConflict(r, p) \/ BeginExhausted(r, p) \/ BeginDuplicate(r, p)
      PROVE  TableInv'
  BY <1>1, <1>3 DEF BeginConflict, BeginExhausted, BeginDuplicate
<1>4. ASSUME NEW r \in Requests, WaitCancelled(r) \/ Duplicate(r) \/ AcceptIdempotent(r) \/ Return(r)
      PROVE  TableInv'
  BY <1>1, <1>4 DEF WaitCancelled, Duplicate, AcceptIdempotent, Return
<1>5. ASSUME NEW r \in Requests, Overloaded(r) \/ Rejected(r) \/ Accepted(r) PROVE TableInv'
  BY <1>5, FinishTable DEF Overloaded, Rejected, Accepted, Owners
<1>6. ASSUME NEW k \in Keys, Expire(k) PROVE TableInv'
  <2>1. CASE ~Adopted(k)
    BY <1>1, <1>6, <2>1 DEF Expire
  <2>2. CASE Adopted(k)
    <3>1. /\ table[k] # None /\ table[k] \in Entry /\ table' = [table EXCEPT ![k].expired = TRUE]
          /\ order' = order /\ table \in [Keys -> {None} \cup Entry]
      BY <1>6, <2>2 DEF Expire, Adopted, BodyInv, BodyTyped
    <3>2. table'[k] \in Entry /\ \A c \in Keys : c # k => table'[c] = table[c]
      BY <3>1 DEF Entry
    <3>3. Occupied' = Occupied
      BY <3>1, <3>2, IdempotencyTyped DEF Occupied
    <3> QED BY <3>1, <3>3, TableKept
  <2> QED BY <2>1, <2>2
<1> QED
  BY <1>2, <1>3, <1>4, <1>5, <1>6, OwnerTable DEF PublishNext, Body

\* What the handlers keep true, with the type of what they share.
PublishInv == TypeOK /\ BodyInv /\ TableInv

\* Admission's type, the handlers' invariant and the table's hold in every reachable state.
LEMMA PublishSafety == PublishSpec => []PublishInv
<1>1. PublishSpec => []BodyInv
  BY BodyInitially, BodyStep, PTL DEF PublishSpec
<1>2. PublishSpec => []TableInv
  BY <1>1, TableInitially, TableStep, PTL DEF PublishSpec
<1>3. PublishSpec => []TypeOK
  BY PublishImplementsAdmission, AdmissionSafety, PTL
<1> QED BY <1>1, <1>2, <1>3, PTL DEF PublishInv

\* Whatever the handlers do, with whatever keys and contents, every variable keeps its type.
THEOREM PublishTyped == PublishSpec => []PublishTypeOK
<1>1. PublishInv => PublishTypeOK
  BY DEF PublishInv, BodyInv, BodyTyped, Publication, TableInv, Indexed, Place, PublishTypeOK
<1> QED BY <1>1, PublishSafety, PTL

\* beginIdempotency and finishIdempotency: evictions, expiries, failures and compactions keep the
\* table within IdempotencyEntries and its order within twice that, and no entry is ever without a
\* place in the order, from which alone it can be evicted.
THEOREM EntriesAlwaysIndexed == PublishSpec => []EntriesIndexed
<1>1. PublishInv => EntriesIndexed
  BY DEF PublishInv, TableInv, Indexed, Mark, EntriesIndexed
<1> QED BY <1>1, PublishSafety, PTL

\* acceptIdempotent: until its message expires, no key brings a second message into the cache, not
\* even when the entry that knew it was evicted and another handler owns a new one.
THEOREM OneCopyOfAKey == PublishSpec => []OneCopy
<1>1. PublishInv => OneCopy
  BY DEF PublishInv, BodyInv
<1> QED BY <1>1, PublishSafety, PTL

\* publish: a handler that was its key's owner, one that waited for it and one that found a finished
\* entry are all told of the content they asked to publish, and of no other.
THEOREM ToldOfOwnContent == PublishSpec => []SameContent
<1>1. PublishInv => SameContent
  BY DEF PublishInv, BodyInv
<1> QED BY <1>1, PublishSafety, PTL

\* Under the publish handlers the bytes in use are those of the requests that hold admission.
THEOREM PublishConserves == PublishSpec => []AdmissionLedger
BY PublishImplementsAdmission, AdmissionConserved, PTL
=============================================================================
