-------------------------- MODULE IdempotentPublish --------------------------
(***************************************************************************)
(* The publish handler on top of byte admission: beginIdempotency,         *)
(* finishIdempotency, acceptIdempotent and the paths of publish that call  *)
(* them.  A handler holds its admission (PublishAdmission) until it        *)
(* returns, so a handler that waits for another one to finish keeps bytes  *)
(* from the requests queued behind it.                                     *)
(*                                                                         *)
(* b.mu and cache.mu are different locks, so what happens under each is a  *)
(* step of its own.  The acknowledgement mode is left open: a handler may  *)
(* take any outcome that some mode gives it.  Publications without an      *)
(* idempotency key and batches only hold their admission here.             *)
(*                                                                         *)
(* A pointer to an unfinished idempotencyEntry is the handler that owns    *)
(* it.  A finished entry never changes, so what its ready channel tells    *)
(* the handlers that wait for it is told when it is closed.                *)
(***************************************************************************)
EXTENDS PublishAdmission, Sequences, SequencesExt, Selection

CONSTANTS
  Keys,          \* idempotency keys, with their topic and producer
  Contents,      \* payload, ordering key, content type and TTL
  Publications,  \* the <<key, content>> pairs each handler may be asked to publish
  EntryLimit,    \* IdempotencyEntries
  None

\* idempotencyEntry: an entry without an owner is finished.
Entry == [fingerprint : Contents, owner : Requests \cup {None}, expired : BOOLEAN,
          stored : Contents \cup {None}]

ASSUME IdempotencyTyped ==
  /\ Publications \in [Requests -> SUBSET (Keys \X Contents)]
  /\ EntryLimit \in Nat \ {0}
  /\ None \notin Requests \cup Contents \cup (Keys \X Contents) /\ None \notin Entry

VARIABLES
  phase,     \* where each admitted handler is
  wants,     \* the publication each handler was asked for
  owner,     \* the owner of the entry each handler waits for
  told,      \* the content of the message each handler says is accepted
  table,     \* b.idempotency
  order,     \* b.idempotencyOrder: the key, and whether the entry is still the key's
  cache,     \* the content of the live message of each key
  copies     \* insertions of each key since its last message expired

bodyVars == <<phase, wants, owner, told, table, order, cache, copies>>
publishVars == <<vars, bodyVars>>

\* "wait": in the select of beginIdempotency.  "again": woken there by an owner that failed.
\* "duplicate", "owner": beginIdempotency returned.  "accepted", "rejected": acceptIdempotent
\* returned.  "end": the handler returns.
Phases == {"start", "wait", "again", "duplicate", "owner", "accepted", "rejected", "end"}

PublishInit ==
  /\ Init
  /\ phase = [r \in Requests |-> "start"] /\ wants = [r \in Requests |-> None]
  /\ owner = [r \in Requests |-> None] /\ told = [r \in Requests |-> None]
  /\ table = [k \in Keys |-> None] /\ order = <<>>
  /\ cache = [k \in Keys |-> None] /\ copies = [k \in Keys |-> 0]

Key(r) == wants[r][1]
Content(r) == wants[r][2]

Goes(r, p) == phase' = [phase EXCEPT ![r] = p]

\* The handler ends; what it had read is gone with its stack.
Ends(r) ==
  /\ Goes(r, "end") /\ told' = [told EXCEPT ![r] = None]
  /\ wants' = [wants EXCEPT ![r] = None] /\ owner' = [owner EXCEPT ![r] = None]

-----------------------------------------------------------------------------
(* beginIdempotency: one turn of the loop under b.mu, the first for a       *)
(* publication the handler has just read, or another one for the same.      *)

Turn(r, p) ==
  \/ state[r] = "admitted" /\ phase[r] = "start" /\ p \in Publications[r]
  \/ phase[r] = "again" /\ p = wants[r]

InProgress(k) == table[k] # None /\ table[k].owner # None
Usable(k) == table[k] # None /\ (table[k].owner # None \/ ~table[k].expired)

BeginConflict(r, p) ==
  /\ Turn(r, p) /\ Usable(p[1])
  /\ table[p[1]].fingerprint # p[2]
  /\ Ends(r)
  /\ UNCHANGED <<vars, table, order, cache, copies>>

BeginDuplicate(r, p) ==
  /\ Turn(r, p) /\ Usable(p[1])
  /\ LET e == table[p[1]] IN
       /\ e.fingerprint = p[2]
       /\ Goes(r, IF e.owner = None THEN "duplicate" ELSE "wait")
       /\ owner' = [owner EXCEPT ![r] = e.owner]
       /\ told' = [told EXCEPT ![r] = IF e.owner = None THEN e.stored ELSE None]
  /\ wants' = [wants EXCEPT ![r] = p]
  /\ UNCHANGED <<vars, table, order, cache, copies>>

Occupied == {k \in Keys : table[k] # None}
Full == Cardinality(Occupied) >= EntryLimit

\* Mutant: an entry may be evicted while its owner is still publishing.
EvictableAny(i) == order[i].current
\* Places in the order whose entry may go.
Evictable(i) == order[i].current /\ ~InProgress(order[i].key)

BeginExhausted(r, p) ==
  /\ Turn(r, p) /\ ~Usable(p[1])
  /\ Full /\ \A i \in 1..Len(order) : ~Evictable(i)
  /\ Ends(r)
  /\ UNCHANGED <<vars, table, order, cache, copies>>

\* The order when the table loses the entry of k.
Superseded(o, k) ==
  [i \in 1..Len(o) |-> [key |-> o[i].key, current |-> o[i].current /\ o[i].key # k]]

\* The places whose entry is still the key's.
Current == [key : Keys, current : {TRUE}]

\* Mutant: compaction happens one entry too late.
CompactedLate(o) == IF Len(o) <= 2 * EntryLimit + 1 THEN o ELSE Kept(o, Current)
\* The order without what the table has lost, once it is twice as long as the table may be.
Compacted(o) == IF Len(o) <= 2 * EntryLimit THEN o ELSE Kept(o, Current)

\* Mutant: the entry is made without the fingerprint.
NewEntryBlank(r, p) == [fingerprint |-> None, owner |-> r, expired |-> FALSE, stored |-> None]
NewEntry(r, p) == [fingerprint |-> p[2], owner |-> r, expired |-> FALSE, stored |-> None]

\* A new entry for the publication joins what is left of the table and of its order.
Owned(r, p, kept, rest) ==
  /\ table' = [kept EXCEPT ![p[1]] = NewEntry(r, p)]
  /\ order' = Compacted(Append(Superseded(rest, p[1]), [key |-> p[1], current |-> TRUE]))

\* The request becomes the owner of a new entry; a full table gives up its oldest finished one.
BeginOwner(r, p) ==
  /\ Turn(r, p) /\ ~Usable(p[1])
  /\ \/ ~Full /\ Owned(r, p, table, order)
     \/ /\ Full
        /\ \E i \in 1..Len(order) :
             /\ Evictable(i) /\ \A j \in 1..(i - 1) : ~Evictable(j)
             /\ Owned(r, p, [table EXCEPT ![order[i].key] = None], RemoveAt(order, i))
  /\ Goes(r, "owner") /\ wants' = [wants EXCEPT ![r] = p]
  /\ UNCHANGED <<vars, owner, told, cache, copies>>

\* The client goes away; when the owner has finished too, the select takes either.
WaitCancelled(r) ==
  /\ phase[r] \in {"wait", "again"}
  /\ Ends(r)
  /\ UNCHANGED <<vars, table, order, cache, copies>>

-----------------------------------------------------------------------------
(* The rest of publish.                                                     *)

Waiters(r) == {q \in Requests : phase[q] = "wait" /\ owner[q] = r}

\* finishIdempotency: the entry is finished, or gone when nothing was accepted, and those that
\* wait for it are told.  Then the handler ends.
Finish(r, accepted) ==
  LET k == Key(r)  mine == InProgress(k) /\ table[k].owner = r IN
  /\ table' = IF ~mine THEN table
              ELSE IF accepted THEN [table EXCEPT ![k].owner = None, ![k].stored = told[r]]
              ELSE [table EXCEPT ![k] = None]
  /\ order' = IF mine /\ ~accepted THEN Superseded(order, k) ELSE order
  /\ phase' = [q \in Requests |-> IF q = r THEN "end"
                                  ELSE IF q \notin Waiters(r) THEN phase[q]
                                  ELSE IF accepted THEN "duplicate" ELSE "again"]
  /\ told' = [q \in Requests |-> IF q = r THEN None
                                 ELSE IF q \in Waiters(r) /\ accepted THEN told[r] ELSE told[q]]
  /\ owner' = [q \in Requests |-> IF q \in Waiters(r) THEN None ELSE owner[q]]
  /\ wants' = [wants EXCEPT ![r] = None]

\* No peer queue took the publication: nothing was accepted.
Overloaded(r) ==
  /\ phase[r] = "owner"
  /\ Finish(r, FALSE)
  /\ UNCHANGED <<vars, cache, copies>>

\* Mutant: the retained message is not looked for.
AcceptIdempotentBlind(r) ==
  /\ phase[r] = "owner"
  /\ Goes(r, "accepted") /\ told' = [told EXCEPT ![r] = Content(r)]
  /\ cache' = [cache EXCEPT ![Key(r)] = Content(r)]
  /\ copies' = [copies EXCEPT ![Key(r)] = @ + 1]
  /\ UNCHANGED <<vars, wants, owner, table, order>>

\* Mutant: a retained message is taken for the same publication without a comparison.
AcceptIdempotentAlike(r) ==
  /\ phase[r] = "owner" /\ Goes(r, "accepted")
  /\ LET k == Key(r) IN
       \/ /\ cache[k] # None
          /\ told' = [told EXCEPT ![r] = cache[k]]
          /\ UNCHANGED <<cache, copies>>
       \/ /\ cache[k] = None
          /\ told' = [told EXCEPT ![r] = Content(r)]
          /\ cache' = [cache EXCEPT ![k] = Content(r)]
          /\ copies' = [copies EXCEPT ![k] = @ + 1]
  /\ UNCHANGED <<vars, wants, owner, table, order>>

\* acceptIdempotent, under cache.mu: the retained message of the key is the publication, or
\* another one, or there is none and the cache takes this one or has no room.
AcceptIdempotent(r) ==
  /\ phase[r] = "owner"
  /\ LET k == Key(r) IN
       \/ /\ cache[k] = Content(r)
          /\ Goes(r, "accepted") /\ told' = [told EXCEPT ![r] = cache[k]]
          /\ UNCHANGED <<cache, copies>>
       \/ /\ cache[k] = None
          /\ Goes(r, "accepted") /\ told' = [told EXCEPT ![r] = Content(r)]
          /\ cache' = [cache EXCEPT ![k] = Content(r)]
          /\ copies' = [copies EXCEPT ![k] = @ + 1]
       \/ /\ cache[k] # Content(r)
          /\ Goes(r, "rejected") /\ UNCHANGED <<told, cache, copies>>
  /\ UNCHANGED <<vars, wants, owner, table, order>>

Rejected(r) ==
  /\ phase[r] = "rejected"
  /\ Finish(r, FALSE)
  /\ UNCHANGED <<vars, cache, copies>>

\* The message is queued for the peers, or one-peer has its answer: 202 or 503.
Accepted(r) ==
  /\ phase[r] = "accepted"
  /\ Finish(r, TRUE)
  /\ UNCHANGED <<vars, cache, copies>>

\* The duplicate is answered: 202, or 503 and 409 when a copy was asked for and not made.
Duplicate(r) ==
  /\ phase[r] = "duplicate"
  /\ Ends(r)
  /\ UNCHANGED <<vars, table, order, cache, copies>>

\* The deferred releasePublishAdmission.  An invalid or pressured request, a batch and a publication
\* without an idempotency key come here without having touched this state.
Return(r) ==
  /\ phase[r] \in {"start", "end"}
  /\ Release(r) /\ Goes(r, "start")
  /\ UNCHANGED <<wants, owner, told, table, order, cache, copies>>

-----------------------------------------------------------------------------

\* The entry of k knows the retained message: its expiresAt is the message's.
Adopted(k) ==
  /\ table[k] # None
  /\ table[k].owner = None \/ phase[table[k].owner] = "accepted"

\* expireLocked: the message of the key reaches its ExpiresAt.
Expire(k) ==
  /\ cache[k] # None
  /\ cache' = [cache EXCEPT ![k] = None] /\ copies' = [copies EXCEPT ![k] = 0]
  /\ table' = IF Adopted(k) THEN [table EXCEPT ![k].expired = TRUE] ELSE table
  /\ UNCHANGED <<vars, phase, wants, owner, told, order>>

Admission ==
  /\ \/ \E r \in Requests : \/ AdmitAtOnce(r) \/ Enqueue(r) \/ Wake(r) \/ GiveUp(r)
                             \/ LeaveGranted(r) \/ LeaveQueue(r) \/ Grant(r)
     \/ GrantDone
  /\ UNCHANGED bodyVars

\* What a handler does on its own, without an event from outside.
Body(r) ==
  \/ \E p \in Publications[r] :
       BeginConflict(r, p) \/ BeginDuplicate(r, p) \/ BeginExhausted(r, p) \/ BeginOwner(r, p)
  \/ AcceptIdempotent(r) \/ Rejected(r) \/ Accepted(r) \/ Duplicate(r)

PublishNext ==
  \/ Admission
  \/ \E r \in Requests : Body(r) \/ WaitCancelled(r) \/ Overloaded(r) \/ Return(r)
  \/ \E k \in Keys : Expire(k)

PublishSpec == PublishInit /\ [][PublishNext]_publishVars

\* What a handler does once it has admissionMu.
Locked(r) == Return(r) \/ ((LeaveGranted(r) \/ LeaveQueue(r)) /\ UNCHANGED bodyVars)

\* The runtime runs the goroutines that can run, and a Go mutex is handed to every goroutine that
\* keeps asking for it.  A handler that waits does not return by assumption: what it waits for
\* must be done by the other handlers.  No client goes away and no message expires by assumption.
PublishFairness ==
  /\ WF_publishVars((GrantDone \/ \E r \in Requests : Grant(r)) /\ UNCHANGED bodyVars)
  /\ \A r \in Requests :
       /\ WF_publishVars(Body(r) \/ (Wake(r) /\ UNCHANGED bodyVars))
       /\ SF_publishVars(Locked(r))

PublishLive == PublishSpec /\ PublishFairness

-----------------------------------------------------------------------------
(* Properties, besides those of PublishAdmission.                           *)

\* Every variable keeps its type.
PublishTypeOK ==
  /\ TypeOK
  /\ phase \in [Requests -> Phases] /\ wants \in [Requests -> {None} \cup (Keys \X Contents)]
  /\ owner \in [Requests -> {None} \cup Requests] /\ told \in [Requests -> {None} \cup Contents]
  /\ table \in [Keys -> {None} \cup Entry] /\ order \in Seq([key : Keys, current : BOOLEAN])
  /\ cache \in [Keys -> {None} \cup Contents] /\ copies \in [Keys -> Nat]

Owners == {r \in Requests : phase[r] \in {"owner", "accepted", "rejected"}}

\* beginIdempotency: an owner's entry stays in the table until it finishes, whatever is evicted
\* or expires meanwhile, so one key never has two owners; and whoever waits, waits for an owner
\* of its own key.
SingleOwner ==
  /\ \A r \in Owners : InProgress(Key(r)) /\ table[Key(r)].owner = r
  /\ \A r \in Requests : phase[r] = "wait" => owner[r] \in Owners /\ Key(owner[r]) = Key(r)

\* acceptIdempotent: until a message expires, its key brings no second message into the cache,
\* even when the entry that knew it was evicted.
OneCopy == \A k \in Keys : copies[k] <= 1

\* publish: a producer is told that its publication is accepted only when the message retained
\* for the key has that content: no other event hides behind the key.
SameContent ==
  \A r \in Requests : phase[r] \in {"accepted", "duplicate"} => told[r] = Content(r)

\* The table and the order stay within their bounds, and the order has every entry of the table:
\* an entry that is missing there would never be evicted.
EntriesIndexed ==
  /\ Cardinality(Occupied) <= EntryLimit /\ Len(order) <= 2 * EntryLimit
  /\ \A k \in Keys : k \in Occupied <=> \E i \in 1..Len(order) : order[i] = [key |-> k, current |-> TRUE]
=============================================================================
