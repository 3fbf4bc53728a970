-------------------------- MODULE CompletionsProofs --------------------------
(* Theorems about acknowledgements and completion checkpoints, for any      *)
(* number of brokers and deliveries and every size of the queues.           *)
EXTENDS Completions, FoldTheorems, SequenceTheorems, TLAPS

-----------------------------------------------------------------------------
(* Types.                                                                   *)

Body == [ids : SUBSET Deliveries, cps : SUBSET Deliveries, bytes : Nat]
Request == [phase : Phases, kind : Kinds, at : Brokers, ids : SUBSET Deliveries, cps : SUBSET Deliveries,
            attempt : Nat, awaited : BOOLEAN]
Handler == [line : Lines, ids : SUBSET Deliveries, derived : SUBSET Deliveries, cps : SUBSET Deliveries,
            awaited : BOOLEAN]
WorkerStates == {"handling", "submitted", "posted", "confirmed", "failed"}

ClientTyped ==
  /\ worker \in [Deliveries -> WorkerStates] /\ verdict \in [Deliveries -> Kinds \cup {None}]
  /\ repeats \in Nat /\ calls \subseteq Request
OwnerTyped == pending \subseteq Deliveries /\ done \in [Brokers -> SUBSET Deliveries]
LinkTyped ==
  /\ channel \in [Lines -> Seq(Body)] /\ carry \in [Lines -> Body] /\ sending \in [Lines -> Body]
  /\ heard \subseteq Lines /\ bytes \in [Links -> Int] /\ missed \in [Brokers -> SUBSET Deliveries]

\* An action of known deliveries and checkpoints is a request body.
LEMMA ActTyped ==
  ASSUME NEW ids \in SUBSET Deliveries, NEW cps \in SUBSET Deliveries
  PROVE  Act(ids, cps) \in Body /\ Act(ids, cps).ids = ids /\ Act(ids, cps).cps = cps
<1>1. Cardinality(ids) \in Nat /\ Cardinality(cps) \in Nat
  BY CompletionsTyped, FS_Subset, FS_CardinalityType
<1>2. Size(ids, cps) \in Nat
  BY <1>1 DEF Size
<1> QED BY <1>2 DEF Act, Body

\* The action that carries nothing reserves nothing.
LEMMA NothingTyped == Nothing \in Body /\ Nothing.ids = {} /\ Nothing.cps = {} /\ Nothing.bytes = 0
<1>1. Cardinality({}) = 0
  BY FS_EmptySet
<1>2. Nothing.bytes = 0
  BY <1>1 DEF Nothing, Act, Size
<1> QED BY <1>2, ActTyped DEF Nothing

-----------------------------------------------------------------------------
(* What waits on a line.                                                    *)

\* A line of one link and one kind.
LEMMA LineFacts ==
  /\ \A n \in Lines : n[1] \in Links /\ n[2] \in Kinds /\ n = <<n[1], n[2]>>
  /\ \A l \in Links, k \in Kinds : <<l, k>> \in Lines /\ <<l, k>>[1] = l /\ <<l, k>>[2] = k
  /\ \A l \in Links : l[1] \in Brokers /\ l[2] \in Brokers /\ l[1] # l[2] /\ l = <<l[1], l[2]>>
  /\ \A b, p \in Brokers : b # p => <<b, p>> \in Links /\ <<b, p>>[1] = b /\ <<b, p>>[2] = p
BY DEF Lines, Links

IdsOn(n) == UNION {a.ids : a \in Acts(n)}
CpsOn(n) == UNION {a.cps : a \in Acts(n)}

\* Where a delivery is among the actions of a list and two others.
LEMMA AmongActions ==
  ASSUME NEW s \in Seq(Body), NEW a, NEW b, NEW d
  PROVE  /\ d \in UNION {x.ids : x \in ToSet(s) \cup {a, b}}
              <=> (\E i \in 1..Len(s) : d \in s[i].ids) \/ d \in a.ids \/ d \in b.ids
         /\ d \in UNION {x.cps : x \in ToSet(s) \cup {a, b}}
              <=> (\E i \in 1..Len(s) : d \in s[i].cps) \/ d \in a.cps \/ d \in b.cps
<1> DEFINE A == ToSet(s) \cup {a, b}
<1>1. DOMAIN s = 1..Len(s)
  OBVIOUS
<1>2. \A x : x \in A <=> (\E i \in 1..Len(s) : x = s[i]) \/ x = a \/ x = b
  BY <1>1 DEF ToSet
<1> HIDE DEF A
<1>3. d \in UNION {x.ids : x \in A} <=> \E x : x \in A /\ d \in x.ids
  OBVIOUS
<1>4. d \in UNION {x.cps : x \in A} <=> \E x : x \in A /\ d \in x.cps
  OBVIOUS
<1>5. /\ d \in UNION {x.ids : x \in A} <=> (\E i \in 1..Len(s) : d \in s[i].ids) \/ d \in a.ids \/ d \in b.ids
      /\ d \in UNION {x.cps : x \in A} <=> (\E i \in 1..Len(s) : d \in s[i].cps) \/ d \in a.cps \/ d \in b.cps
  BY <1>2, <1>3, <1>4
<1> QED BY <1>5 DEF A

\* A delivery is on a line when it is in its channel, was carried over or is being sent.
LEMMA OnLine ==
  ASSUME LinkTyped, NEW n \in Lines, NEW d
  PROVE  /\ d \in IdsOn(n) <=> \/ \E i \in 1..Len(channel[n]) : d \in channel[n][i].ids
                               \/ d \in carry[n].ids \/ d \in sending[n].ids
         /\ d \in CpsOn(n) <=> \/ \E i \in 1..Len(channel[n]) : d \in channel[n][i].cps
                               \/ d \in carry[n].cps \/ d \in sending[n].cps
<1>1. channel[n] \in Seq(Body)
  BY DEF LinkTyped
<1> QED BY <1>1, AmongActions DEF IdsOn, CpsOn, Acts

\* What is on a line is a delivery.
LEMMA OnLineTyped ==
  ASSUME LinkTyped, NEW n \in Lines
  PROVE  IdsOn(n) \subseteq Deliveries /\ CpsOn(n) \subseteq Deliveries
<1>1. /\ \A i \in 1..Len(channel[n]) : channel[n][i] \in Body
      /\ carry[n] \in Body /\ sending[n] \in Body
  BY DEF LinkTyped
<1>2. \A a \in Body : a.ids \subseteq Deliveries /\ a.cps \subseteq Deliveries
  BY DEF Body
<1> QED BY <1>1, <1>2, OnLine

-----------------------------------------------------------------------------
(* Sums over a list of actions.                                             *)

\* An action of a list has its bytes.
LEMMA BytesOne ==
  ASSUME NEW s \in Seq(Body), NEW i \in 1..Len(s)
  PROVE  s[i] \in Body /\ s[i].bytes \in Nat /\ s[i].bytes \in Int
<1>1. s[i] \in Body
  OBVIOUS
<1> QED BY <1>1 DEF Body

\* The bytes of some first actions are a natural number.
LEMMA BytesNat ==
  ASSUME NEW s \in Seq(Body), NEW m \in 0..Len(s)
  PROVE  Bytes(s, m) \in Nat
<1> DEFINE f == [i \in 1..m |-> s[i].bytes]
<1>1. \A i \in 1..m : f[i] \in Nat
  BY BytesOne
<1>2. IsFiniteSet(1..m)
  BY FS_Interval
<1> HIDE DEF f
<1>3. SumFunctionOnSet(f, 1..m) \in Nat
  BY <1>1, <1>2, SumNat
<1> QED BY <1>3 DEF Bytes, f

\* So are the bytes of all of them, and of one.
LEMMA BytesAll ==
  /\ \A s \in Seq(Body) : Bytes(s, Len(s)) \in Nat
  /\ \A a \in Body : a.bytes \in Nat
<1>1. \A s \in Seq(Body) : Len(s) \in 0..Len(s)
  OBVIOUS
<1>2. \A a \in Body : a.bytes \in Nat
  BY DEF Body
<1> QED BY <1>1, <1>2, BytesNat

\* No action has no bytes, and one has its own.
LEMMA BytesOfFew ==
  ASSUME NEW s \in Seq(Body)
  PROVE  Bytes(s, 0) = 0 /\ (Len(s) >= 1 => Bytes(s, 1) = s[1].bytes)
<1>1. Bytes(s, 0) = 0
  <2>1. 1..0 = {}
    OBVIOUS
  <2> QED BY <2>1, SumEmpty DEF Bytes
<1>2. ASSUME Len(s) >= 1 PROVE Bytes(s, 1) = s[1].bytes
  <2> DEFINE f == [i \in 1..1 |-> s[i].bytes]
  <2>1. 1..1 = {} \cup {1} /\ f[1] = s[1].bytes /\ f[1] \in Int
    BY <1>2, BytesOne
  <2> HIDE DEF f
  <2>2. \A y \in {} \cup {1} : f[y] \in Int
    BY <2>1
  <2>3. SumFunctionOnSet(f, {} \cup {1}) = SumFunctionOnSet(f, {}) + f[1]
    BY <2>2, SumAdd, FS_EmptySet
  <2>4. SumFunctionOnSet(f, {}) = 0
    BY SumEmpty
  <2>5. SumFunctionOnSet(f, 1..1) = f[1]
    BY <2>1, <2>3, <2>4
  <2> QED BY <2>1, <2>5 DEF Bytes, f
<1> QED BY <1>1, <1>2

\* The bytes of a list are those of its first m actions and those of the rest.
LEMMA BytesSplit ==
  ASSUME NEW s \in Seq(Body), NEW t \in Seq(Body), NEW m \in 0..Len(s),
         Len(t) = Len(s) - m, \A i \in 1..Len(t) : t[i] = s[i + m]
  PROVE  Bytes(s, Len(s)) = Bytes(s, m) + Bytes(t, Len(t))
<1> DEFINE f == [i \in 1..Len(s) |-> s[i].bytes]
           g == [i \in 1..Len(t) |-> t[i].bytes]
           h == [i \in 1..m |-> s[i].bytes]
           N == Len(t)
<1>1. /\ \A i \in 1..Len(s) : f[i] \in Int
      /\ \A i \in 1..m : h[i] \in Int /\ h[i] = f[i]
      /\ \A i \in 1..N : f[i + m] \in Int /\ g[i] = f[i + m]
  BY BytesOne
<1>2. /\ m \in Nat /\ N \in Nat /\ 1..Len(s) = (1..m) \cup ((m + 1)..(m + N))
      /\ (1..m) \cap ((m + 1)..(m + N)) = {}
  OBVIOUS
<1>3. IsFiniteSet(1..m) /\ IsFiniteSet((m + 1)..(m + N))
  BY <1>2, FS_Interval
<1> HIDE DEF f, g, h, N
<1>4. \A x \in (1..m) \cup ((m + 1)..(m + N)) : f[x] \in Int
  BY <1>1, <1>2
<1>5. SumFunctionOnSet(f, (1..m) \cup ((m + 1)..(m + N)))
        = SumFunctionOnSet(f, 1..m) + SumFunctionOnSet(f, (m + 1)..(m + N))
  BY ONLY <1>2, <1>3, <1>4, SumUnion
<1>6. SumFunctionOnSet(g, 1..N) = SumFunctionOnSet(f, (m + 1)..(m + N))
  <2>1. Window(g, f, m, N)
    BY <1>1 DEF Window
  <2>2. m \in Nat /\ N \in Nat
    BY <1>2
  <2> QED BY ONLY <2>1, <2>2, SumShift
<1>7. SumFunctionOnSet(h, 1..m) = SumFunctionOnSet(f, 1..m)
  BY ONLY <1>1, <1>3, SumSame
<1>8. SumFunctionOnSet(f, 1..Len(s)) = SumFunctionOnSet(h, 1..m) + SumFunctionOnSet(g, 1..N)
  BY ONLY <1>2, <1>5, <1>6, <1>7
<1> QED BY <1>8 DEF Bytes, f, g, h, N

\* An action at the end adds its bytes.
LEMMA BytesAppend ==
  ASSUME NEW s \in Seq(Body), NEW a \in Body
  PROVE  Bytes(Append(s, a), Len(Append(s, a))) = Bytes(s, Len(s)) + a.bytes
<1> DEFINE t == Append(s, a)
           f == [i \in 1..Len(t) |-> t[i].bytes]
           g == [i \in 1..Len(s) |-> s[i].bytes]
<1>1. t \in Seq(Body) /\ Len(t) = Len(s) + 1 /\ Len(s) \in Nat /\ t[Len(s) + 1] = a
      /\ \A i \in 1..Len(s) : t[i] = s[i]
  OBVIOUS
<1> HIDE DEF t
<1>2. /\ \A i \in 1..Len(t) : f[i] \in Int
      /\ \A i \in 1..Len(s) : g[i] \in Int /\ g[i] = f[i]
      /\ f[Len(s) + 1] = a.bytes
  BY <1>1, BytesOne
<1> HIDE DEF f, g
<1> DEFINE I == 1..Len(s)
           x == Len(s) + 1
<1>3. 1..Len(t) = I \cup {x} /\ x \notin I /\ f[x] = a.bytes
  BY <1>1, <1>2
<1>4. IsFiniteSet(I)
  BY <1>1, FS_Interval
<1>5. \A i \in I : g[i] \in Int /\ g[i] = f[i]
  BY <1>2
<1>6. \A y \in I \cup {x} : f[y] \in Int
  BY <1>2, <1>3
<1> HIDE DEF I, x
<1>7. SumFunctionOnSet(f, I \cup {x}) = SumFunctionOnSet(f, I) + f[x]
  BY ONLY <1>3, <1>4, <1>6, SumAdd
<1>8. SumFunctionOnSet(g, I) = SumFunctionOnSet(f, I)
  BY ONLY <1>4, <1>5, SumSame
<1>9. SumFunctionOnSet(f, 1..Len(t)) = SumFunctionOnSet(g, I) + a.bytes
  BY ONLY <1>3, <1>7, <1>8
<1> QED BY <1>9 DEF Bytes, f, g, t, I

-----------------------------------------------------------------------------
(* What each step does to the lines.                                        *)

\* What waits on a line is what was carried over, if anything, and the channel behind it.
LEMMA WaitsFacts ==
  ASSUME LinkTyped, NEW n \in Lines
  PROVE  /\ Waits(n) \in Seq(Body)
         /\ \E h \in {0, 1} :
              /\ Len(Waits(n)) = Len(channel[n]) + h
              /\ \A i \in 1..Len(channel[n]) : Waits(n)[i + h] = channel[n][i]
              /\ h = 1 => Waits(n)[1] = carry[n]
              /\ h = 0 => carry[n] = Nothing
<1>1. channel[n] \in Seq(Body) /\ Len(channel[n]) \in Nat /\ carry[n] \in Body
  BY DEF LinkTyped
<1>2. CASE carry[n] = Nothing
  <2>1. Waits(n) = <<>> \o channel[n]
    BY <1>2 DEF Waits
  <2>2. Waits(n) = channel[n]
    BY <1>1, <2>1, ConcatEmptySeq
  <2> QED BY <1>1, <1>2, <2>2
<1>3. CASE carry[n] # Nothing
  <2> DEFINE c == <<carry[n]>>
  <2>1. Waits(n) = c \o channel[n]
    BY <1>3 DEF Waits
  <2>2. c \in Seq(Body) /\ Len(c) = 1 /\ c[1] = carry[n]
    BY <1>1
  <2> HIDE DEF c
  <2>3. /\ c \o channel[n] \in Seq(Body) /\ Len(c \o channel[n]) = Len(c) + Len(channel[n])
        /\ \A i \in 1..(Len(c) + Len(channel[n])) :
             (c \o channel[n])[i] = IF i <= Len(c) THEN c[i] ELSE channel[n][i - Len(c)]
    BY ONLY <1>1, <2>2, ConcatProperties, Zenon
  <2>4. Waits(n) \in Seq(Body) /\ Len(Waits(n)) = Len(channel[n]) + 1 /\ Waits(n)[1] = carry[n]
    BY <1>1, <2>1, <2>2, <2>3
  <2>5. ASSUME NEW i \in 1..Len(channel[n]) PROVE Waits(n)[i + 1] = channel[n][i]
    <3>1. i + 1 \in 1..(1 + Len(channel[n])) /\ ~(i + 1 <= 1) /\ (i + 1) - 1 = i
      BY <1>1
    <3> QED BY <2>1, <2>2, <2>3, <3>1
  <2> QED BY <2>4, <2>5
<1> QED BY <1>2, <1>3

\* The bytes of what waits.
LEMMA WaitsBytes ==
  ASSUME LinkTyped, NEW n \in Lines
  PROVE  Bytes(Waits(n), Len(Waits(n))) = Bytes(channel[n], Len(channel[n])) + carry[n].bytes
<1> DEFINE s == Waits(n)
           t == channel[n]
<1>1. s \in Seq(Body) /\ t \in Seq(Body) /\ carry[n] \in Body
  BY WaitsFacts DEF LinkTyped
<1>2. PICK h \in {0, 1} :
        /\ Len(s) = Len(t) + h /\ \A i \in 1..Len(t) : s[i + h] = t[i]
        /\ (h = 1 => s[1] = carry[n]) /\ (h = 0 => carry[n] = Nothing)
  BY WaitsFacts
<1> HIDE DEF s, t
<1>3. Len(s) \in Nat /\ Len(t) \in Nat
  BY <1>1
<1>4. h \in 0..Len(s) /\ Len(t) = Len(s) - h /\ \A i \in 1..Len(t) : t[i] = s[i + h]
  BY <1>2, <1>3
<1>5. Bytes(s, Len(s)) = Bytes(s, h) + Bytes(t, Len(t))
  BY <1>1, <1>4, BytesSplit
<1>6. Bytes(s, h) = carry[n].bytes
  <2>1. CASE h = 0
    BY <1>1, <1>2, <2>1, BytesOfFew, NothingTyped
  <2>2. CASE h = 1
    <3>1. Len(s) >= 1
      BY <1>2, <1>3, <2>2
    <3> QED BY <1>1, <1>2, <2>2, <3>1, BytesOfFew
  <2> QED BY <2>1, <2>2
<1>7. Bytes(t, Len(t)) \in Nat /\ carry[n].bytes \in Nat
  BY <1>1, BytesAll
<1>8. Bytes(s, Len(s)) = Bytes(t, Len(t)) + carry[n].bytes
  BY ONLY <1>5, <1>6, <1>7
<1> QED BY <1>8 DEF s, t

\* actionLoop takes at least one of the actions that wait, and no more than there are.
LEMMA PrefixInside ==
  ASSUME NEW s \in Seq(Body), s # <<>>
  PROVE  Prefix(s) \in 1..Len(s)
<1> DEFINE M == {m \in 1..Len(s) : \A i \in 1..(m - 1) : Joins(s, i)}
<1>1. Len(s) \in Nat /\ Len(s) >= 1
  OBVIOUS
<1>2. 1 \in M /\ M \subseteq 0..Len(s) /\ M \subseteq 1..Len(s)
  BY <1>1
<1>3. Prefix(s) = CHOOSE x \in M : \A y \in M : x >= y
  BY DEF Prefix, Max
<1> HIDE DEF M
<1>4. \E x \in M : \A y \in M : y <= x
  BY <1>1, <1>2, HasMaximum
<1>5. \E x \in M : \A y \in M : x >= y
  <2>1. PICK x \in M : \A y \in M : y <= x
    BY <1>4
  <2>2. \A y \in M : y \in Int
    BY <1>2
  <2> QED BY <2>1, <2>2
<1>6. Prefix(s) \in M
  BY <1>3, <1>5, Zenon
<1> QED BY <1>2, <1>6

\* What actionLoop takes from a line, it is sending; what it received and did not take, it carries.
LEMMA TakeMoves ==
  ASSUME LinkTyped, NEW n \in Lines, Take(n)
  PROVE  /\ LinkTyped' /\ \A o \in Lines : IdsOn(o)' = IdsOn(o) /\ CpsOn(o)' = CpsOn(o)
         /\ \A o \in Lines : Held(o)' = Held(o)
         /\ \A o \in Lines : o # n => sending'[o] = sending[o]
         /\ sending[n] = Nothing
<1> DEFINE s == Waits(n)
           m == Prefix(s)
           next == Carry(s, m)
           from == IF next = Nothing THEN m + 1 ELSE m + 2
           rest == SubSeq(s, from, Len(s))
           batch == [ids |-> UNION {s[i].ids : i \in 1..m}, cps |-> UNION {s[i].cps : i \in 1..m},
                     bytes |-> Bytes(s, m)]
<1>1. /\ sending[n] = Nothing /\ s # <<>> /\ sending' = [sending EXCEPT ![n] = batch]
      /\ carry' = [carry EXCEPT ![n] = next] /\ channel' = [channel EXCEPT ![n] = rest]
      /\ UNCHANGED <<heard, bytes, missed>>
  BY DEF Take
<1>2. s \in Seq(Body) /\ Len(s) \in Nat /\ \A i \in 1..Len(s) : s[i] \in Body
  BY WaitsFacts
<1>3. m \in 1..Len(s)
  BY <1>1, <1>2, PrefixInside
<1>4. /\ next = Nothing \/ (m < Len(s) /\ next = s[m + 1])
      /\ next \in Body
  BY <1>2, <1>3, NothingTyped DEF Carry
<1> HIDE DEF s, m, next
<1>5. from \in {m + 1, m + 2} /\ from \in Nat /\ from <= Len(s) + 1
  BY <1>2, <1>3, <1>4
<1>6. (next = Nothing => from = m + 1) /\ (next # Nothing => from = m + 2)
  OBVIOUS
<1> HIDE DEF from
<1>7. /\ rest \in Seq(Body) /\ Len(rest) = Len(s) - from + 1
      /\ \A i \in 1..(Len(s) - from + 1) : rest[i] = s[i + from - 1]
  <2>1. from \in 1..(Len(s) + 1)
    BY <1>2, <1>3, <1>5
  <2> QED BY <1>2, <2>1
<1> HIDE DEF rest
<1>8. batch \in Body
  <2>1. Bytes(s, m) \in Nat
    BY <1>2, <1>3, BytesNat
  <2>2. \A i \in 1..m : s[i].ids \subseteq Deliveries /\ s[i].cps \subseteq Deliveries
    BY <1>2, <1>3 DEF Body
  <2>3. UNION {s[i].ids : i \in 1..m} \subseteq Deliveries /\ UNION {s[i].cps : i \in 1..m} \subseteq Deliveries
    BY <2>2
  <2> QED BY <2>1, <2>3 DEF Body
<1>9. /\ \A d : d \in batch.ids <=> \E i \in 1..m : d \in s[i].ids
      /\ \A d : d \in batch.cps <=> \E i \in 1..m : d \in s[i].cps
      /\ batch.bytes = Bytes(s, m)
  OBVIOUS
<1> HIDE DEF batch
<1>10. /\ LinkTyped'
       /\ sending'[n] = batch /\ carry'[n] = next /\ channel'[n] = rest
       /\ \A o \in Lines : o # n => /\ sending'[o] = sending[o] /\ carry'[o] = carry[o]
                                    /\ channel'[o] = channel[o]
  BY <1>1, <1>4, <1>7, <1>8 DEF LinkTyped
<1>11. \A o \in Lines : o # n => IdsOn(o)' = IdsOn(o) /\ CpsOn(o)' = CpsOn(o) /\ Held(o)' = Held(o)
  BY <1>10 DEF IdsOn, CpsOn, Acts, Held
<1>12. \A i \in 1..Len(s) : i \in 1..m \/ (i = m + 1 /\ next # Nothing /\ next = s[i])
                            \/ (i + 1 - from \in 1..Len(rest) /\ rest[i + 1 - from] = s[i])
  <2> TAKE i \in 1..Len(s)
  <2>1. CASE i \in 1..m
    BY <2>1
  <2>2. CASE i = m + 1 /\ next # Nothing
    BY <1>4, <2>2
  <2>3. CASE i >= from
    <3>1. i + 1 - from \in 1..(Len(s) - from + 1) /\ (i + 1 - from) + from - 1 = i
      BY <1>2, <1>5, <2>3
    <3> QED BY <1>7, <3>1
  <2> QED BY <1>2, <1>3, <1>6, <2>1, <2>2, <2>3
<1>13. /\ \A i \in 1..m : i \in 1..Len(s)
       /\ next # Nothing => m + 1 \in 1..Len(s) /\ next = s[m + 1]
       /\ \A i \in 1..Len(rest) : i + from - 1 \in 1..Len(s) /\ rest[i] = s[i + from - 1]
  BY <1>2, <1>3, <1>4, <1>5, <1>7
<1>14. PICK h \in {0, 1} :
         /\ Len(s) = Len(channel[n]) + h /\ \A i \in 1..Len(channel[n]) : s[i + h] = channel[n][i]
         /\ (h = 1 => s[1] = carry[n]) /\ (h = 0 => carry[n] = Nothing)
  BY WaitsFacts DEF s
<1>15. /\ \A i \in 1..Len(channel[n]) : i + h \in 1..Len(s)
       /\ \A i \in 1..Len(s) : (i = 1 /\ h = 1) \/ (i - h \in 1..Len(channel[n]) /\ channel[n][i - h] = s[i])
       /\ h = 1 => 1 \in 1..Len(s)
  <2>1. Len(channel[n]) \in Nat
    BY DEF LinkTyped
  <2>2. ASSUME NEW i \in 1..Len(s), ~(i = 1 /\ h = 1)
        PROVE  i - h \in 1..Len(channel[n]) /\ channel[n][i - h] = s[i]
    <3>1. i - h \in 1..Len(channel[n]) /\ (i - h) + h = i
      BY <1>2, <1>14, <2>1, <2>2
    <3> QED BY <1>14, <3>1
  <2> QED BY <1>2, <1>14, <2>1, <2>2
<1>16. IdsOn(n)' = IdsOn(n)
  <2>1. ASSUME NEW d PROVE d \in IdsOn(n) <=> \E i \in 1..Len(s) : d \in s[i].ids
    <3>1. d \in IdsOn(n) <=> (\E i \in 1..Len(channel[n]) : d \in channel[n][i].ids) \/ d \in carry[n].ids
      BY <1>1, OnLine, NothingTyped
    <3>2. ASSUME NEW i \in 1..Len(s), d \in s[i].ids PROVE d \in IdsOn(n)
      BY <1>14, <1>15, <3>1, <3>2
    <3>3. ASSUME d \in IdsOn(n) PROVE \E i \in 1..Len(s) : d \in s[i].ids
      <4>1. CASE d \in carry[n].ids
        BY <1>14, <1>15, <4>1, NothingTyped
      <4>2. ASSUME NEW i \in 1..Len(channel[n]), d \in channel[n][i].ids
            PROVE  \E j \in 1..Len(s) : d \in s[j].ids
        <5>1. i + h \in 1..Len(s) /\ s[i + h] = channel[n][i]
          BY <1>14, <1>15
        <5> QED BY <4>2, <5>1
      <4> QED BY <3>1, <3>3, <4>1, <4>2
    <3> QED BY <3>2, <3>3
  <2>2. ASSUME NEW d PROVE d \in IdsOn(n)' <=> \/ \E i \in 1..Len(rest) : d \in rest[i].ids
                                               \/ d \in next.ids \/ d \in batch.ids
    <3>1. d \in UNION {x.ids : x \in ToSet(rest) \cup {next, batch}} <=>
            (\E i \in 1..Len(rest) : d \in rest[i].ids) \/ d \in next.ids \/ d \in batch.ids
      BY <1>7, AmongActions
    <3> QED BY <1>10, <3>1 DEF IdsOn, Acts
  <2>3. ASSUME NEW d PROVE d \in IdsOn(n)' <=> \E i \in 1..Len(s) : d \in s[i].ids
    BY <1>9, <1>12, <1>13, <2>2, NothingTyped
  <2> QED BY <2>1, <2>3
<1>17. CpsOn(n)' = CpsOn(n)
  <2>1. ASSUME NEW d PROVE d \in CpsOn(n) <=> \E i \in 1..Len(s) : d \in s[i].cps
    <3>1. d \in CpsOn(n) <=> (\E i \in 1..Len(channel[n]) : d \in channel[n][i].cps) \/ d \in carry[n].cps
      BY <1>1, OnLine, NothingTyped
    <3>2. ASSUME NEW i \in 1..Len(s), d \in s[i].cps PROVE d \in CpsOn(n)
      BY <1>14, <1>15, <3>1, <3>2
    <3>3. ASSUME d \in CpsOn(n) PROVE \E i \in 1..Len(s) : d \in s[i].cps
      <4>1. CASE d \in carry[n].cps
        BY <1>14, <1>15, <4>1, NothingTyped
      <4>2. ASSUME NEW i \in 1..Len(channel[n]), d \in channel[n][i].cps
            PROVE  \E j \in 1..Len(s) : d \in s[j].cps
        <5>1. i + h \in 1..Len(s) /\ s[i + h] = channel[n][i]
          BY <1>14, <1>15
        <5> QED BY <4>2, <5>1
      <4> QED BY <3>1, <3>3, <4>1, <4>2
    <3> QED BY <3>2, <3>3
  <2>2. ASSUME NEW d PROVE d \in CpsOn(n)' <=> \/ \E i \in 1..Len(rest) : d \in rest[i].cps
                                               \/ d \in next.cps \/ d \in batch.cps
    <3>1. d \in UNION {x.cps : x \in ToSet(rest) \cup {next, batch}} <=>
            (\E i \in 1..Len(rest) : d \in rest[i].cps) \/ d \in next.cps \/ d \in batch.cps
      BY <1>7, AmongActions
    <3> QED BY <1>10, <3>1 DEF CpsOn, Acts
  <2>3. ASSUME NEW d PROVE d \in CpsOn(n)' <=> \E i \in 1..Len(s) : d \in s[i].cps
    BY <1>9, <1>12, <1>13, <2>2, NothingTyped
  <2> QED BY <2>1, <2>3
<1>18. Held(n)' = Held(n)
  <2> DEFINE w == Bytes(s, Len(s))
             a == Bytes(s, m)
             r == Bytes(rest, Len(rest))
             c == Bytes(channel[n], Len(channel[n]))
  <2>1. w = c + carry[n].bytes
    BY WaitsBytes DEF s
  <2>2. w = a + next.bytes + r
    <3>1. CASE next = Nothing
      <4>1. /\ from = m + 1 /\ m \in 0..Len(s) /\ Len(rest) = Len(s) - m
            /\ \A i \in 1..Len(rest) : rest[i] = s[i + m]
        BY <1>2, <1>3, <1>6, <1>7, <3>1
      <4>2. w = a + r
        BY <1>2, <1>7, <4>1, BytesSplit
      <4>3. a \in Nat /\ r \in Nat /\ next.bytes = 0
        BY <1>2, <1>7, <3>1, <4>1, BytesNat, NothingTyped
      <4> HIDE DEF w, a, r
      <4> QED BY <4>2, <4>3
    <3>2. CASE next # Nothing
      <4> DEFINE t == SubSeq(s, m + 1, Len(s))
      <4>1. /\ from = m + 2 /\ m \in 0..Len(s) /\ m < Len(s) /\ next = s[m + 1]
            /\ Len(rest) = Len(s) - m - 1 /\ \A i \in 1..Len(rest) : rest[i] = s[i + m + 1]
        <5>1. from = m + 2 /\ m \in 0..Len(s) /\ m < Len(s) /\ next = s[m + 1] /\ m \in Nat
          BY <1>2, <1>3, <1>4, <1>6, <3>2
        <5>2. Len(rest) = Len(s) - m - 1
          BY ONLY <1>2, <1>7, <5>1
        <5>3. ASSUME NEW i \in 1..Len(rest) PROVE rest[i] = s[i + m + 1]
          <6>1. i \in 1..(Len(s) - from + 1) /\ i + from - 1 = i + m + 1
            BY ONLY <1>2, <1>7, <5>1, <5>2, <5>3
          <6> QED BY <1>7, <6>1
        <5> QED BY <5>1, <5>2, <5>3
      <4>2. t \in Seq(Body) /\ Len(t) = Len(s) - m /\ \A i \in 1..(Len(s) - m) : t[i] = s[i + m]
        BY <1>2, <4>1
      <4> HIDE DEF t
      <4>3. w = a + Bytes(t, Len(t))
        BY <1>2, <4>1, <4>2, BytesSplit
      <4>4. /\ 1 \in 0..Len(t) /\ Len(t) >= 1 /\ t[1] = next /\ Len(rest) = Len(t) - 1
            /\ \A i \in 1..Len(rest) : rest[i] = t[i + 1]
        <5>1. 1 \in 0..Len(t) /\ Len(t) >= 1 /\ Len(rest) = Len(t) - 1
          BY <1>2, <4>1, <4>2
        <5>2. t[1] = s[1 + m] /\ 1 + m = m + 1
          BY <1>2, <4>1, <4>2
        <5>3. ASSUME NEW i \in 1..Len(rest) PROVE rest[i] = t[i + 1]
          <6>1. i + 1 \in 1..(Len(s) - m) /\ (i + 1) + m = i + m + 1
            BY <1>2, <4>1
          <6> QED BY <4>1, <4>2, <6>1
        <5> QED BY <4>1, <5>1, <5>2, <5>3
      <4>5. Bytes(t, Len(t)) = Bytes(t, 1) + r
        BY <1>7, <4>2, <4>4, BytesSplit
      <4>6. Bytes(t, 1) = next.bytes
        BY <4>2, <4>4, BytesOfFew
      <4>7. a \in Nat /\ r \in Nat /\ next.bytes \in Nat
        BY <1>2, <1>4, <1>7, <4>1, BytesNat, BytesAll
      <4> HIDE DEF w, a, r
      <4> QED BY <4>3, <4>5, <4>6, <4>7
    <3> QED BY <3>1, <3>2
  <2>3. Held(n)' = r + next.bytes + a
    BY <1>9, <1>10 DEF Held
  <2>4. Held(n) = c + carry[n].bytes + 0
    BY <1>1, NothingTyped DEF Held
  <2>5. c \in Nat /\ carry[n].bytes \in Nat /\ a \in Nat /\ r \in Nat /\ next.bytes \in Nat
    <3>1. channel[n] \in Seq(Body) /\ carry[n] \in Body
      BY DEF LinkTyped
    <3>2. a \in Nat
      BY <1>2, <1>3, BytesNat
    <3> QED BY <1>4, <1>7, <3>1, <3>2, BytesAll
  <2> HIDE DEF w, a, r, c
  <2> QED BY <2>1, <2>2, <2>3, <2>4, <2>5
<1> QED BY <1>1, <1>10, <1>11, <1>16, <1>17, <1>18

\* A line's bytes are a natural number.
LEMMA HeldNat ==
  ASSUME LinkTyped, NEW n \in Lines
  PROVE  Held(n) \in Nat
<1>1. channel[n] \in Seq(Body) /\ carry[n] \in Body /\ sending[n] \in Body
  BY DEF LinkTyped
<1> QED BY <1>1, BytesAll DEF Held

\* broadcastAction: the queues that take the action, and no others, have it behind what they had, and
\* its bytes are reserved on their links.
LEMMA BroadcastAdds ==
  ASSUME LinkTyped, NEW b \in Brokers, NEW k \in Kinds, NEW a \in Body, NEW reach,
         Broadcast(b, k, a, reach), UNCHANGED <<carry, sending>>
  PROVE  /\ channel' \in [Lines -> Seq(Body)] /\ bytes' \in [Links -> Int]
         /\ \A n \in Lines : /\ IdsOn(n) \subseteq IdsOn(n)' /\ IdsOn(n)' \subseteq IdsOn(n) \cup a.ids
                             /\ CpsOn(n) \subseteq CpsOn(n)' /\ CpsOn(n)' \subseteq CpsOn(n) \cup a.cps
         /\ \A n \in Lines : n[1][1] # b \/ n[2] # k => IdsOn(n)' = IdsOn(n) /\ CpsOn(n)' = CpsOn(n)
         /\ \A p \in Brokers \ {b} : p \notin Refusing(b, k, a, reach) =>
              a.ids \subseteq IdsOn(<<<<b, p>>, k>>)' /\ a.cps \subseteq CpsOn(<<<<b, p>>, k>>)'
         /\ ActionLedger => ActionLedger'
<1> DEFINE taken == {n \in {m \in Lines : m[1][1] = b /\ m[2] = k} : n[1][2] \in reach /\ Admits(n, a)}
<1>1. /\ channel' = [n \in Lines |-> IF n \in taken THEN Append(channel[n], a) ELSE channel[n]]
      /\ bytes' = [l \in Links |-> IF <<l, k>> \in taken THEN bytes[l] + a.bytes ELSE bytes[l]]
  BY DEF Broadcast
<1>2. \A n \in taken : n \in Lines /\ n[1][1] = b /\ n[2] = k
  OBVIOUS
<1>3. \A p \in Brokers \ {b} : p \notin Refusing(b, k, a, reach) => <<<<b, p>>, k>> \in taken
  BY LineFacts DEF Refusing
<1> HIDE DEF taken
<1>4. /\ \A n \in Lines : channel[n] \in Seq(Body) /\ carry[n] \in Body /\ sending[n] \in Body
      /\ \A l \in Links : bytes[l] \in Int
      /\ a.bytes \in Nat
  BY BytesAll DEF LinkTyped
<1>5. channel' \in [Lines -> Seq(Body)]
  BY <1>1, <1>4
<1>6. bytes' \in [Links -> Int]
  BY <1>1, <1>4
<1>7. ASSUME NEW n \in Lines, n \notin taken PROVE IdsOn(n)' = IdsOn(n) /\ CpsOn(n)' = CpsOn(n) /\ Held(n)' = Held(n)
  BY <1>1, <1>7 DEF IdsOn, CpsOn, Acts, Held
<1>8. ASSUME NEW n \in taken
      PROVE  IdsOn(n)' = IdsOn(n) \cup a.ids /\ CpsOn(n)' = CpsOn(n) \cup a.cps /\ Held(n)' = Held(n) + a.bytes
  <2> DEFINE s == channel[n]
             t == Append(s, a)
  <2>1. channel'[n] = t /\ n \in Lines /\ s \in Seq(Body) /\ carry'[n] = carry[n] /\ sending'[n] = sending[n]
    BY <1>1, <1>2, <1>4
  <2>2. /\ t \in Seq(Body) /\ Len(t) = Len(s) + 1 /\ t[Len(s) + 1] = a /\ Len(s) \in Nat
        /\ \A i \in 1..Len(s) : t[i] = s[i]
    BY <2>1
  <2>3. Bytes(t, Len(t)) = Bytes(s, Len(s)) + a.bytes
    BY <2>1, BytesAppend
  <2> HIDE DEF t
  <2>4. Held(n)' = Held(n) + a.bytes
    <3> DEFINE x == Bytes(s, Len(s))
               c == carry[n].bytes
               e == sending[n].bytes
    <3>1. x \in Nat /\ c \in Nat /\ e \in Nat
      BY <1>2, <1>4, BytesAll
    <3>2. Held(n) = x + c + e /\ Held(n)' = Bytes(t, Len(t)) + c + e
      BY <2>1 DEF Held
    <3> HIDE DEF x, c, e
    <3> QED BY <1>4, <2>3, <3>1, <3>2 DEF x
  <2>5. ASSUME NEW d PROVE (\E i \in 1..Len(t) : d \in t[i].ids) <=> (\E i \in 1..Len(s) : d \in s[i].ids) \/ d \in a.ids
    BY <2>2
  <2>6. ASSUME NEW d PROVE (\E i \in 1..Len(t) : d \in t[i].cps) <=> (\E i \in 1..Len(s) : d \in s[i].cps) \/ d \in a.cps
    BY <2>2
  <2>7. ASSUME NEW d PROVE d \in IdsOn(n)' <=> d \in IdsOn(n) \/ d \in a.ids
    <3>1. d \in IdsOn(n)' <=> (\E i \in 1..Len(t) : d \in t[i].ids) \/ d \in carry[n].ids \/ d \in sending[n].ids
      BY <2>1, <2>2, AmongActions DEF IdsOn, Acts
    <3>2. d \in IdsOn(n) <=> (\E i \in 1..Len(s) : d \in s[i].ids) \/ d \in carry[n].ids \/ d \in sending[n].ids
      BY <2>1, OnLine
    <3> QED BY <2>5, <3>1, <3>2
  <2>8. ASSUME NEW d PROVE d \in CpsOn(n)' <=> d \in CpsOn(n) \/ d \in a.cps
    <3>1. d \in CpsOn(n)' <=> (\E i \in 1..Len(t) : d \in t[i].cps) \/ d \in carry[n].cps \/ d \in sending[n].cps
      BY <2>1, <2>2, AmongActions DEF CpsOn, Acts
    <3>2. d \in CpsOn(n) <=> (\E i \in 1..Len(s) : d \in s[i].cps) \/ d \in carry[n].cps \/ d \in sending[n].cps
      BY <2>1, OnLine
    <3> QED BY <2>6, <3>1, <3>2
  <2> QED BY <2>4, <2>7, <2>8
<1>9. ASSUME ActionLedger PROVE ActionLedger'
  <2> SUFFICES ASSUME NEW l \in Links PROVE bytes'[l] = Held(<<l, "ack">>)' + Held(<<l, "nack">>)'
    BY DEF ActionLedger
  <2> DEFINE x == <<l, "ack">>
             y == <<l, "nack">>
  <2>1. /\ bytes[l] = Held(x) + Held(y) /\ x \in Lines /\ y \in Lines /\ x[2] = "ack" /\ y[2] = "nack"
        /\ Held(x) \in Nat /\ Held(y) \in Nat
    BY <1>9, LineFacts, HeldNat DEF ActionLedger, Kinds
  <2>2. bytes'[l] = IF <<l, k>> \in taken THEN bytes[l] + a.bytes ELSE bytes[l]
    BY <1>1
  <2>3. CASE k = "ack"
    <3>1. y \notin taken /\ Held(y)' = Held(y)
      BY <1>2, <1>7, <2>1, <2>3
    <3>2. Held(x)' = IF x \in taken THEN Held(x) + a.bytes ELSE Held(x)
      BY <1>7, <1>8, <2>1
    <3>3. bytes'[l] = IF x \in taken THEN bytes[l] + a.bytes ELSE bytes[l]
      BY <2>2, <2>3
    <3> HIDE DEF x, y
    <3>4. bytes'[l] = Held(x)' + Held(y)'
      BY <1>4, <2>1, <3>1, <3>2, <3>3
    <3> QED BY <3>4 DEF x, y
  <2>4. CASE k = "nack"
    <3>1. x \notin taken /\ Held(x)' = Held(x)
      BY <1>2, <1>7, <2>1, <2>4
    <3>2. Held(y)' = IF y \in taken THEN Held(y) + a.bytes ELSE Held(y)
      BY <1>7, <1>8, <2>1
    <3>3. bytes'[l] = IF y \in taken THEN bytes[l] + a.bytes ELSE bytes[l]
      BY <2>2, <2>4
    <3> HIDE DEF x, y
    <3>4. bytes'[l] = Held(x)' + Held(y)'
      BY <1>4, <2>1, <3>1, <3>2, <3>3
    <3> QED BY <3>4 DEF x, y
  <2> QED BY <2>3, <2>4 DEF Kinds
<1> QED BY <1>2, <1>3, <1>5, <1>6, <1>7, <1>8, <1>9

\* A request that is answered or given up leaves its line and gives its bytes back.
LEMMA FinishedRemoves ==
  ASSUME LinkTyped, NEW n \in Lines, Finished(n), UNCHANGED <<channel, carry>>
  PROVE  /\ sending' \in [Lines -> Body] /\ bytes' \in [Links -> Int] /\ heard' = heard \ {n}
         /\ \A o \in Lines : IdsOn(o)' \subseteq IdsOn(o) /\ CpsOn(o)' \subseteq CpsOn(o)
         /\ IdsOn(n) \subseteq IdsOn(n)' \cup sending[n].ids /\ CpsOn(n) \subseteq CpsOn(n)' \cup sending[n].cps
         /\ \A o \in Lines : o # n => /\ IdsOn(o)' = IdsOn(o) /\ CpsOn(o)' = CpsOn(o)
                                      /\ sending'[o] = sending[o]
         /\ ActionLedger => ActionLedger'
<1>1. /\ bytes' = [bytes EXCEPT ![n[1]] = @ - sending[n].bytes]
      /\ sending' = [sending EXCEPT ![n] = Nothing] /\ heard' = heard \ {n}
  BY DEF Finished
<1>2. /\ \A o \in Lines : channel[o] \in Seq(Body) /\ carry[o] \in Body /\ sending[o] \in Body
      /\ \A l \in Links : bytes[l] \in Int
      /\ sending[n].bytes \in Nat /\ n[1] \in Links
  BY BytesAll, LineFacts DEF LinkTyped
<1>3. sending' \in [Lines -> Body] /\ bytes' \in [Links -> Int]
  BY <1>1, <1>2, NothingTyped DEF LinkTyped
<1>4. /\ sending'[n] = Nothing
      /\ \A o \in Lines : o # n => sending'[o] = sending[o]
  BY <1>1, <1>2 DEF LinkTyped
<1>5. \A o \in Lines : o # n => IdsOn(o)' = IdsOn(o) /\ CpsOn(o)' = CpsOn(o) /\ Held(o)' = Held(o)
  BY <1>4 DEF IdsOn, CpsOn, Acts, Held
<1>6. ASSUME NEW d
      PROVE  /\ d \in IdsOn(n)' => d \in IdsOn(n)
             /\ d \in IdsOn(n) => d \in IdsOn(n)' \/ d \in sending[n].ids
             /\ d \in CpsOn(n)' => d \in CpsOn(n)
             /\ d \in CpsOn(n) => d \in CpsOn(n)' \/ d \in sending[n].cps
  <2> DEFINE s == channel[n]
  <2>1. s \in Seq(Body)
    BY <1>2
  <2>2. /\ d \in IdsOn(n)' <=> (\E i \in 1..Len(s) : d \in s[i].ids) \/ d \in carry[n].ids \/ d \in Nothing.ids
        /\ d \in CpsOn(n)' <=> (\E i \in 1..Len(s) : d \in s[i].cps) \/ d \in carry[n].cps \/ d \in Nothing.cps
    BY <1>4, <2>1, AmongActions DEF IdsOn, CpsOn, Acts
  <2> QED BY <2>2, OnLine, NothingTyped
<1>7. ASSUME ActionLedger PROVE ActionLedger'
  <2> SUFFICES ASSUME NEW l \in Links PROVE bytes'[l] = Held(<<l, "ack">>)' + Held(<<l, "nack">>)'
    BY DEF ActionLedger
  <2> DEFINE x == <<l, "ack">>
             y == <<l, "nack">>
  <2>1. /\ bytes[l] = Held(x) + Held(y) /\ x \in Lines /\ y \in Lines /\ x[1] = l /\ y[1] = l /\ x # y
        /\ Held(x) \in Nat /\ Held(y) \in Nat
    BY <1>7, LineFacts, HeldNat DEF ActionLedger, Kinds
  <2>2. Held(n)' = Held(n) - sending[n].bytes
    <3> DEFINE w == Bytes(channel[n], Len(channel[n]))
               c == carry[n].bytes
               e == sending[n].bytes
    <3>1. w \in Nat /\ c \in Nat /\ e \in Nat
      BY <1>2, BytesAll
    <3>2. Held(n) = w + c + e /\ Held(n)' = w + c + 0
      BY <1>4, NothingTyped DEF Held
    <3> HIDE DEF w, c, e
    <3> QED BY <3>1, <3>2 DEF e
  <2>3. CASE n[1] = l
    <3>1. n = x \/ n = y
      BY <2>3, LineFacts DEF Kinds
    <3>2. bytes'[l] = bytes[l] - sending[n].bytes
      BY <1>1, <2>3 DEF LinkTyped
    <3> HIDE DEF x, y
    <3>3. bytes'[l] = Held(x)' + Held(y)'
      BY <1>2, <1>5, <2>1, <2>2, <3>1, <3>2
    <3> QED BY <3>3 DEF x, y
  <2>4. CASE n[1] # l
    <3>1. n # x /\ n # y /\ bytes'[l] = bytes[l]
      BY <1>1, <2>1, <2>4 DEF LinkTyped
    <3> QED BY <1>5, <2>1, <3>1
  <2> QED BY <2>3, <2>4
<1> QED BY <1>1, <1>3, <1>4, <1>5, <1>6, <1>7

-----------------------------------------------------------------------------
(* The inductive invariant.                                                 *)

\* A handler that still runs has no verdict.
Undecided == \A d \in Deliveries : worker[d] = "handling" => verdict[d] = None

\* A line of acks has only deliveries whose handlers succeeded, and checkpoints of its own broker's.
LineDecided ==
  \A l \in Links : \A d \in IdsOn(<<l, "ack">>) \cup CpsOn(<<l, "ack">>) : verdict[d] = "ack"
LineOwners == \A l \in Links : \A d \in CpsOn(<<l, "ack">>) : Owner[d] = l[1]

\* The peer has handled the request of a line: its checkpoints are there, and of its deliveries none
\* is pending.
Applied(n) ==
  /\ sending[n] # Nothing
  /\ n[2] = "ack" => /\ sending[n].cps \subseteq done[n[1][2]]
                     /\ \A d \in sending[n].ids : Owner[d] = n[1][2] => d \notin pending
HeardApplied == \A n \in heard : Applied(n)

\* The delivery is completed, or its ACK is on its way to the owner or was given up.
Safe(d) ==
  \/ d \notin pending \/ d \in missed[Owner[d]]
  \/ \E b \in Brokers \ {Owner[d]} : d \in IdsOn(<<<<b, Owner[d]>>, "ack">>)
\* A queue from the owner to p has the checkpoint, or did not take it, or gave it up.
Queued(d, p) == d \in missed[p] \/ d \in CpsOn(<<<<Owner[d], p>>, "ack">>)
\* The checkpoint is at p, or a queue had it, or a handler of the owner is to pass it on.
Spread(d, p) == d \in done[p] \/ Queued(d, p) \/ d \in Spreading(Owner[d])

\* A request holds deliveries whose handlers ended as it says.
Decided(c) == \A d \in c.ids : verdict[d] = c.kind
\* The checkpoints an ack request has are of its own deliveries that its broker owns, and include all
\* of those that are still pending.
Reads(c) ==
  c.kind = "ack" => /\ \A d \in c.cps : d \in c.ids /\ Owner[d] = c.at
                    /\ c.phase # "arrived" => Removed(c.at, c.ids) \subseteq c.cps
\* A request whose deliveries its broker has completed left none of them pending.
Completed(c) == c.phase = "completed" => \A d \in c.ids : d \notin pending
\* A request that every peer's queue took is as good as applied.
Forwarded(c) ==
  c.kind = "ack" /\ c.phase = "forwarded" =>
    /\ \A d \in c.ids : Owner[d] = c.at \/ Safe(d)
    /\ \A d \in c.cps : \A p \in Brokers \ {c.at} : Spread(d, p)
Sound(c) == Decided(c) /\ Reads(c) /\ Completed(c) /\ Forwarded(c)

\* What a peer's handler holds: acks of successful handlers, checkpoints of the sender's deliveries,
\* and, once removeAcks is done, those of the broker's own.
Serves(h) ==
  /\ \A d \in h.derived : verdict[d] = "ack" /\ Owner[d] = h.line[1][2]
  /\ h.ids # {} \/ h.line[2] = "nack" => h.derived = {}
  /\ h.line[2] = "ack" => /\ \A d \in h.ids \cup h.cps : verdict[d] = "ack"
                          /\ \A d \in h.cps : Owner[d] = h.line[1][1]
\* A handler whose sender waits has the request that is being sent; what it no longer holds of it is
\* not pending.
Tracks(h) ==
  h.awaited => /\ sending[h.line] # Nothing
               /\ h.line[2] = "ack" =>
                    /\ h.cps = sending[h.line].cps
                    /\ \A d \in sending[h.line].ids :
                         d \in h.ids \/ (Owner[d] = h.line[1][2] => d \notin pending)

CallsSound == \A c \in calls : Sound(c)
ConfirmedSafe == \A d \in Deliveries : worker[d] = "confirmed" /\ verdict[d] = "ack" => Safe(d)
DoneSpreads ==
  \A d \in Deliveries, p \in Brokers : d \in done[Owner[d]] /\ p # Owner[d] => Spread(d, p)

ClientInv == ClientTyped /\ Undecided /\ CallsSound /\ ConfirmedSafe
OwnerInv == OwnerTyped /\ OnlyAcked /\ DoneSpreads
LinkInv == LinkTyped /\ LineDecided /\ LineOwners /\ HeardApplied /\ ActionLedger
HandlerInv == serving \subseteq Handler /\ \A h \in serving : Serves(h) /\ Tracks(h)
Inv == ClientInv /\ OwnerInv /\ LinkInv /\ HandlerInv

\* What no step does: it takes back no completion and no verdict, and what leaves a line was handled
\* or is missed.
LinesKeep ==
  /\ pending' \subseteq pending
  /\ \A p \in Brokers : missed[p] \subseteq missed'[p] /\ done[p] \subseteq done'[p]
  /\ \A l \in Links :
       /\ \A d \in IdsOn(<<l, "ack">>) :
            d \in IdsOn(<<l, "ack">>)' \/ d \in missed'[l[2]] \/ (Owner[d] = l[2] => d \notin pending')
       /\ \A d \in CpsOn(<<l, "ack">>) :
            d \in CpsOn(<<l, "ack">>)' \/ d \in missed'[l[2]] \/ d \in done'[l[2]]
VerdictsKeep == \A d \in Deliveries : verdict[d] \in Kinds => verdict'[d] = verdict[d]
\* What a handler no longer has to pass on, it has passed on.
SpreadingKeeps ==
  \A d \in Deliveries : d \in Spreading(Owner[d]) =>
    d \in Spreading(Owner[d])' \/ \A p \in Brokers \ {Owner[d]} : Queued(d, p)'
Keeps == LinesKeep /\ VerdictsKeep /\ SpreadingKeeps

\* A delivery has an owner, and the owner's line to another broker is a line.
LEMMA OwnerLines ==
  ASSUME NEW d \in Deliveries
  PROVE  /\ Owner[d] \in Brokers
         /\ \A b \in Brokers : b # Owner[d] =>
              /\ <<b, Owner[d]>> \in Links /\ <<b, Owner[d]>>[2] = Owner[d]
              /\ <<Owner[d], b>> \in Links /\ <<Owner[d], b>>[2] = b /\ <<Owner[d], b>>[1] = Owner[d]
BY CompletionsTyped, LineFacts

\* So a delivery that is safe stays safe, and a completion that spreads goes on spreading.
LEMMA StaysSafe ==
  ASSUME Keeps, NEW d \in Deliveries
  PROVE  /\ Safe(d) => Safe(d)'
         /\ \A p \in Brokers : p # Owner[d] /\ Spread(d, p) => Spread(d, p)'
<1> USE DEF Keeps
<1>1. Owner[d] \in Brokers
  BY OwnerLines
<1>2. ASSUME Safe(d) PROVE Safe(d)'
  <2>1. CASE d \notin pending \/ d \in missed[Owner[d]]
    BY <1>1, <2>1 DEF LinesKeep, Safe
  <2>2. ASSUME NEW b \in Brokers \ {Owner[d]}, d \in IdsOn(<<<<b, Owner[d]>>, "ack">>) PROVE Safe(d)'
    <3>1. d \in IdsOn(<<<<b, Owner[d]>>, "ack">>)' \/ d \in missed'[Owner[d]] \/ d \notin pending'
      BY <2>2, OwnerLines DEF LinesKeep
    <3> QED BY <3>1 DEF Safe
  <2> QED BY <1>2, <2>1, <2>2 DEF Safe
<1>3. ASSUME NEW p \in Brokers, p # Owner[d], Spread(d, p) PROVE Spread(d, p)'
  <2>1. CASE d \in done[p] \/ d \in missed[p]
    BY <2>1 DEF LinesKeep, Spread, Queued
  <2>2. CASE d \in CpsOn(<<<<Owner[d], p>>, "ack">>)
    <3>1. <<Owner[d], p>> \in Links /\ <<Owner[d], p>>[2] = p
      BY <1>3, OwnerLines
    <3>2. d \in CpsOn(<<<<Owner[d], p>>, "ack">>)' \/ d \in missed'[p] \/ d \in done'[p]
      BY <2>2, <3>1 DEF LinesKeep
    <3> QED BY <3>2 DEF Spread, Queued
  <2>3. CASE d \in Spreading(Owner[d])
    BY <1>3, <2>3 DEF SpreadingKeeps, Spread
  <2> QED BY <1>3, <2>1, <2>2, <2>3 DEF Spread, Queued
<1> QED BY <1>2, <1>3

\* What a broker has to pass on is what its handlers have to.
LEMMA SpreadingFacts ==
  ASSUME NEW b, NEW d
  PROVE  d \in Spreading(b) <=> \/ \E c \in calls : c.phase = "completed" /\ c.at = b /\ d \in c.cps
                                \/ \E h \in serving : h.line[1][2] = b /\ d \in h.derived
BY DEF Spreading

\* Handlers that keep what they have to pass on.
LEMMA SpreadingStays ==
  ASSUME \A c \in calls : c.phase = "completed" =>
           \E e \in calls' : e.phase = "completed" /\ e.at = c.at /\ e.cps = c.cps,
         \A h \in serving : h.derived # {} => \E g \in serving' : g.line = h.line /\ g.derived = h.derived
  PROVE  SpreadingKeeps
<1> SUFFICES ASSUME NEW d \in Deliveries, d \in Spreading(Owner[d]) PROVE d \in Spreading(Owner[d])'
  BY DEF SpreadingKeeps
<1> DEFINE b == Owner[d]
<1>1. d \in Spreading(b)' <=> \/ \E c \in calls' : c.phase = "completed" /\ c.at = b /\ d \in c.cps
                              \/ \E h \in serving' : h.line[1][2] = b /\ d \in h.derived
  BY DEF Spreading
<1>2. \/ \E c \in calls : c.phase = "completed" /\ c.at = b /\ d \in c.cps
      \/ \E h \in serving : h.line[1][2] = b /\ d \in h.derived
  BY SpreadingFacts
<1> HIDE DEF b
<1>3. d \in Spreading(b)'
  BY <1>1, <1>2
<1> QED BY <1>3 DEF b

-----------------------------------------------------------------------------
(* What the parts of the state keep through any step.                       *)

\* A request that is not touched stays sound.
LEMMA SoundStays ==
  ASSUME Inv, Keeps, NEW c \in calls
  PROVE  Sound(c)'
<1> USE DEF Inv, ClientInv
<1>1. c \in Request /\ Sound(c)
  BY DEF ClientTyped, CallsSound
<1>2. /\ c.ids \subseteq Deliveries /\ c.cps \subseteq Deliveries /\ c.kind \in Kinds /\ c.at \in Brokers
  BY <1>1 DEF Request
<1>3. Decided(c)'
  BY <1>1, <1>2 DEF Sound, Decided, Keeps, VerdictsKeep
<1>4. pending' \subseteq pending
  BY DEF Keeps, LinesKeep
<1>5. Reads(c)' /\ Completed(c)'
  BY <1>1, <1>4 DEF Sound, Reads, Completed, Removed, Mine
<1>6. Forwarded(c)'
  <2> SUFFICES ASSUME c.kind = "ack", c.phase = "forwarded"
               PROVE  /\ \A d \in c.ids : Owner[d] = c.at \/ Safe(d)'
                      /\ \A d \in c.cps : \A p \in Brokers \ {c.at} : Spread(d, p)'
    BY DEF Forwarded
  <2>1. /\ \A d \in c.ids : Owner[d] = c.at \/ Safe(d)
        /\ \A d \in c.cps : \A p \in Brokers \ {c.at} : Spread(d, p)
        /\ \A d \in c.cps : Owner[d] = c.at
    BY <1>1 DEF Sound, Forwarded, Reads
  <2> QED BY <1>2, <2>1, StaysSafe
<1> QED BY <1>3, <1>5, <1>6 DEF Sound

\* The client's part holds on when the requests are the old ones and sound ones, and when a success
\* is told only of deliveries that are safe.
LEMMA ClientStep ==
  ASSUME Inv, Keeps, NEW E \in SUBSET Request, calls' \subseteq calls \cup E, \A e \in E : Sound(e)',
         repeats' \in Nat, worker' \in [Deliveries -> WorkerStates],
         verdict' \in [Deliveries -> Kinds \cup {None}],
         \A d \in Deliveries :
           /\ worker'[d] = "handling" => worker[d] = "handling" /\ verdict'[d] = verdict[d]
           /\ worker'[d] = "confirmed" /\ verdict'[d] = "ack" =>
                (worker[d] = "confirmed" /\ verdict[d] = "ack") \/ Safe(d)'
  PROVE  ClientInv'
<1>1. ClientTyped'
  BY DEF Inv, ClientInv, ClientTyped
<1>2. Undecided'
  BY DEF Inv, ClientInv, Undecided
<1>3. CallsSound'
  BY SoundStays DEF CallsSound
<1>4. ConfirmedSafe'
  <2> SUFFICES ASSUME NEW d \in Deliveries, worker'[d] = "confirmed", verdict'[d] = "ack" PROVE Safe(d)'
    BY DEF ConfirmedSafe
  <2>1. CASE worker[d] = "confirmed" /\ verdict[d] = "ack"
    BY <2>1, StaysSafe DEF Inv, ClientInv, ConfirmedSafe
  <2> QED BY <2>1
<1> QED BY <1>1, <1>2, <1>3, <1>4 DEF ClientInv

\* Nothing that happens elsewhere breaks what a request has read or was told.
LEMMA ClientKeeps ==
  ASSUME Inv, Keeps, UNCHANGED clientVars
  PROVE  ClientInv'
<1>1. UNCHANGED <<worker, verdict, repeats, calls>>
  BY DEF clientVars
<1>2. /\ worker \in [Deliveries -> WorkerStates] /\ verdict \in [Deliveries -> Kinds \cup {None}]
      /\ repeats \in Nat
  BY DEF Inv, ClientInv, ClientTyped
<1>3. {} \in SUBSET Request /\ calls' \subseteq calls \cup {}
  BY <1>1
<1> QED BY <1>1, <1>2, <1>3, ClientStep

\* An answer to the client ends its request; a success is told only when every delivery is safe.
LEMMA AnswerKeeps ==
  ASSUME Inv, Keeps, NEW c \in calls, NEW ok \in BOOLEAN, Answer(c, ok),
         ok /\ c.kind = "ack" => \A d \in c.ids : Safe(d)'
  PROVE  ClientInv'
<1>1. /\ calls' = calls \ {c} /\ UNCHANGED <<verdict, repeats>>
      /\ worker' = IF c.awaited THEN [d \in Deliveries |-> IF d \notin c.ids THEN worker[d]
                                                           ELSE IF ok THEN "confirmed" ELSE "failed"]
                   ELSE worker
  BY DEF Answer
<1>2. /\ worker \in [Deliveries -> WorkerStates] /\ verdict \in [Deliveries -> Kinds \cup {None}]
      /\ repeats \in Nat /\ Decided(c)
  BY DEF Inv, ClientInv, ClientTyped, CallsSound, Sound
<1>3. worker' \in [Deliveries -> WorkerStates]
  BY <1>1, <1>2 DEF WorkerStates
<1>4. \A d \in Deliveries : \/ worker'[d] = worker[d] \/ worker'[d] = "failed"
                            \/ worker'[d] = "confirmed" /\ ok /\ d \in c.ids
  BY <1>1, <1>2
<1>5. ASSUME NEW d \in Deliveries
      PROVE  /\ worker'[d] = "handling" => worker[d] = "handling" /\ verdict'[d] = verdict[d]
             /\ worker'[d] = "confirmed" /\ verdict'[d] = "ack" =>
                  (worker[d] = "confirmed" /\ verdict[d] = "ack") \/ Safe(d)'
  BY <1>1, <1>2, <1>4 DEF Decided
<1>6. {} \in SUBSET Request /\ calls' \subseteq calls \cup {}
  BY <1>1
<1> QED BY <1>1, <1>2, <1>3, <1>5, <1>6, ClientStep

\* A handler that goes on keeps the client's part when its request is sound.
LEMMA ContinuesKeeps ==
  ASSUME Inv, Keeps, NEW c \in calls, NEW e \in Request, calls' = (calls \ {c}) \cup {e},
         UNCHANGED <<worker, verdict, repeats>>, Sound(e)'
  PROVE  ClientInv'
<1>1. /\ worker \in [Deliveries -> WorkerStates] /\ verdict \in [Deliveries -> Kinds \cup {None}]
      /\ repeats \in Nat
  BY DEF Inv, ClientInv, ClientTyped
<1>2. {e} \in SUBSET Request /\ calls' \subseteq calls \cup {e} /\ \A x \in {e} : Sound(x)'
  OBVIOUS
<1> QED BY <1>1, <1>2, ClientStep

\* A peer's handler keeps what it has when its sender's request stays or the sender no longer waits.
LEMMA ServesStays ==
  ASSUME Inv, LinesKeep, VerdictsKeep, NEW h \in serving, NEW g \in Handler,
         g.line = h.line, g.ids = h.ids, g.derived = h.derived, g.cps = h.cps,
         g.awaited => h.awaited /\ sending'[h.line] = sending[h.line]
  PROVE  Serves(g)' /\ Tracks(g)'
<1>1. h \in Handler /\ Serves(h) /\ Tracks(h)
  BY DEF Inv, HandlerInv
<1>2. h.ids \subseteq Deliveries /\ h.cps \subseteq Deliveries /\ h.derived \subseteq Deliveries
  BY <1>1 DEF Handler
<1>3. pending' \subseteq pending /\ \A d \in Deliveries : verdict[d] = "ack" => verdict'[d] = "ack"
  BY DEF LinesKeep, VerdictsKeep, Kinds
<1>4. Serves(g)'
  BY <1>1, <1>2, <1>3 DEF Serves
<1>5. Tracks(g)'
  BY <1>1, <1>3 DEF Tracks
<1> QED BY <1>4, <1>5

\* So the peers' handlers hold on when they are the old ones and new ones that serve.
LEMMA HandlerStep ==
  ASSUME Inv, LinesKeep, VerdictsKeep, sending' = sending, NEW H \in SUBSET Handler,
         serving' \subseteq serving \cup H, \A g \in H : Serves(g)' /\ Tracks(g)'
  PROVE  HandlerInv'
<1>1. serving \subseteq Handler
  BY DEF Inv, HandlerInv
<1>2. \A h \in serving : Serves(h)' /\ Tracks(h)'
  BY <1>1, ServesStays
<1> QED BY <1>1, <1>2 DEF HandlerInv

\* The same when no handler is new.
LEMMA HandlersKeep ==
  ASSUME Inv, LinesKeep, VerdictsKeep, UNCHANGED <<sending, serving>>
  PROVE  HandlerInv'
<1>1. {} \in SUBSET Handler /\ serving' \subseteq serving \cup {} /\ \A g \in {} : Serves(g)' /\ Tracks(g)'
  OBVIOUS
<1> QED BY <1>1, HandlerStep

\* Where no line changes and no delivery becomes pending, the lines keep what they had.
LEMMA QuietLines ==
  ASSUME Inv, UNCHANGED <<channel, carry, sending, bytes, missed>>, pending' \subseteq pending, VerdictsKeep,
         \A p \in Brokers : done[p] \subseteq done'[p],
         \A n \in heard' : n \in heard \/ (n \in Lines /\ Applied(n)')
  PROVE  LinesKeep /\ LinkInv'
<1> USE DEF Inv, LinkInv
<1>1. \A n : IdsOn(n)' = IdsOn(n) /\ CpsOn(n)' = CpsOn(n) /\ Held(n)' = Held(n)
  BY DEF IdsOn, CpsOn, Acts, Held
<1>2. LinesKeep
  BY <1>1 DEF LinesKeep
<1>3. LinkTyped'
  BY DEF LinkTyped
<1>4. \A l \in Links : IdsOn(<<l, "ack">>) \subseteq Deliveries /\ CpsOn(<<l, "ack">>) \subseteq Deliveries
  BY OnLineTyped, LineFacts DEF Kinds
<1>5. LineDecided' /\ LineOwners'
  BY <1>1, <1>4 DEF LineDecided, LineOwners, VerdictsKeep, Kinds
<1>6. HeardApplied'
  <2> SUFFICES ASSUME NEW n \in heard' PROVE Applied(n)'
    BY DEF HeardApplied
  <2>1. CASE n \in heard
    <3>1. Applied(n) /\ n[1][2] \in Brokers
      BY <2>1, LineFacts DEF HeardApplied, LinkTyped
    <3> QED BY <3>1 DEF Applied
  <2> QED BY <2>1
<1>7. ActionLedger'
  BY <1>1 DEF ActionLedger
<1> QED BY <1>2, <1>3, <1>5, <1>6, <1>7

\* What a broker completes has spread, or a handler is to pass it on.
LEMMA DoneSpreadsKept ==
  ASSUME Inv, Keeps,
         \A d \in Deliveries, p \in Brokers :
           d \in done'[Owner[d]] /\ d \notin done[Owner[d]] /\ p # Owner[d] => Spread(d, p)'
  PROVE  DoneSpreads'
<1> SUFFICES ASSUME NEW d \in Deliveries, NEW p \in Brokers, d \in done'[Owner[d]], p # Owner[d]
             PROVE  Spread(d, p)'
  BY DEF DoneSpreads
<1>1. Owner[d] \in Brokers
  BY OwnerLines
<1>2. CASE d \in done[Owner[d]]
  <2>1. Spread(d, p)
    BY <1>2 DEF Inv, OwnerInv, DoneSpreads
  <2> QED BY <2>1, StaysSafe
<1>3. CASE d \notin done[Owner[d]]
  BY <1>3
<1> QED BY <1>2, <1>3

\* A step that completes nothing keeps the owners' part.
LEMMA OwnerKeeps ==
  ASSUME Inv, Keeps, pending' \subseteq pending, done' = done
  PROVE  OwnerInv'
<1>1. OwnerTyped'
  BY DEF Inv, OwnerInv, OwnerTyped
<1>2. OnlyAcked'
  BY DEF Inv, OwnerInv, OwnerTyped, OnlyAcked, Keeps, VerdictsKeep, Kinds
<1>3. DoneSpreads'
  BY DoneSpreadsKept
<1> QED BY <1>1, <1>2, <1>3 DEF OwnerInv

\* A step that touches no line and no checkpoint.
LEMMA QuietKeeps ==
  ASSUME Inv, UNCHANGED linkVars, pending' \subseteq pending, done' = done, VerdictsKeep, SpreadingKeeps
  PROVE  Keeps /\ OwnerInv' /\ LinkInv' /\ HandlerInv'
<1>1. UNCHANGED <<channel, carry, sending, heard, serving, bytes, missed>>
  BY DEF linkVars
<1>2. LinesKeep /\ LinkInv'
  BY <1>1, QuietLines
<1>3. Keeps
  BY <1>2 DEF Keeps
<1> QED BY <1>1, <1>2, <1>3, OwnerKeeps, HandlersKeep

-----------------------------------------------------------------------------
(* Steps of the client.                                                     *)

\* Requests that come, or change without leaving the phase, keep what is to be passed on.
LEMMA CallsSpread ==
  ASSUME NEW c, NEW e, calls' = (calls \ {c}) \cup {e}, serving' = serving,
         c.phase # "completed" \/ (e.phase = c.phase /\ e.at = c.at /\ e.cps = c.cps)
  PROVE  SpreadingKeeps
<1>1. \A x \in calls : x.phase = "completed" =>
        \E y \in calls' : y.phase = "completed" /\ y.at = x.at /\ y.cps = x.cps
  OBVIOUS
<1>2. \A h \in serving : h.derived # {} => \E g \in serving' : g.line = h.line /\ g.derived = h.derived
  OBVIOUS
<1> QED BY <1>1, <1>2, SpreadingStays

\* Handlers of requests that are as they were.
LEMMA SameSpread == ASSUME UNCHANGED <<calls, serving>> PROVE SpreadingKeeps
<1>1. \A x \in calls : x.phase = "completed" =>
        \E y \in calls' : y.phase = "completed" /\ y.at = x.at /\ y.cps = x.cps
  OBVIOUS
<1>2. \A h \in serving : h.derived # {} => \E g \in serving' : g.line = h.line /\ g.derived = h.derived
  OBVIOUS
<1> QED BY <1>1, <1>2, SpreadingStays

\* A handler ends: its delivery was in no request and on no line.
LEMMA HandlerEndsKeeps ==
  ASSUME Inv, NEW d \in Deliveries, NEW k \in Kinds, HandlerEnds(d, k)
  PROVE  Inv'
<1>1. /\ worker[d] = "handling" /\ worker' = [worker EXCEPT ![d] = "submitted"]
      /\ verdict' = [verdict EXCEPT ![d] = k] /\ UNCHANGED <<repeats, calls, linkVars, pending, done>>
  BY DEF HandlerEnds, ownerVars
<1>2. /\ worker \in [Deliveries -> WorkerStates] /\ verdict \in [Deliveries -> Kinds \cup {None}]
      /\ repeats \in Nat
  BY DEF Inv, ClientInv, ClientTyped
<1>3. verdict[d] = None /\ None \notin Kinds
  BY <1>1, CompletionsTyped DEF Inv, ClientInv, Undecided
<1>4. VerdictsKeep
  BY <1>1, <1>2, <1>3 DEF VerdictsKeep
<1>5. SpreadingKeeps
  BY <1>1, SameSpread DEF linkVars
<1>6. Keeps /\ OwnerInv' /\ LinkInv' /\ HandlerInv'
  BY <1>1, <1>4, <1>5, QuietKeeps
<1>7. worker' \in [Deliveries -> WorkerStates] /\ verdict' \in [Deliveries -> Kinds \cup {None}]
  BY <1>1, <1>2 DEF WorkerStates
<1>8. \A e \in Deliveries : worker'[e] # "submitted" => worker'[e] = worker[e] /\ verdict'[e] = verdict[e]
  BY <1>1, <1>2
<1>9. {} \in SUBSET Request /\ calls' \subseteq calls \cup {}
  BY <1>1
<1>10. ClientInv'
  BY <1>1, <1>2, <1>6, <1>7, <1>8, <1>9, ClientStep
<1> QED BY <1>6, <1>10 DEF Inv

\* A new request, with deliveries whose handlers ended as it says.
LEMMA PostKeeps ==
  ASSUME Inv, NEW k \in Kinds, NEW b \in Gateways, NEW ids \in SUBSET Deliveries, Post(k, b, ids)
  PROVE  Inv'
<1>1. PICK e : /\ e = [phase |-> "arrived", kind |-> k, at |-> b, ids |-> ids, cps |-> {},
                       attempt |-> repeats', awaited |-> TRUE]
               /\ calls' = calls \cup {e}
  BY DEF Post
<1>2. /\ \A d \in ids : verdict[d] = k
      /\ worker' = [d \in Deliveries |-> IF d \in ids THEN "posted" ELSE worker[d]]
      /\ repeats' \in {repeats, repeats + 1} /\ UNCHANGED <<verdict, linkVars, pending, done>>
  BY DEF Post, ownerVars
<1>3. /\ worker \in [Deliveries -> WorkerStates] /\ verdict \in [Deliveries -> Kinds \cup {None}]
      /\ repeats' \in Nat
  BY <1>2 DEF Inv, ClientInv, ClientTyped
<1>4. /\ e \in Request /\ e.phase = "arrived" /\ e.ids = ids /\ e.cps = {} /\ e.kind = k
  BY <1>1, <1>3, CompletionsTyped DEF Request, Phases
<1>5. VerdictsKeep
  BY <1>2 DEF VerdictsKeep
<1>6. SpreadingKeeps
  <2>1. serving' = serving
    BY <1>2 DEF linkVars
  <2>2. \A x \in calls : x \in calls'
    BY <1>1
  <2>3. \A x \in calls : x.phase = "completed" =>
          \E y \in calls' : y.phase = "completed" /\ y.at = x.at /\ y.cps = x.cps
    BY <2>2
  <2>4. \A h \in serving : h.derived # {} => \E g \in serving' : g.line = h.line /\ g.derived = h.derived
    BY <2>1
  <2> QED BY <2>3, <2>4, SpreadingStays
<1>7. Keeps /\ OwnerInv' /\ LinkInv' /\ HandlerInv'
  BY <1>2, <1>5, <1>6, QuietKeeps
<1>8. Sound(e)'
  BY <1>2, <1>4 DEF Sound, Decided, Reads, Completed, Forwarded
<1>9. /\ worker' \in [Deliveries -> WorkerStates]
      /\ \A d \in Deliveries : worker'[d] = "posted" \/ worker'[d] = worker[d]
  BY <1>2, <1>3 DEF WorkerStates
<1>10. {e} \in SUBSET Request /\ calls' \subseteq calls \cup {e} /\ \A x \in {e} : Sound(x)'
  BY <1>1, <1>4, <1>8
<1>11. ClientInv'
  BY <1>2, <1>3, <1>7, <1>9, <1>10, ClientStep
<1> QED BY <1>7, <1>11 DEF Inv

\* A client that goes away changes nothing but what its workers know.
LEMMA DisconnectKeeps ==
  ASSUME Inv, NEW c \in calls, Disconnect(c)
  PROVE  Inv'
<1> DEFINE e == [c EXCEPT !.awaited = FALSE]
<1>1. /\ calls' = (calls \ {c}) \cup {e} /\ UNCHANGED <<verdict, repeats, linkVars, pending, done>>
      /\ worker' = [d \in Deliveries |-> IF d \in c.ids THEN "failed" ELSE worker[d]]
  BY DEF Disconnect, ownerVars
<1>2. /\ worker \in [Deliveries -> WorkerStates] /\ verdict \in [Deliveries -> Kinds \cup {None}]
      /\ repeats \in Nat /\ c \in Request
  BY DEF Inv, ClientInv, ClientTyped
<1>3. /\ e \in Request /\ e.phase = c.phase /\ e.kind = c.kind /\ e.at = c.at /\ e.ids = c.ids
      /\ e.cps = c.cps
  BY <1>2 DEF Request
<1> HIDE DEF e
<1>4. VerdictsKeep
  BY <1>1 DEF VerdictsKeep
<1>5. SpreadingKeeps
  BY <1>1, <1>3, CallsSpread DEF linkVars
<1>6. Keeps /\ OwnerInv' /\ LinkInv' /\ HandlerInv'
  BY <1>1, <1>4, <1>5, QuietKeeps
<1>7. Sound(e)'
  <2>1. Sound(c)'
    BY <1>6, SoundStays
  <2> QED BY <1>3, <2>1 DEF Sound, Decided, Reads, Completed, Forwarded
<1>8. /\ worker' \in [Deliveries -> WorkerStates]
      /\ \A d \in Deliveries : worker'[d] = "failed" \/ worker'[d] = worker[d]
  BY <1>1, <1>2 DEF WorkerStates
<1>9. {e} \in SUBSET Request /\ calls' \subseteq calls \cup {e} /\ \A x \in {e} : Sound(x)'
  BY <1>1, <1>3, <1>7
<1>10. ClientInv'
  BY <1>1, <1>2, <1>6, <1>8, <1>9, ClientStep
<1> QED BY <1>6, <1>10 DEF Inv

-----------------------------------------------------------------------------
(* Steps of the brokers.                                                    *)

\* What is pending of a request's deliveries at its broker.
LEMMA RemovedFacts ==
  ASSUME OwnerTyped, NEW b, NEW ids
  PROVE  /\ Removed(b, ids) \in SUBSET Deliveries
         /\ \A d : d \in Removed(b, ids) <=> d \in pending /\ Owner[d] = b /\ d \in ids
BY DEF Removed, Mine, OwnerTyped

\* The request of a handler that goes on.
LEMMA ContinuesFacts ==
  ASSUME NEW c \in Request, NEW phase \in Phases, NEW cps \in SUBSET Deliveries, Continues(c, phase, cps)
  PROVE  \E e \in Request : /\ calls' = (calls \ {c}) \cup {e} /\ UNCHANGED <<worker, verdict, repeats>>
                            /\ e.phase = phase /\ e.cps = cps
                            /\ e.kind = c.kind /\ e.at = c.at /\ e.ids = c.ids
<1> DEFINE e == [c EXCEPT !.phase = phase, !.cps = cps]
<1>1. calls' = (calls \ {c}) \cup {e} /\ UNCHANGED <<worker, verdict, repeats>>
  BY DEF Continues
<1>2. /\ e \in Request /\ e.phase = phase /\ e.cps = cps
      /\ e.kind = c.kind /\ e.at = c.at /\ e.ids = c.ids
  BY DEF Request
<1> QED BY <1>1, <1>2

\* An acknowledgement that waits to be forwarded; pending deliveries may go meanwhile.
LEMMA AckReadKeeps == ASSUME Inv, NEW c \in calls, AckRead(c) PROVE Inv'
<1>1. c \in Request /\ OwnerTyped /\ Sound(c)
  BY DEF Inv, ClientInv, ClientTyped, CallsSound, OwnerInv
<1>2. /\ c.kind = "ack" /\ c.phase = "arrived" /\ Continues(c, "read", Removed(c.at, c.ids))
      /\ UNCHANGED <<linkVars, pending, done>>
  BY DEF AckRead, Handles, ownerVars
<1>3. PICK R \in SUBSET Deliveries : R = Removed(c.at, c.ids)
  BY <1>1, RemovedFacts
<1>4. PICK e \in Request : /\ calls' = (calls \ {c}) \cup {e} /\ UNCHANGED <<worker, verdict, repeats>>
                           /\ e.phase = "read" /\ e.cps = R
                           /\ e.kind = c.kind /\ e.at = c.at /\ e.ids = c.ids
  BY <1>1, <1>2, <1>3, ContinuesFacts DEF Phases
<1>5. VerdictsKeep
  BY <1>4 DEF VerdictsKeep
<1>6. SpreadingKeeps
  BY <1>2, <1>4, CallsSpread DEF linkVars
<1>7. Keeps /\ OwnerInv' /\ LinkInv' /\ HandlerInv'
  BY <1>2, <1>5, <1>6, QuietKeeps
<1>8. Sound(e)'
  <2>1. Decided(e)'
    BY <1>1, <1>4 DEF Sound, Decided
  <2>2. \A d \in R : d \in c.ids /\ Owner[d] = c.at
    BY <1>1, <1>3, RemovedFacts
  <2>3. Reads(e)'
    BY <1>2, <1>3, <1>4, <2>2 DEF Reads, Removed, Mine
  <2>4. Completed(e)' /\ Forwarded(e)'
    BY <1>4 DEF Completed, Forwarded
  <2> QED BY <2>1, <2>3, <2>4 DEF Sound
<1>9. ClientInv'
  BY <1>4, <1>7, <1>8, ContinuesKeeps
<1> QED BY <1>7, <1>9 DEF Inv

\* A nack brings deadlines forward and completes nothing.
LEMMA NackApplyKeeps == ASSUME Inv, NEW c \in calls, NackApply(c) PROVE Inv'
<1>1. c \in Request /\ Sound(c)
  BY DEF Inv, ClientInv, ClientTyped, CallsSound
<1>2. /\ c.kind = "nack" /\ c.phase = "arrived" /\ Continues(c, "read", {})
      /\ UNCHANGED <<linkVars, pending, done>>
  BY DEF NackApply, Handles
<1>3. PICK e \in Request : /\ calls' = (calls \ {c}) \cup {e} /\ UNCHANGED <<worker, verdict, repeats>>
                           /\ e.phase = "read" /\ e.cps = {}
                           /\ e.kind = c.kind /\ e.at = c.at /\ e.ids = c.ids
  <2>1. {} \in SUBSET Deliveries /\ "read" \in Phases
    BY DEF Phases
  <2> QED BY <1>1, <1>2, <2>1, ContinuesFacts
<1>4. VerdictsKeep
  BY <1>3 DEF VerdictsKeep
<1>5. SpreadingKeeps
  BY <1>2, <1>3, CallsSpread DEF linkVars
<1>6. Keeps /\ OwnerInv' /\ LinkInv' /\ HandlerInv'
  BY <1>2, <1>4, <1>5, QuietKeeps
<1>7. Sound(e)'
  BY <1>1, <1>2, <1>3 DEF Sound, Decided, Reads, Completed, Forwarded
<1>8. ClientInv'
  BY <1>3, <1>6, <1>7, ContinuesKeeps
<1> QED BY <1>6, <1>8 DEF Inv

\* A delivery whose deadline passes is completed by nobody.
LEMMA LapseKeeps == ASSUME Inv, NEW d \in Deliveries, Lapse(d) PROVE Inv'
<1>1. /\ pending' \subseteq pending /\ done' = done /\ UNCHANGED <<clientVars, linkVars>>
      /\ UNCHANGED <<verdict, calls, serving>>
  BY DEF Lapse, clientVars, linkVars
<1>2. VerdictsKeep /\ SpreadingKeeps
  BY <1>1, SameSpread DEF VerdictsKeep
<1>3. Keeps /\ OwnerInv' /\ LinkInv' /\ HandlerInv'
  BY <1>1, <1>2, QuietKeeps
<1> QED BY <1>1, <1>3, ClientKeeps DEF Inv

\* removeAcks completes what the broker owns.
LEMMA RemoveAcksFacts ==
  ASSUME Inv, NEW b \in Brokers, NEW ids \in SUBSET Deliveries, RemoveAcks(b, ids), verdict' = verdict,
         \A d \in ids : verdict[d] = "ack"
  PROVE  /\ OwnerTyped' /\ OnlyAcked' /\ pending' \subseteq pending
         /\ \A p \in Brokers : done[p] \subseteq done'[p]
         /\ \A d \in ids : Owner[d] = b => d \notin pending'
         /\ \A d \in Deliveries, p \in Brokers :
              d \in done'[p] => d \in done[p] \/ (p = b /\ d \in Removed(b, ids))
<1> USE DEF Inv, OwnerInv
<1>1. pending' = pending \ Removed(b, ids) /\ done' = [done EXCEPT ![b] = @ \cup Removed(b, ids)]
  BY DEF RemoveAcks
<1>2. /\ Removed(b, ids) \in SUBSET Deliveries
      /\ \A d : d \in Removed(b, ids) <=> d \in pending /\ Owner[d] = b /\ d \in ids
  BY RemovedFacts
<1>3. /\ OwnerTyped' /\ pending' \subseteq pending
      /\ done'[b] = done[b] \cup Removed(b, ids) /\ \A p \in Brokers : p # b => done'[p] = done[p]
  BY <1>1, <1>2 DEF OwnerTyped
<1>4. \A d \in ids : Owner[d] = b => d \notin pending'
  BY <1>1, <1>2
<1>5. OnlyAcked'
  BY <1>2, <1>3 DEF OnlyAcked
<1> QED BY <1>3, <1>4, <1>5

\* The owner completes what is its own; the handler is to pass the checkpoints on.
LEMMA AckLocalKeeps == ASSUME Inv, NEW c \in calls, AckLocal(c) PROVE Inv'
<1>1. c \in Request /\ OwnerTyped /\ Sound(c)
  BY DEF Inv, ClientInv, ClientTyped, CallsSound, OwnerInv
<1>2. /\ c.kind = "ack" /\ c.phase = "arrived" /\ Local(c.at, c.ids) /\ RemoveAcks(c.at, c.ids)
      /\ Continues(c, "completed", Removed(c.at, c.ids))
      /\ UNCHANGED <<channel, carry, sending, heard, serving, bytes, missed>>
  BY DEF AckLocal, Handles, linkVars
<1>3. PICK R \in SUBSET Deliveries : R = Removed(c.at, c.ids)
  BY <1>1, RemovedFacts
<1>4. PICK e \in Request : /\ calls' = (calls \ {c}) \cup {e} /\ UNCHANGED <<worker, verdict, repeats>>
                           /\ e.phase = "completed" /\ e.cps = R
                           /\ e.kind = c.kind /\ e.at = c.at /\ e.ids = c.ids
  BY <1>1, <1>2, <1>3, ContinuesFacts DEF Phases
<1>5. /\ c.at \in Brokers /\ c.ids \in SUBSET Deliveries
      /\ \A d \in c.ids : verdict[d] = "ack" /\ Owner[d] = c.at
  BY <1>1, <1>2 DEF Request, Sound, Decided, Local
<1>6. /\ OwnerTyped' /\ OnlyAcked' /\ pending' \subseteq pending
      /\ \A p \in Brokers : done[p] \subseteq done'[p]
      /\ \A d \in c.ids : Owner[d] = c.at => d \notin pending'
      /\ \A d \in Deliveries, p \in Brokers : d \in done'[p] => d \in done[p] \/ (p = c.at /\ d \in R)
  BY <1>2, <1>3, <1>4, <1>5, RemoveAcksFacts
<1>7. VerdictsKeep
  BY <1>4 DEF VerdictsKeep
<1>8. SpreadingKeeps
  BY <1>2, <1>4, CallsSpread
<1>9. LinesKeep /\ LinkInv'
  BY <1>2, <1>6, <1>7, QuietLines
<1>10. Keeps /\ HandlerInv'
  BY <1>2, <1>7, <1>8, <1>9, HandlersKeep DEF Keeps
<1>11. ASSUME NEW d \in Deliveries, NEW p \in Brokers,
              d \in done'[Owner[d]], d \notin done[Owner[d]], p # Owner[d]
       PROVE  Spread(d, p)'
  <2>1. Owner[d] \in Brokers
    BY OwnerLines
  <2>2. d \in R /\ Owner[d] = c.at
    BY <1>6, <1>11, <2>1
  <2>3. \E x \in calls' : x.phase = "completed" /\ x.at = Owner[d] /\ d \in x.cps
    BY <1>4, <2>2
  <2>4. d \in Spreading(Owner[d])'
    BY <2>3 DEF Spreading
  <2> QED BY <2>4 DEF Spread
<1>12. DoneSpreads'
  BY <1>10, <1>11, DoneSpreadsKept
<1>13. Sound(e)'
  <2>1. Decided(e)'
    BY <1>1, <1>4 DEF Sound, Decided
  <2>2. \A d \in R : d \in c.ids /\ Owner[d] = c.at
    BY <1>1, <1>3, RemovedFacts
  <2>3. \A d \in c.ids : d \notin pending'
    BY <1>5, <1>6
  <2>4. Reads(e)'
    BY <1>4, <2>2, <2>3 DEF Reads, Removed, Mine
  <2>5. Completed(e)' /\ Forwarded(e)'
    BY <1>4, <2>3 DEF Completed, Forwarded
  <2> QED BY <2>1, <2>4, <2>5 DEF Sound
<1>14. ClientInv'
  BY <1>4, <1>10, <1>13, ContinuesKeeps
<1> QED BY <1>6, <1>9, <1>10, <1>12, <1>14 DEF Inv, OwnerInv

\* A forwarded request is applied where it arrived.
LEMMA AckRemoveKeeps == ASSUME Inv, NEW c \in calls, AckRemove(c) PROVE Inv'
<1>1. c \in Request /\ OwnerTyped /\ Sound(c)
  BY DEF Inv, ClientInv, ClientTyped, CallsSound, OwnerInv
<1>2. /\ c.kind = "ack" /\ c.phase = "forwarded" /\ RemoveAcks(c.at, c.ids) /\ Answer(c, TRUE)
      /\ UNCHANGED <<channel, carry, sending, heard, serving, bytes, missed>>
  BY DEF AckRemove, Handles, linkVars
<1>3. PICK R \in SUBSET Deliveries : R = Removed(c.at, c.ids)
  BY <1>1, RemovedFacts
<1>4. calls' = calls \ {c} /\ verdict' = verdict
  BY <1>2 DEF Answer
<1>5. /\ c.at \in Brokers /\ c.ids \in SUBSET Deliveries /\ (\A d \in c.ids : verdict[d] = "ack")
      /\ R \subseteq c.cps /\ (\A d \in R : Owner[d] = c.at)
      /\ (\A d \in c.ids : Owner[d] = c.at \/ Safe(d))
      /\ \A d \in c.cps : \A p \in Brokers \ {c.at} : Spread(d, p)
  BY <1>1, <1>2, <1>3, RemovedFacts DEF Request, Sound, Decided, Reads, Forwarded
<1>6. /\ OwnerTyped' /\ OnlyAcked' /\ pending' \subseteq pending
      /\ \A p \in Brokers : done[p] \subseteq done'[p]
      /\ \A d \in c.ids : Owner[d] = c.at => d \notin pending'
      /\ \A d \in Deliveries, p \in Brokers : d \in done'[p] => d \in done[p] \/ (p = c.at /\ d \in R)
  BY <1>2, <1>3, <1>4, <1>5, RemoveAcksFacts
<1>7. VerdictsKeep
  BY <1>4 DEF VerdictsKeep
<1>8. SpreadingKeeps
  <2>1. \A x \in calls : x.phase = "completed" => x \in calls'
    BY <1>2, <1>4
  <2>2. \A x \in calls : x.phase = "completed" =>
          \E y \in calls' : y.phase = "completed" /\ y.at = x.at /\ y.cps = x.cps
    BY <2>1
  <2>3. \A h \in serving : h.derived # {} => \E g \in serving' : g.line = h.line /\ g.derived = h.derived
    BY <1>2
  <2> QED BY <2>2, <2>3, SpreadingStays
<1>9. LinesKeep /\ LinkInv'
  BY <1>2, <1>6, <1>7, QuietLines
<1>10. Keeps /\ HandlerInv'
  BY <1>2, <1>7, <1>8, <1>9, HandlersKeep DEF Keeps
<1>11. ASSUME NEW d \in Deliveries, NEW p \in Brokers,
              d \in done'[Owner[d]], d \notin done[Owner[d]], p # Owner[d]
       PROVE  Spread(d, p)'
  <2>1. Owner[d] \in Brokers
    BY OwnerLines
  <2>2. d \in R /\ Owner[d] = c.at
    BY <1>6, <1>11, <2>1
  <2>3. Spread(d, p)
    BY <1>5, <1>11, <2>2
  <2> QED BY <1>10, <1>11, <2>3, StaysSafe
<1>12. DoneSpreads'
  BY <1>10, <1>11, DoneSpreadsKept
<1>13. ASSUME NEW d \in c.ids PROVE Safe(d)'
  <2>1. CASE Owner[d] = c.at
    BY <1>6, <2>1 DEF Safe
  <2>2. CASE Safe(d)
    BY <1>5, <1>10, <2>2, StaysSafe
  <2> QED BY <1>5, <2>1, <2>2
<1>14. ClientInv'
  BY <1>2, <1>10, <1>13, AnswerKeeps
<1> QED BY <1>6, <1>9, <1>10, <1>12, <1>14 DEF Inv, OwnerInv

\* A broadcast only adds to the lines, and to a line of acks only what belongs there.
LEMMA BroadcastKeeps ==
  ASSUME Inv, NEW b \in Brokers, NEW k \in Kinds, NEW a \in Body, NEW reach, Broadcast(b, k, a, reach),
         UNCHANGED <<carry, sending, heard, verdict, pending, done>>,
         k = "ack" => \A d \in a.ids \cup a.cps : verdict[d] = "ack",
         k = "ack" => \A d \in a.cps : Owner[d] = b,
         missed' \in [Brokers -> SUBSET Deliveries], \A p \in Brokers : missed[p] \subseteq missed'[p]
  PROVE  /\ LinesKeep /\ VerdictsKeep /\ LinkInv'
         /\ \A p \in Brokers \ {b} : p \notin Refusing(b, k, a, reach) =>
              a.ids \subseteq IdsOn(<<<<b, p>>, k>>)' /\ a.cps \subseteq CpsOn(<<<<b, p>>, k>>)'
<1> USE DEF Inv, LinkInv
<1>1. /\ channel' \in [Lines -> Seq(Body)] /\ bytes' \in [Links -> Int] /\ ActionLedger'
      /\ \A n \in Lines : /\ IdsOn(n) \subseteq IdsOn(n)' /\ IdsOn(n)' \subseteq IdsOn(n) \cup a.ids
                          /\ CpsOn(n) \subseteq CpsOn(n)' /\ CpsOn(n)' \subseteq CpsOn(n) \cup a.cps
      /\ \A n \in Lines : n[1][1] # b \/ n[2] # k => IdsOn(n)' = IdsOn(n) /\ CpsOn(n)' = CpsOn(n)
      /\ \A p \in Brokers \ {b} : p \notin Refusing(b, k, a, reach) =>
           a.ids \subseteq IdsOn(<<<<b, p>>, k>>)' /\ a.cps \subseteq CpsOn(<<<<b, p>>, k>>)'
  BY BroadcastAdds
<1>2. \A l \in Links : <<l, "ack">> \in Lines /\ <<l, "ack">>[1] = l /\ <<l, "ack">>[2] = "ack"
  BY LineFacts DEF Kinds
<1>3. LinesKeep /\ VerdictsKeep
  BY <1>1, <1>2 DEF LinesKeep, VerdictsKeep
<1>4. LineDecided'
  <2> SUFFICES ASSUME NEW l \in Links, NEW d \in IdsOn(<<l, "ack">>)' \cup CpsOn(<<l, "ack">>)'
               PROVE  verdict[d] = "ack"
    BY DEF LineDecided
  <2>1. CASE d \in IdsOn(<<l, "ack">>) \cup CpsOn(<<l, "ack">>)
    BY <2>1 DEF LineDecided
  <2>2. CASE d \notin IdsOn(<<l, "ack">>) \cup CpsOn(<<l, "ack">>)
    <3>1. k = "ack" /\ d \in a.ids \cup a.cps
      BY <1>1, <1>2, <2>2
    <3> QED BY <3>1
  <2> QED BY <2>1, <2>2
<1>5. LineOwners'
  <2> SUFFICES ASSUME NEW l \in Links, NEW d \in CpsOn(<<l, "ack">>)' PROVE Owner[d] = l[1]
    BY DEF LineOwners
  <2>1. CASE d \in CpsOn(<<l, "ack">>)
    BY <2>1 DEF LineOwners
  <2>2. CASE d \notin CpsOn(<<l, "ack">>)
    <3>1. k = "ack" /\ l[1] = b /\ d \in a.cps
      BY <1>1, <1>2, <2>2
    <3> QED BY <3>1
  <2> QED BY <2>1, <2>2
<1>6. LinkTyped' /\ HeardApplied'
  <2>1. LinkTyped'
    BY <1>1 DEF LinkTyped
  <2>2. HeardApplied'
    BY DEF HeardApplied, Applied
  <2> QED BY <2>1, <2>2
<1> QED BY <1>1, <1>3, <1>4, <1>5, <1>6

\* What broadcastAction does for a completion: every peer's queue has its checkpoint or has missed it.
LEMMA BestEffortSpreads ==
  ASSUME Inv, NEW b \in Brokers, NEW cps \in SUBSET Deliveries, NEW reach,
         BestEffort(b, "ack", Act({}, cps), reach),
         UNCHANGED <<carry, sending, heard, verdict, pending, done>>,
         \A d \in cps : verdict[d] = "ack" /\ Owner[d] = b
  PROVE  /\ LinesKeep /\ VerdictsKeep /\ LinkInv'
         /\ \A d \in cps : \A p \in Brokers \ {b} : Queued(d, p)'
<1> DEFINE a == Act({}, cps)
<1>1. a \in Body /\ a.ids = {} /\ a.cps = cps
  BY ActTyped
<1>2. /\ Broadcast(b, "ack", a, reach)
      /\ missed' = [p \in Brokers |-> IF p \in Refusing(b, "ack", a, reach)
                                      THEN missed[p] \cup a.cps ELSE missed[p]]
  BY DEF BestEffort
<1> HIDE DEF a
<1>3. /\ missed' \in [Brokers -> SUBSET Deliveries] /\ \A p \in Brokers : missed[p] \subseteq missed'[p]
      /\ \A p \in Refusing(b, "ack", a, reach) : p \in Brokers => cps \subseteq missed'[p]
  <2>1. \A p \in Brokers : missed[p] \in SUBSET Deliveries
    BY DEF Inv, LinkInv, LinkTyped
  <2> QED BY <1>1, <1>2, <2>1
<1>4. "ack" \in Kinds
  BY DEF Kinds
<1>5. /\ LinesKeep /\ VerdictsKeep /\ LinkInv'
      /\ \A p \in Brokers \ {b} : p \notin Refusing(b, "ack", a, reach) =>
           a.ids \subseteq IdsOn(<<<<b, p>>, "ack">>)' /\ a.cps \subseteq CpsOn(<<<<b, p>>, "ack">>)'
  BY <1>1, <1>2, <1>3, <1>4, BroadcastKeeps
<1>6. ASSUME NEW d \in cps, NEW p \in Brokers \ {b} PROVE Queued(d, p)'
  <2>1. Owner[d] = b
    OBVIOUS
  <2>2. d \in missed'[p] \/ d \in CpsOn(<<<<b, p>>, "ack">>)'
    BY <1>1, <1>3, <1>5
  <2> QED BY <2>1, <2>2 DEF Queued
<1> QED BY <1>5, <1>6

\* The owner's handler passes its checkpoints on, and the client is answered.
LEMMA AckSpreadKeeps == ASSUME Inv, NEW c \in calls, AckSpread(c) PROVE Inv'
<1>1. c \in Request /\ Sound(c)
  BY DEF Inv, ClientInv, ClientTyped, CallsSound
<1>2. /\ c.kind = "ack" /\ c.phase = "completed" /\ Answer(c, TRUE) /\ UNCHANGED <<pending, done>>
      /\ \/ c.cps = {} /\ UNCHANGED <<channel, carry, sending, heard, serving, bytes, missed>>
         \/ /\ UNCHANGED <<carry, sending, heard, serving>>
            /\ \E reach : BestEffort(c.at, "ack", Act({}, c.cps), reach)
  BY DEF AckSpread, Handles, linkVars, ownerVars
<1>3. calls' = calls \ {c} /\ verdict' = verdict
  BY <1>2 DEF Answer
<1>4. /\ c.at \in Brokers /\ c.cps \in SUBSET Deliveries
      /\ (\A d \in c.cps : verdict[d] = "ack" /\ Owner[d] = c.at) /\ \A d \in c.ids : d \notin pending
  BY <1>1, <1>2 DEF Request, Sound, Decided, Reads, Completed
<1>5. /\ LinesKeep /\ VerdictsKeep /\ LinkInv' /\ UNCHANGED <<sending, serving>>
      /\ \A d \in c.cps : \A p \in Brokers \ {c.at} : Queued(d, p)'
  <2>1. CASE c.cps = {} /\ UNCHANGED <<channel, carry, sending, heard, serving, bytes, missed>>
    <3>1. VerdictsKeep
      BY <1>3 DEF VerdictsKeep
    <3> QED BY <1>2, <2>1, <3>1, QuietLines
  <2>2. ASSUME UNCHANGED <<carry, sending, heard, serving>>, NEW reach,
               BestEffort(c.at, "ack", Act({}, c.cps), reach)
        PROVE  /\ LinesKeep /\ VerdictsKeep /\ LinkInv' /\ UNCHANGED <<sending, serving>>
               /\ \A d \in c.cps : \A p \in Brokers \ {c.at} : Queued(d, p)'
    <3> DEFINE cps == c.cps
               b == c.at
    <3>1. /\ b \in Brokers /\ cps \in SUBSET Deliveries /\ BestEffort(b, "ack", Act({}, cps), reach)
          /\ \A d \in cps : verdict[d] = "ack" /\ Owner[d] = b
      BY <1>4, <2>2
    <3> HIDE DEF cps, b
    <3>2. /\ LinesKeep /\ VerdictsKeep /\ LinkInv'
          /\ \A d \in cps : \A p \in Brokers \ {b} : Queued(d, p)'
      BY <1>2, <1>3, <2>2, <3>1, BestEffortSpreads
    <3> QED BY <2>2, <3>2 DEF cps, b
  <2> QED BY <1>2, <2>1, <2>2
<1>6. SpreadingKeeps
  <2> SUFFICES ASSUME NEW d \in Deliveries, d \in Spreading(Owner[d])
               PROVE  d \in Spreading(Owner[d])' \/ \A p \in Brokers \ {Owner[d]} : Queued(d, p)'
    BY DEF SpreadingKeeps
  <2>1. \/ \E x \in calls : x.phase = "completed" /\ x.at = Owner[d] /\ d \in x.cps
        \/ \E h \in serving : h.line[1][2] = Owner[d] /\ d \in h.derived
    BY SpreadingFacts
  <2>2. CASE d \in c.cps
    BY <1>4, <1>5, <2>2
  <2>3. CASE d \notin c.cps
    <3>1. \/ \E x \in calls' : x.phase = "completed" /\ x.at = Owner[d] /\ d \in x.cps
          \/ \E h \in serving' : h.line[1][2] = Owner[d] /\ d \in h.derived
      BY <1>3, <1>5, <2>1, <2>3
    <3>2. d \in Spreading(Owner[d])'
      BY <3>1 DEF Spreading
    <3> QED BY <3>2
  <2> QED BY <2>2, <2>3
<1>7. Keeps
  BY <1>5, <1>6 DEF Keeps
<1>8. OwnerInv' /\ HandlerInv'
  BY <1>2, <1>5, <1>7, OwnerKeeps, HandlersKeep
<1>9. \A d \in c.ids : Safe(d)'
  BY <1>2, <1>4 DEF Safe
<1>10. ClientInv'
  BY <1>2, <1>7, <1>9, AnswerKeeps
<1> QED BY <1>5, <1>8, <1>10 DEF Inv

\* A request that ends or goes on without having completed anything here.
LEMMA OthersSpread ==
  ASSUME NEW c, c.phase # "completed", calls \ {c} \subseteq calls', serving' = serving
  PROVE  SpreadingKeeps
<1>1. \A x \in calls : x.phase = "completed" => x \in calls'
  OBVIOUS
<1>2. \A x \in calls : x.phase = "completed" =>
        \E y \in calls' : y.phase = "completed" /\ y.at = x.at /\ y.cps = x.cps
  BY <1>1
<1>3. \A h \in serving : h.derived # {} => \E g \in serving' : g.line = h.line /\ g.derived = h.derived
  OBVIOUS
<1> QED BY <1>2, <1>3, SpreadingStays

\* The request goes on every peer's queue, or the client is told that it failed.
LEMMA AckForwardKeeps == ASSUME Inv, NEW c \in calls, AckForward(c) PROVE Inv'
<1>1. c \in Request /\ Sound(c)
  BY DEF Inv, ClientInv, ClientTyped, CallsSound
<1>2. PICK reach :
        /\ c.kind = "ack" /\ c.phase = "read" /\ Broadcast(c.at, "ack", Act(c.ids, c.cps), reach)
        /\ \/ /\ Refusing(c.at, "ack", Act(c.ids, c.cps), reach) = {}
              /\ Continues(c, "forwarded", c.cps)
           \/ Answer(c, FALSE)
        /\ UNCHANGED <<pending, done, carry, sending, heard, serving, missed>>
  BY DEF AckForward, Handles, ownerVars
<1>3. /\ c.at \in Brokers /\ c.ids \in SUBSET Deliveries /\ c.cps \in SUBSET Deliveries
      /\ (\A d \in c.ids : verdict[d] = "ack") /\ (\A d \in c.cps : d \in c.ids /\ Owner[d] = c.at)
      /\ Removed(c.at, c.ids) \subseteq c.cps
  BY <1>1, <1>2 DEF Request, Sound, Decided, Reads
<1>4. UNCHANGED <<verdict, repeats>> /\ calls \ {c} \subseteq calls'
  BY <1>2 DEF Answer, Continues
<1>5. PICK g \in Brokers, m \in Body :
        g = c.at /\ m = Act(c.ids, c.cps) /\ m.ids = c.ids /\ m.cps = c.cps
  BY <1>3, ActTyped
<1>6. /\ LinesKeep /\ VerdictsKeep /\ LinkInv'
      /\ \A p \in Brokers \ {g} : p \notin Refusing(g, "ack", m, reach) =>
           m.ids \subseteq IdsOn(<<<<g, p>>, "ack">>)' /\ m.cps \subseteq CpsOn(<<<<g, p>>, "ack">>)'
  <2>1. (\A d \in m.ids \cup m.cps : verdict[d] = "ack") /\ \A d \in m.cps : Owner[d] = g
    BY <1>3, <1>5
  <2>2. "ack" \in Kinds /\ Broadcast(g, "ack", m, reach)
    BY <1>2, <1>5 DEF Kinds
  <2>3. UNCHANGED <<carry, sending, heard, verdict, pending, done>>
    BY <1>2, <1>4
  <2>4. missed' \in [Brokers -> SUBSET Deliveries] /\ \A p \in Brokers : missed[p] \subseteq missed'[p]
    BY <1>2 DEF Inv, LinkInv, LinkTyped
  <2> QED BY ONLY Inv, <2>1, <2>2, <2>3, <2>4, BroadcastKeeps
<1>7. SpreadingKeeps
  BY <1>2, <1>4, OthersSpread
<1>8. Keeps
  BY <1>6, <1>7 DEF Keeps
<1>9. OwnerInv' /\ HandlerInv'
  BY <1>2, <1>6, <1>8, OwnerKeeps, HandlersKeep
<1>10. ASSUME Answer(c, FALSE) PROVE ClientInv'
  BY <1>8, <1>10, AnswerKeeps
<1>11. ASSUME Refusing(c.at, "ack", Act(c.ids, c.cps), reach) = {}, Continues(c, "forwarded", c.cps)
       PROVE  ClientInv'
  <2>1. PICK e \in Request : /\ calls' = (calls \ {c}) \cup {e} /\ UNCHANGED <<worker, verdict, repeats>>
                             /\ e.phase = "forwarded" /\ e.cps = c.cps
                             /\ e.kind = c.kind /\ e.at = c.at /\ e.ids = c.ids
    BY <1>1, <1>3, <1>11, ContinuesFacts DEF Phases
  <2>2. \A p \in Brokers \ {g} :
          m.ids \subseteq IdsOn(<<<<g, p>>, "ack">>)' /\ m.cps \subseteq CpsOn(<<<<g, p>>, "ack">>)'
    <3>1. Refusing(g, "ack", m, reach) = {}
      BY <1>5, <1>11
    <3> QED BY ONLY <1>6, <3>1
  <2>3. Decided(e)' /\ Completed(e)'
    BY <1>1, <2>1 DEF Sound, Decided, Completed
  <2>4. Reads(e)'
    BY <1>2, <1>3, <2>1 DEF Reads, Removed, Mine
  <2>5. ASSUME NEW d \in c.ids PROVE Owner[d] = g \/ Safe(d)'
    <3>1. Owner[d] \in Brokers
      BY <1>3, OwnerLines
    <3>2. Owner[d] # g => d \in IdsOn(<<<<g, Owner[d]>>, "ack">>)'
      BY <1>5, <2>2, <2>5, <3>1
    <3> QED BY <1>5, <3>2 DEF Safe
  <2>6. ASSUME NEW d \in c.cps, NEW p \in Brokers \ {g} PROVE Spread(d, p)'
    <3>1. d \in CpsOn(<<<<g, p>>, "ack">>)' /\ Owner[d] = g
      BY <1>3, <1>5, <2>2, <2>6
    <3> QED BY <3>1 DEF Spread, Queued
  <2>7. Forwarded(e)'
    BY <1>5, <2>1, <2>5, <2>6 DEF Forwarded
  <2>8. Sound(e)'
    BY <2>3, <2>4, <2>7 DEF Sound
  <2> QED BY <1>8, <2>1, <2>8, ContinuesKeeps
<1> QED BY <1>2, <1>6, <1>9, <1>10, <1>11 DEF Inv

\* A nack goes on the peers' queues, and the client is told whether all took it.
LEMMA NackForwardKeeps == ASSUME Inv, NEW c \in calls, NackForward(c) PROVE Inv'
<1>1. c \in Request
  BY DEF Inv, ClientInv, ClientTyped
<1>0. PICK reach :
        /\ c.kind = "nack" /\ c.phase = "read" /\ Broadcast(c.at, "nack", Act(c.ids, {}), reach)
        /\ Answer(c, Refusing(c.at, "nack", Act(c.ids, {}), reach) = {})
        /\ UNCHANGED <<pending, done, carry, sending, heard, serving, missed>>
  BY DEF NackForward, Handles, ownerVars
<1>2. PICK ok \in BOOLEAN :
        /\ c.kind = "nack" /\ c.phase = "read" /\ Broadcast(c.at, "nack", Act(c.ids, {}), reach)
        /\ Answer(c, ok) /\ UNCHANGED <<pending, done, carry, sending, heard, serving, missed>>
  BY <1>0
<1>3. calls' = calls \ {c} /\ verdict' = verdict
  BY <1>2 DEF Answer
<1>4. PICK g \in Brokers, m \in Body : g = c.at /\ m = Act(c.ids, {})
  BY <1>1, ActTyped DEF Request
<1>5. LinesKeep /\ VerdictsKeep /\ LinkInv'
  <2>1. "nack" \in Kinds /\ Broadcast(g, "nack", m, reach)
    BY <1>2, <1>4 DEF Kinds
  <2>2. UNCHANGED <<carry, sending, heard, verdict, pending, done>>
    BY <1>2, <1>3
  <2>3. missed' \in [Brokers -> SUBSET Deliveries] /\ \A p \in Brokers : missed[p] \subseteq missed'[p]
    BY <1>2 DEF Inv, LinkInv, LinkTyped
  <2> QED BY <2>1, <2>2, <2>3, BroadcastKeeps
<1>6. SpreadingKeeps
  BY <1>2, <1>3, OthersSpread
<1>7. Keeps
  BY <1>5, <1>6 DEF Keeps
<1>8. OwnerInv' /\ HandlerInv'
  BY <1>2, <1>5, <1>7, OwnerKeeps, HandlersKeep
<1>9. ClientInv'
  BY <1>2, <1>7, AnswerKeeps
<1> QED BY <1>5, <1>8, <1>9 DEF Inv

-----------------------------------------------------------------------------
(* Steps of actionLoop.                                                     *)

\* actionLoop takes what waits into a request.
LEMMA TakeKeeps == ASSUME Inv, NEW n \in Lines, Take(n) PROVE Inv'
<1> USE DEF LinkInv
<1>1. /\ LinkTyped' /\ (\A o \in Lines : IdsOn(o)' = IdsOn(o) /\ CpsOn(o)' = CpsOn(o) /\ Held(o)' = Held(o))
      /\ (\A o \in Lines : o # n => sending'[o] = sending[o]) /\ sending[n] = Nothing
  BY TakeMoves DEF Inv
<1>2. /\ UNCHANGED <<clientVars, pending, due, done, heard, serving, bytes, missed>>
      /\ UNCHANGED <<verdict, calls>>
  BY DEF Take, ownerVars, clientVars
<1>3. \A l \in Links : <<l, "ack">> \in Lines /\ <<l, "nack">> \in Lines
  BY LineFacts DEF Kinds
<1>4. LinesKeep /\ VerdictsKeep
  BY <1>1, <1>2, <1>3 DEF LinesKeep, VerdictsKeep
<1>5. Keeps
  BY <1>2, <1>4, SameSpread DEF Keeps
<1>6. n \notin heard /\ heard \subseteq Lines
  BY <1>1 DEF Inv, HeardApplied, Applied, LinkTyped
<1>7. HeardApplied'
  BY <1>1, <1>2, <1>6 DEF Inv, HeardApplied, Applied
<1>8. LineDecided' /\ LineOwners' /\ ActionLedger'
  BY <1>1, <1>2, <1>3 DEF Inv, LineDecided, LineOwners, ActionLedger
<1>9. HandlerInv'
  <2>1. ASSUME NEW h \in serving PROVE h \in Handler /\ Serves(h)' /\ Tracks(h)'
    <3>1. h \in Handler /\ h.line \in Lines /\ Tracks(h)
      BY DEF Inv, HandlerInv, Handler
    <3>2. h.awaited => h.awaited /\ sending'[h.line] = sending[h.line]
      BY <1>1, <3>1 DEF Tracks
    <3> QED BY <1>4, <3>1, <3>2, ServesStays
  <2> QED BY <1>2, <2>1 DEF HandlerInv
<1> QED BY <1>1, <1>2, <1>5, <1>7, <1>8, <1>9, OwnerKeeps, ClientKeeps DEF Inv

\* The handlers of a sender that no longer waits are as they were.
LEMMA AbandonedFacts ==
  ASSUME NEW n, serving \subseteq Handler
  PROVE  /\ \A g \in Abandoned(n) : \E h \in serving :
              /\ g \in Handler /\ g.line = h.line /\ g.ids = h.ids /\ g.derived = h.derived
              /\ g.cps = h.cps /\ (g.awaited => h.awaited /\ h.line # n)
         /\ \A h \in serving : \E g \in Abandoned(n) : g.line = h.line /\ g.derived = h.derived
<1> DEFINE W(h) == IF h.line = n THEN [h EXCEPT !.awaited = FALSE] ELSE h
<1>1. ASSUME NEW h \in serving
      PROVE  /\ W(h) \in Handler /\ W(h).line = h.line /\ W(h).ids = h.ids /\ W(h).derived = h.derived
             /\ W(h).cps = h.cps /\ (W(h).awaited => h.awaited /\ h.line # n)
  <2>1. h \in Handler
    OBVIOUS
  <2> QED BY <2>1 DEF Handler
<1>2. Abandoned(n) = {W(h) : h \in serving}
  BY DEF Abandoned
<1> HIDE DEF W
<1> QED BY <1>1, <1>2

\* So they keep what they are to pass on.
LEMMA AbandonedSpreads ==
  ASSUME NEW n, serving \subseteq Handler, calls' = calls, Abandoned(n) \subseteq serving'
  PROVE  SpreadingKeeps
<1>1. \A x \in calls : x.phase = "completed" =>
        \E y \in calls' : y.phase = "completed" /\ y.at = x.at /\ y.cps = x.cps
  OBVIOUS
<1>2. \A h \in serving : h.derived # {} => \E g \in serving' : g.line = h.line /\ g.derived = h.derived
  BY AbandonedFacts
<1> QED BY <1>1, <1>2, SpreadingStays

\* And they serve as they did.
LEMMA AbandonedServe ==
  ASSUME Inv, LinesKeep, VerdictsKeep, NEW n \in Lines, NEW g \in Abandoned(n),
         \A o \in Lines : o # n => sending'[o] = sending[o]
  PROVE  g \in Handler /\ Serves(g)' /\ Tracks(g)'
<1>1. serving \subseteq Handler
  BY DEF Inv, HandlerInv
<1>2. PICK h \in serving :
        /\ g \in Handler /\ g.line = h.line /\ g.ids = h.ids /\ g.derived = h.derived
        /\ g.cps = h.cps /\ (g.awaited => h.awaited /\ h.line # n)
  BY <1>1, AbandonedFacts
<1>3. h.line \in Lines
  BY <1>1 DEF Handler
<1>4. g.awaited => h.awaited /\ sending'[h.line] = sending[h.line]
  BY <1>2, <1>3
<1> QED BY <1>2, <1>4, ServesStays

\* A request that ends takes from its line only what its peer has handled or is counted as missed.
LEMMA FinishedKeeps ==
  ASSUME Inv, NEW n \in Lines, Drop(n) \/ Answered(n)
  PROVE  Inv'
<1> USE DEF LinkInv
<1>1. /\ Finished(n) /\ UNCHANGED <<channel, carry>> /\ UNCHANGED <<clientVars, pending, due, done>>
      /\ UNCHANGED <<verdict, calls>>
  BY DEF Drop, Answered, ownerVars, clientVars
<1>2. /\ sending' \in [Lines -> Body] /\ bytes' \in [Links -> Int] /\ heard' = heard \ {n} /\ ActionLedger'
      /\ \A o \in Lines : IdsOn(o)' \subseteq IdsOn(o) /\ CpsOn(o)' \subseteq CpsOn(o)
      /\ IdsOn(n) \subseteq IdsOn(n)' \cup sending[n].ids /\ CpsOn(n) \subseteq CpsOn(n)' \cup sending[n].cps
      /\ \A o \in Lines : o # n => /\ IdsOn(o)' = IdsOn(o) /\ CpsOn(o)' = CpsOn(o)
                                   /\ sending'[o] = sending[o]
  BY <1>1, FinishedRemoves DEF Inv
<1>3. /\ \A l \in Links : <<l, "ack">> \in Lines /\ <<l, "nack">> \in Lines
      /\ n[1] \in Links /\ n[1][2] \in Brokers /\ n = <<n[1], n[2]>>
  BY LineFacts DEF Kinds
<1>4. sending[n].ids \subseteq Deliveries /\ sending[n].cps \subseteq Deliveries
  BY DEF Inv, LinkTyped, Body
<1>5. ASSUME Drop(n) PROVE LinesKeep /\ missed' \in [Brokers -> SUBSET Deliveries]
  <2>1. missed' = [missed EXCEPT ![n[1][2]] = @ \cup sending[n].ids \cup sending[n].cps]
    BY <1>5 DEF Drop
  <2>2. /\ missed' \in [Brokers -> SUBSET Deliveries] /\ \A p \in Brokers : missed[p] \subseteq missed'[p]
        /\ sending[n].ids \subseteq missed'[n[1][2]] /\ sending[n].cps \subseteq missed'[n[1][2]]
    BY <1>3, <1>4, <2>1 DEF Inv, LinkTyped
  <2>3. ASSUME NEW l \in Links
        PROVE  /\ \A d \in IdsOn(<<l, "ack">>) : d \in IdsOn(<<l, "ack">>)' \/ d \in missed'[l[2]]
               /\ \A d \in CpsOn(<<l, "ack">>) : d \in CpsOn(<<l, "ack">>)' \/ d \in missed'[l[2]]
    <3>1. CASE n = <<l, "ack">>
      <4>1. n[1] = l
        BY <3>1
      <4> QED BY <1>2, <2>2, <3>1, <4>1
    <3>2. CASE n # <<l, "ack">>
      BY <1>2, <1>3, <3>2
    <3> QED BY <3>1, <3>2
  <2> QED BY <1>1, <2>2, <2>3 DEF LinesKeep
<1>6. ASSUME Answered(n) PROVE LinesKeep /\ missed' \in [Brokers -> SUBSET Deliveries]
  <2>1. missed' = missed /\ n \in heard
    BY <1>6 DEF Answered
  <2>2. ASSUME NEW l \in Links
        PROVE  /\ \A d \in IdsOn(<<l, "ack">>) : d \in IdsOn(<<l, "ack">>)' \/ (Owner[d] = l[2] => d \notin pending')
               /\ \A d \in CpsOn(<<l, "ack">>) : d \in CpsOn(<<l, "ack">>)' \/ d \in done'[l[2]]
    <3>1. CASE n = <<l, "ack">>
      <4>1. n[1] = l /\ n[2] = "ack" /\ Applied(n)
        BY <2>1, <3>1 DEF Inv, HeardApplied
      <4>2. /\ sending[n].cps \subseteq done[l[2]]
            /\ \A d \in sending[n].ids : Owner[d] = l[2] => d \notin pending
        BY <4>1 DEF Applied
      <4> QED BY <1>1, <1>2, <3>1, <4>2
    <3>2. CASE n # <<l, "ack">>
      BY <1>2, <1>3, <3>2
    <3> QED BY <3>1, <3>2
  <2> QED BY <1>1, <2>1, <2>2 DEF Inv, LinesKeep, LinkTyped
<1>7. LinesKeep /\ missed' \in [Brokers -> SUBSET Deliveries]
  BY <1>5, <1>6
<1>8. LinkTyped'
  BY <1>1, <1>2, <1>7 DEF Inv, LinkTyped
<1>9. HeardApplied'
  BY <1>1, <1>2 DEF Inv, HeardApplied, Applied, LinkTyped
<1>10. LineDecided' /\ LineOwners'
  BY <1>1, <1>2, <1>3 DEF Inv, LineDecided, LineOwners
<1>11. serving' = Abandoned(n) /\ serving \subseteq Handler
  BY <1>1 DEF Finished, Inv, HandlerInv
<1>12. VerdictsKeep
  BY <1>1 DEF VerdictsKeep
<1>13. Keeps
  BY <1>1, <1>7, <1>11, <1>12, AbandonedSpreads DEF Keeps
<1>14. HandlerInv'
  BY <1>2, <1>7, <1>11, <1>12, AbandonedServe DEF HandlerInv
<1> QED BY <1>1, <1>2, <1>8, <1>9, <1>10, <1>13, <1>14, OwnerKeeps, ClientKeeps DEF Inv

-----------------------------------------------------------------------------
(* Steps of the internal endpoints.                                         *)

\* A peer gets a request: what it holds is what is being sent.
LEMMA ArrivesKeeps == ASSUME Inv, NEW n \in Lines, Arrives(n) PROVE Inv'
<1>1. PICK g : /\ g = [line |-> n, ids |-> sending[n].ids, derived |-> {}, cps |-> sending[n].cps,
                       awaited |-> TRUE]
               /\ serving' = Abandoned(n) \cup {g}
  BY DEF Arrives
<1>2. /\ sending[n] # Nothing /\ heard' = heard \ {n}
      /\ UNCHANGED <<clientVars, pending, done, channel, carry, sending, bytes, missed>>
      /\ UNCHANGED <<verdict, calls>>
  BY DEF Arrives, ownerVars, clientVars
<1>3. sending[n] \in Body /\ LinkTyped
  BY DEF Inv, LinkInv, LinkTyped
<1>4. /\ g \in Handler /\ g.line = n /\ g.ids = sending[n].ids /\ g.derived = {} /\ g.cps = sending[n].cps
  BY <1>1, <1>3 DEF Handler, Body
<1>5. VerdictsKeep
  BY <1>2 DEF VerdictsKeep
<1>6. LinesKeep /\ LinkInv'
  BY <1>2, <1>5, QuietLines
<1>7. serving \subseteq Handler
  BY DEF Inv, HandlerInv
<1>8. Keeps
  BY <1>1, <1>2, <1>5, <1>6, <1>7, AbandonedSpreads DEF Keeps
<1>9. Serves(g)'
  <2>1. n[1] \in Links /\ n = <<n[1], n[2]>>
    BY LineFacts
  <2>2. sending[n].ids \subseteq IdsOn(n) /\ sending[n].cps \subseteq CpsOn(n)
    BY <1>3, OnLine
  <2>3. ASSUME n[2] = "ack"
        PROVE  /\ \A d \in sending[n].ids \cup sending[n].cps : verdict[d] = "ack"
               /\ \A d \in sending[n].cps : Owner[d] = n[1][1]
    <3>1. n = <<n[1], "ack">>
      BY <2>1, <2>3
    <3>2. /\ \A d \in IdsOn(n) \cup CpsOn(n) : verdict[d] = "ack"
          /\ \A d \in CpsOn(n) : Owner[d] = n[1][1]
      BY <2>1, <3>1 DEF Inv, LinkInv, LineDecided, LineOwners
    <3> QED BY <2>2, <3>2
  <2> QED BY <1>2, <1>4, <2>3 DEF Serves
<1>10. Tracks(g)'
  BY <1>2, <1>4 DEF Tracks
<1>11. HandlerInv'
  <2>1. \A x \in Abandoned(n) : x \in Handler /\ Serves(x)' /\ Tracks(x)'
    BY <1>2, <1>5, <1>6, AbandonedServe
  <2> QED BY <1>1, <1>4, <1>9, <1>10, <2>1 DEF HandlerInv
<1> QED BY <1>2, <1>6, <1>8, <1>11, OwnerKeeps, ClientKeeps DEF Inv

\* A handler that goes on keeps what it is to pass on, or has nothing.
LEMMA MovesSpreads ==
  ASSUME calls' = calls, NEW h, serving \ {h} \subseteq serving', h.derived = {}
  PROVE  SpreadingKeeps
<1>1. \A x \in calls : x.phase = "completed" =>
        \E y \in calls' : y.phase = "completed" /\ y.at = x.at /\ y.cps = x.cps
  OBVIOUS
<1>2. \A x \in serving : x.derived # {} => x \in serving'
  OBVIOUS
<1>3. \A x \in serving : x.derived # {} => \E g \in serving' : g.line = x.line /\ g.derived = x.derived
  BY <1>2
<1> QED BY <1>1, <1>3, SpreadingStays

\* A peer completes what it owns, and is to pass the checkpoints on.
LEMMA InternalRemoveKeeps == ASSUME Inv, NEW h \in serving, InternalRemove(h) PROVE Inv'
<1> DEFINE b == h.line[1][2]
<1>1. h \in Handler /\ OwnerTyped /\ Serves(h) /\ Tracks(h)
  BY DEF Inv, HandlerInv, OwnerInv
<1>2. h.line \in Lines /\ b \in Brokers /\ h.ids \in SUBSET Deliveries
  BY <1>1, LineFacts DEF Handler
<1>3. PICK R \in SUBSET Deliveries : R = Removed(b, h.ids)
  BY <1>1, RemovedFacts
<1>4. PICK g : /\ g = [h EXCEPT !.ids = {}, !.derived = R]
               /\ serving' = (serving \ {h}) \cup {g}
  BY <1>3 DEF InternalRemove, Moves, Derived
<1>5. /\ h.line[2] = "ack" /\ h.ids # {} /\ RemoveAcks(b, h.ids)
      /\ UNCHANGED <<clientVars, heard, channel, carry, sending, bytes, missed>> /\ UNCHANGED <<verdict, calls>>
  BY DEF InternalRemove, Moves, clientVars
<1>6. /\ g \in Handler /\ g.line = h.line /\ g.ids = {} /\ g.derived = R /\ g.cps = h.cps
      /\ g.awaited = h.awaited
  BY <1>1, <1>4 DEF Handler
<1> HIDE DEF b
<1>7. (\A d \in h.ids \cup h.cps : verdict[d] = "ack") /\ (\A d \in h.cps : Owner[d] = h.line[1][1])
      /\ h.derived = {}
  BY <1>1, <1>5 DEF Serves
<1>8. /\ OwnerTyped' /\ OnlyAcked' /\ pending' \subseteq pending
      /\ \A p \in Brokers : done[p] \subseteq done'[p]
      /\ \A d \in h.ids : Owner[d] = b => d \notin pending'
      /\ \A d \in Deliveries, p \in Brokers : d \in done'[p] => d \in done[p] \/ (p = b /\ d \in R)
  BY <1>2, <1>3, <1>5, <1>7, RemoveAcksFacts
<1>9. VerdictsKeep
  BY <1>5 DEF VerdictsKeep
<1>10. LinesKeep /\ LinkInv'
  BY <1>5, <1>8, <1>9, QuietLines
<1>11. SpreadingKeeps
  BY <1>4, <1>5, <1>7, MovesSpreads
<1>12. Keeps
  BY <1>9, <1>10, <1>11 DEF Keeps
<1>13. \A d \in R : d \in h.ids /\ Owner[d] = b
  BY <1>1, <1>3, RemovedFacts
<1>14. Serves(g)'
  BY <1>5, <1>6, <1>7, <1>13 DEF Serves, b
<1>15. Tracks(g)'
  BY <1>1, <1>5, <1>6, <1>8 DEF Tracks, b
<1>16. HandlerInv'
  <2>1. {g} \in SUBSET Handler /\ serving' \subseteq serving \cup {g} /\ \A x \in {g} : Serves(x)' /\ Tracks(x)'
    BY <1>4, <1>6, <1>14, <1>15
  <2> QED BY <1>5, <1>9, <1>10, <2>1, HandlerStep
<1>17. ASSUME NEW d \in Deliveries, NEW p \in Brokers,
              d \in done'[Owner[d]], d \notin done[Owner[d]], p # Owner[d]
       PROVE  Spread(d, p)'
  <2>1. Owner[d] \in Brokers
    BY OwnerLines
  <2>2. d \in R /\ Owner[d] = b
    BY <1>8, <1>17, <2>1
  <2>3. \E x \in serving' : x.line[1][2] = Owner[d] /\ d \in x.derived
    BY <1>4, <1>6, <2>2 DEF b
  <2>4. d \in Spreading(Owner[d])'
    BY <2>3 DEF Spreading
  <2> QED BY <2>4 DEF Spread
<1>18. DoneSpreads'
  BY <1>12, <1>17, DoneSpreadsKept
<1> QED BY <1>5, <1>8, <1>10, <1>12, <1>16, <1>18, ClientKeeps DEF Inv, OwnerInv

\* A peer passes on what it completed.
LEMMA InternalSpreadKeeps == ASSUME Inv, NEW h \in serving, InternalSpread(h) PROVE Inv'
<1>1. h \in Handler /\ Serves(h) /\ Tracks(h)
  BY DEF Inv, HandlerInv
<1>2. PICK b \in Brokers, cps \in SUBSET Deliveries : b = h.line[1][2] /\ cps = h.derived
  BY <1>1, LineFacts DEF Handler
<1>3. PICK reach : BestEffort(b, "ack", Act({}, cps), reach)
  BY <1>2 DEF InternalSpread
<1>4. PICK g : g = [h EXCEPT !.derived = {}] /\ serving' = (serving \ {h}) \cup {g}
  BY DEF InternalSpread, Moves
<1>5. /\ UNCHANGED <<clientVars, heard, pending, done, carry, sending>> /\ UNCHANGED <<verdict, calls>>
  BY DEF InternalSpread, Moves, clientVars, ownerVars
<1>6. /\ g \in Handler /\ g.line = h.line /\ g.ids = h.ids /\ g.derived = {} /\ g.cps = h.cps
      /\ g.awaited = h.awaited
  BY <1>1, <1>4 DEF Handler
<1>7. \A d \in cps : verdict[d] = "ack" /\ Owner[d] = b
  BY <1>1, <1>2 DEF Serves
<1>8. /\ LinesKeep /\ VerdictsKeep /\ LinkInv'
      /\ \A d \in cps : \A p \in Brokers \ {b} : Queued(d, p)'
  BY <1>3, <1>5, <1>7, BestEffortSpreads
<1>9. SpreadingKeeps
  <2> SUFFICES ASSUME NEW d \in Deliveries, d \in Spreading(Owner[d])
               PROVE  d \in Spreading(Owner[d])' \/ \A p \in Brokers \ {Owner[d]} : Queued(d, p)'
    BY DEF SpreadingKeeps
  <2>1. \/ \E x \in calls : x.phase = "completed" /\ x.at = Owner[d] /\ d \in x.cps
        \/ \E x \in serving : x.line[1][2] = Owner[d] /\ d \in x.derived
    BY SpreadingFacts
  <2>2. CASE d \in cps
    BY <1>7, <1>8, <2>2
  <2>3. CASE d \notin cps
    <3>1. \/ \E x \in calls' : x.phase = "completed" /\ x.at = Owner[d] /\ d \in x.cps
          \/ \E x \in serving' : x.line[1][2] = Owner[d] /\ d \in x.derived
      BY <1>2, <1>4, <1>5, <2>1, <2>3
    <3>2. d \in Spreading(Owner[d])'
      BY <3>1 DEF Spreading
    <3> QED BY <3>2
  <2> QED BY <2>2, <2>3
<1>10. Keeps
  BY <1>8, <1>9 DEF Keeps
<1>11. Serves(g)' /\ Tracks(g)'
  BY <1>1, <1>5, <1>6 DEF Serves, Tracks
<1>12. HandlerInv'
  <2>1. {g} \in SUBSET Handler /\ serving' \subseteq serving \cup {g} /\ \A x \in {g} : Serves(x)' /\ Tracks(x)'
    BY <1>4, <1>6, <1>11
  <2> QED BY <1>5, <1>8, <2>1, HandlerStep
<1> QED BY <1>5, <1>8, <1>10, <1>12, OwnerKeeps, ClientKeeps DEF Inv

\* A handler that has answered is no more.
LEMMA RepliesHandlers ==
  ASSUME Inv, LinesKeep, VerdictsKeep, NEW h, serving' = serving \ {h}, sending' = sending
  PROVE  HandlerInv'
<1>1. {} \in SUBSET Handler /\ serving' \subseteq serving \cup {} /\ \A x \in {} : Serves(x)' /\ Tracks(x)'
  OBVIOUS
<1> QED BY <1>1, HandlerStep

\* A peer takes the sender's checkpoints and answers.
LEMMA InternalApplyKeeps == ASSUME Inv, NEW h \in serving, InternalApply(h) PROVE Inv'
<1> DEFINE n == h.line
           b == n[1][2]
<1>1. h \in Handler /\ Serves(h) /\ Tracks(h) /\ OwnerTyped
  BY DEF Inv, HandlerInv, OwnerInv
<1>2. /\ n \in Lines /\ b \in Brokers /\ n[1][1] # b /\ h.cps \in SUBSET Deliveries
  BY <1>1, LineFacts DEF Handler
<1>3. /\ n[2] = "ack" /\ h.ids = {} /\ h.derived = {} /\ done' = [done EXCEPT ![b] = @ \cup h.cps]
      /\ serving' = serving \ {h} /\ heard' = (IF h.awaited THEN heard \cup {n} ELSE heard)
      /\ UNCHANGED <<clientVars, pending, channel, carry, sending, bytes, missed>> /\ UNCHANGED <<verdict, calls>>
  BY DEF InternalApply, Replies, clientVars
<1>4. (\A d \in h.cps : verdict[d] = "ack" /\ Owner[d] = n[1][1])
  BY <1>1, <1>3 DEF Serves
<1>5. /\ h.awaited => /\ sending[n] # Nothing /\ h.cps = sending[n].cps
                      /\ \A d \in sending[n].ids : Owner[d] = b => d \notin pending
  BY <1>1, <1>3 DEF Tracks
<1> HIDE DEF n, b
<1>6. done'[b] = done[b] \cup h.cps /\ \A p \in Brokers : p # b => done'[p] = done[p]
  BY <1>1, <1>2, <1>3 DEF OwnerTyped
<1>7. OwnerTyped' /\ OnlyAcked' /\ \A p \in Brokers : done[p] \subseteq done'[p]
  <2>1. OwnerTyped'
    BY <1>1, <1>2, <1>3 DEF OwnerTyped
  <2>2. OnlyAcked'
    BY <1>3, <1>4, <1>6 DEF OnlyAcked, Inv, OwnerInv
  <2> QED BY <1>6, <2>1, <2>2
<1>8. VerdictsKeep
  BY <1>3 DEF VerdictsKeep
<1>9. \A m \in heard' : m \in heard \/ (m \in Lines /\ Applied(m)')
  <2>1. ASSUME h.awaited PROVE Applied(n)'
    BY <1>3, <1>5, <1>6, <2>1 DEF Applied, b
  <2> QED BY <1>2, <1>3, <2>1
<1>10. LinesKeep /\ LinkInv'
  BY <1>3, <1>7, <1>8, <1>9, QuietLines
<1>11. SpreadingKeeps
  BY <1>3, MovesSpreads
<1>12. Keeps
  BY <1>8, <1>10, <1>11 DEF Keeps
<1>13. ASSUME NEW d \in Deliveries, d \in done'[Owner[d]] PROVE d \in done[Owner[d]]
  <2>1. Owner[d] \in Brokers
    BY OwnerLines
  <2> QED BY <1>2, <1>4, <1>6, <1>13, <2>1
<1>14. DoneSpreads'
  BY <1>12, <1>13, DoneSpreadsKept
<1>15. HandlerInv'
  BY <1>3, <1>8, <1>10, RepliesHandlers
<1> QED BY <1>3, <1>7, <1>10, <1>12, <1>14, <1>15, ClientKeeps DEF Inv, OwnerInv

\* A peer that gets a nack completes nothing.
LEMMA InternalNackKeeps == ASSUME Inv, NEW h \in serving, InternalNack(h) PROVE Inv'
<1> DEFINE n == h.line
<1>1. h \in Handler /\ Serves(h) /\ Tracks(h)
  BY DEF Inv, HandlerInv
<1>2. n \in Lines
  BY <1>1 DEF Handler
<1>3. /\ n[2] = "nack" /\ serving' = serving \ {h} /\ heard' = (IF h.awaited THEN heard \cup {n} ELSE heard)
      /\ UNCHANGED <<clientVars, pending, done, channel, carry, sending, bytes, missed>>
      /\ UNCHANGED <<verdict, calls>>
  BY DEF InternalNack, HandleNack, Replies, clientVars
<1>4. h.awaited => sending[n] # Nothing
  BY <1>1 DEF Tracks
<1> HIDE DEF n
<1>5. VerdictsKeep
  BY <1>3 DEF VerdictsKeep
<1>6. \A m \in heard' : m \in heard \/ (m \in Lines /\ Applied(m)')
  BY <1>2, <1>3, <1>4 DEF Applied
<1>7. LinesKeep /\ LinkInv'
  BY <1>3, <1>5, <1>6, QuietLines
<1>8. h.derived = {}
  BY <1>1, <1>3 DEF n, Serves
<1>9. SpreadingKeeps
  BY <1>3, <1>8, MovesSpreads
<1>10. Keeps
  BY <1>5, <1>7, <1>9 DEF Keeps
<1>11. HandlerInv'
  BY <1>3, <1>5, <1>7, RepliesHandlers
<1> QED BY <1>3, <1>7, <1>10, <1>11, OwnerKeeps, ClientKeeps DEF Inv

-----------------------------------------------------------------------------

\* In the state that New leaves behind nothing waits anywhere, and the invariant holds.
LEMMA Initially == Init => Inv
<1> SUFFICES ASSUME Init PROVE Inv
  OBVIOUS
<1> USE DEF Init
<1>1. ClientTyped /\ OwnerTyped
  BY DEF ClientTyped, OwnerTyped, WorkerStates
<1>2. LinkTyped
  BY NothingTyped DEF LinkTyped
<1>3. \A n \in Lines : IdsOn(n) = {} /\ CpsOn(n) = {} /\ Held(n) = 0
  <2> TAKE n \in Lines
  <2>1. channel[n] = <<>> /\ Len(channel[n]) = 0 /\ carry[n] = Nothing /\ sending[n] = Nothing
    OBVIOUS
  <2>2. \A d : d \notin IdsOn(n) /\ d \notin CpsOn(n)
    BY <1>2, <2>1, OnLine, NothingTyped
  <2>3. Bytes(channel[n], Len(channel[n])) = 0
    BY <1>2, <2>1, BytesOfFew DEF LinkTyped
  <2> QED BY <2>1, <2>2, <2>3, NothingTyped DEF Held
<1>4. \A l \in Links : <<l, "ack">> \in Lines /\ <<l, "nack">> \in Lines
  BY LineFacts DEF Kinds
<1>5. Undecided /\ CallsSound /\ ConfirmedSafe
  BY DEF Undecided, CallsSound, ConfirmedSafe
<1>6. OnlyAcked /\ DoneSpreads
  BY CompletionsTyped DEF OnlyAcked, DoneSpreads
<1>7. LineDecided /\ LineOwners /\ HeardApplied /\ HandlerInv
  <2>1. LineDecided /\ LineOwners
    BY <1>3, <1>4 DEF LineDecided, LineOwners
  <2>2. HeardApplied /\ HandlerInv
    BY DEF HeardApplied, HandlerInv
  <2> QED BY <2>1, <2>2
<1>8. ActionLedger
  <2> SUFFICES ASSUME NEW l \in Links PROVE bytes[l] = Held(<<l, "ack">>) + Held(<<l, "nack">>)
    BY DEF ActionLedger
  <2>1. Held(<<l, "ack">>) = 0 /\ Held(<<l, "nack">>) = 0
    BY <1>3, <1>4
  <2> QED BY <2>1
<1> QED BY <1>1, <1>2, <1>5, <1>6, <1>7, <1>8 DEF Inv, ClientInv, OwnerInv, LinkInv

\* Every call, loop turn, internal endpoint and expiry keeps the invariant.
LEMMA StepKeeps == Inv /\ [Next]_vars => Inv'
<1> SUFFICES ASSUME Inv, [Next]_vars PROVE Inv'
  OBVIOUS
<1>1. CASE Client
  BY <1>1, HandlerEndsKeeps, PostKeeps, DisconnectKeeps DEF Client
<1>2. CASE Endpoints
  BY <1>2, AckLocalKeeps, AckSpreadKeeps, AckReadKeeps, AckForwardKeeps, AckRemoveKeeps, NackApplyKeeps,
     NackForwardKeeps
  DEF Endpoints
<1>3. ASSUME NEW n \in Lines, Loop(n) \/ Arrives(n) PROVE Inv'
  BY <1>3, TakeKeeps, FinishedKeeps, ArrivesKeeps DEF Loop
<1>4. CASE Handling
  BY <1>4, InternalRemoveKeeps, InternalSpreadKeeps, InternalApplyKeeps, InternalNackKeeps DEF Handling
<1>5. CASE UNCHANGED vars
  <2>1. /\ UNCHANGED <<clientVars, linkVars>> /\ pending' = pending /\ done' = done
        /\ UNCHANGED <<verdict, calls, serving>>
    BY <1>5 DEF vars, ownerVars, clientVars, linkVars
  <2>2. VerdictsKeep /\ SpreadingKeeps
    BY <2>1, SameSpread DEF VerdictsKeep
  <2>3. Keeps /\ OwnerInv' /\ LinkInv' /\ HandlerInv'
    BY <2>1, <2>2, QuietKeeps
  <2> QED BY <2>1, <2>3, ClientKeeps DEF Inv
<1> QED BY <1>1, <1>2, <1>3, <1>4, <1>5, LapseKeeps DEF Next

\* So the invariant holds in every reachable state.
LEMMA AlwaysInv == Spec => []Inv
BY Initially, StepKeeps, PTL DEF Spec

\* broadcastAction, actionLoop: whatever is refused, coalesced, carried over, answered or given up,
\* actionBytes is the sum of what waits on the two lines of the link, so that no byte of the budget
\* is lost or counted twice.
THEOREM ActionBytesConserved == Spec => []ActionLedger
<1>1. Inv => ActionLedger
  BY DEF Inv, LinkInv
<1> QED BY <1>1, AlwaysInv, PTL

\* ack, nack, actionLoop: a broker has a checkpoint only of a delivery whose handler succeeded.
THEOREM OnlyAckedCompletes == Spec => []OnlyAcked
<1>1. Inv => OnlyAcked
  BY DEF Inv, OwnerInv
<1> QED BY <1>1, AlwaysInv, PTL

\* ack, actionLoop: an ACK the client was told of is applied, on its way to the owner, or among what
\* an actionLoop gave up: no interleaving of queues, refusals, late handlers and answers loses it
\* silently.
THEOREM ConfirmedAckKept == Spec => []AckKept
<1>1. ASSUME Inv PROVE AckKept
  <2> SUFFICES ASSUME NEW d \in Deliveries, worker[d] = "confirmed", verdict[d] = "ack", d \in pending
               PROVE  \/ \E b \in Brokers \ {Owner[d]} : Travels(d, b, Owner[d], "ack")
                      \/ d \in missed[Owner[d]]
    BY DEF AckKept
  <2>1. Safe(d)
    BY <1>1 DEF Inv, ClientInv, ConfirmedSafe
  <2>2. ASSUME NEW b \in Brokers \ {Owner[d]}, d \in IdsOn(<<<<b, Owner[d]>>, "ack">>)
        PROVE  Travels(d, b, Owner[d], "ack")
    BY <2>2 DEF IdsOn, Travels
  <2> QED BY <2>1, <2>2 DEF Safe
<1> QED BY <1>1, AlwaysInv, PTL

\* ack, internalAck: a delivery its owner completed is completed at every other broker, or its
\* checkpoint is on the way there, or a queue did not take it or gave it up, or the handler that
\* completed it has yet to pass it on.
THEOREM CompletionAlwaysSpreads == Spec => []CompletionSpreads
<1>1. ASSUME Inv PROVE CompletionSpreads
  <2> SUFFICES ASSUME NEW d \in Deliveries, NEW p \in Brokers, d \in done[Owner[d]],
                      d \notin Spreading(Owner[d]), p # Owner[d],
                      ~Travels(d, Owner[d], p, "ack"), d \notin missed[p]
               PROVE  d \in done[p]
    BY DEF CompletionSpreads
  <2>1. Spread(d, p)
    BY <1>1 DEF Inv, OwnerInv, DoneSpreads
  <2>2. d \in CpsOn(<<<<Owner[d], p>>, "ack">>) => Travels(d, Owner[d], p, "ack")
    BY DEF CpsOn, Travels
  <2> QED BY <2>1, <2>2 DEF Spread, Queued
<1> QED BY <1>1, AlwaysInv, PTL
=============================================================================
