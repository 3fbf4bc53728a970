---------------------------- MODULE FoldTheorems ----------------------------
(* Facts about the folds the models use: sums of a function over a finite   *)
(* set (SumFunctionOnSet), and what a loop with a condition keeps of a list *)
(* (Kept).  Induction is over the set of natural numbers for which a        *)
(* statement holds, from the well-foundedness of <.                         *)
EXTENDS Selection, FiniteSets, Functions, FiniteSetTheorems, WellFoundedInduction, TLAPS

\* Induction over the natural numbers, for a property given as a set.
LEMMA SetInduction ==
  ASSUME NEW P, 0 \in P, \A n \in Nat : n \in P => n + 1 \in P
  PROVE  \A n \in Nat : n \in P
<1> DEFINE T == Nat \ P
<1>1. CASE T = {}
  BY <1>1
<1>2. CASE T # {}
  <2>1. PICK x \in T : \A y \in T : ~(<<y, x>> \in OpToRel(<, Nat))
    BY <1>2, NatLessThanWellFounded, WFMin, Zenon
  <2>2. x # 0 /\ x - 1 \in Nat
    BY SMT
  <2>3. <<x - 1, x>> \in OpToRel(<, Nat)
    BY <2>2 DEF OpToRel
  <2>4. x - 1 \in P
    BY <2>1, <2>2, <2>3
  <2>5. x \in P
    BY <2>2, <2>4
  <2> QED BY <2>5
<1> QED BY <1>1, <1>2

-----------------------------------------------------------------------------
(* Sums.                                                                    *)

\* The element a sum takes first.
Chosen(s) == CHOOSE x \in s : TRUE

\* g is the solution of the recursion by which SumFunctionOnSet sums f.
IsSum(g, f, S) ==
  g = [s \in SUBSET S |-> IF s = {} THEN 0 ELSE f[Chosen(s)] + g[s \ {Chosen(s)}]]

\* When the recursion has a solution, SumFunctionOnSet is its value at the whole set.
LEMMA SumUnfold ==
  ASSUME NEW f, NEW S, \E g : IsSum(g, f, S)
  PROVE  \E g : IsSum(g, f, S) /\ SumFunctionOnSet(f, S) = g[S]
<1> DEFINE h == CHOOSE g : IsSum(g, f, S)
<1>1. IsSum(h, f, S)
  BY Zenon
<1>2. SumFunctionOnSet(f, S) = h[S]
  BY Zenon DEF SumFunctionOnSet, FoldFunctionOnSet, MapThenFoldSet, IsSum, Chosen
<1> QED BY <1>1, <1>2, Zenon

\* A solution for the subsets of at most n elements.
Level(S, n) == {s \in SUBSET S : Cardinality(s) <= n}

SumTo(g, f, S, n) ==
  /\ g \in [Level(S, n) -> Int]
  /\ \A s \in Level(S, n) : g[s] = IF s = {} THEN 0 ELSE f[Chosen(s)] + g[s \ {Chosen(s)}]

\* The chosen element is a member, and the set without it is smaller by one.
LEMMA ChosenOf ==
  ASSUME NEW s, IsFiniteSet(s), s # {}
  PROVE  LET x == Chosen(s)
         IN  /\ x \in s /\ IsFiniteSet(s \ {x})
             /\ Cardinality(s) \in Nat \ {0} /\ Cardinality(s \ {x}) = Cardinality(s) - 1
<1> DEFINE x == Chosen(s)
<1>1. x \in s
  BY Zenon DEF Chosen
<1> HIDE DEF x
<1>2. IsFiniteSet(s \ {x}) /\ Cardinality(s \ {x}) = Cardinality(s) - 1
  BY <1>1, FS_RemoveElement
<1>3. Cardinality(s) \in Nat /\ Cardinality(s) # 0
  BY FS_CardinalityType, FS_EmptySet
<1> QED BY <1>1, <1>2, <1>3 DEF x

\* The recursion has a solution on the subsets of at most n elements, for every n.
LEMMA SumLevels ==
  ASSUME NEW f, NEW S, IsFiniteSet(S), \A x \in S : f[x] \in Int
  PROVE  \A n \in Nat : \E g : SumTo(g, f, S, n)
<1> DEFINE P == {n \in Nat : \E g : SumTo(g, f, S, n)}
<1>0. \A s \in SUBSET S : IsFiniteSet(s) /\ Cardinality(s) \in Nat
  BY FS_Subset, FS_CardinalityType
<1>1. 0 \in P
  <2>1. \A s \in Level(S, 0) : s = {}
    BY <1>0, FS_EmptySet DEF Level
  <2>2. SumTo([s \in Level(S, 0) |-> 0], f, S, 0)
    BY <2>1 DEF SumTo
  <2> QED BY <2>2
<1>2. ASSUME NEW n \in Nat, n \in P PROVE n + 1 \in P
  <2>1. PICK g : SumTo(g, f, S, n)
    BY <1>2
  <2> DEFINE val(s) == IF s = {} THEN 0 ELSE f[Chosen(s)] + g[s \ {Chosen(s)}]
             h == [s \in Level(S, n + 1) |-> val(s)]
  <2>2. ASSUME NEW s \in Level(S, n + 1), s # {}
        PROVE  /\ Chosen(s) \in s
               /\ s \ {Chosen(s)} \in Level(S, n)
    <3>1. IsFiniteSet(s) /\ s \in SUBSET S /\ Cardinality(s) <= n + 1
      BY <1>0 DEF Level
    <3>2. LET x == Chosen(s)
          IN  /\ x \in s /\ IsFiniteSet(s \ {x})
              /\ Cardinality(s) \in Nat \ {0} /\ Cardinality(s \ {x}) = Cardinality(s) - 1
      BY <2>2, <3>1, ChosenOf
    <3> DEFINE y == Chosen(s)
    <3>3. y \in s /\ Cardinality(s) \in Nat \ {0} /\ Cardinality(s \ {y}) = Cardinality(s) - 1
      BY <3>2, Zenon
    <3> HIDE DEF y
    <3>4. s \ {y} \in Level(S, n)
      BY <3>1, <3>3, <2>2 DEF Level
    <3> QED BY <3>3, <3>4 DEF y
  <2>3. \A s \in Level(S, n + 1) : val(s) \in Int
    <3> SUFFICES ASSUME NEW s \in Level(S, n + 1), s # {} PROVE val(s) \in Int
      OBVIOUS
    <3>1. f[Chosen(s)] \in Int
      BY <2>2 DEF Level
    <3>2. g[s \ {Chosen(s)}] \in Int
      BY <2>1, <2>2 DEF SumTo
    <3> QED BY <3>1, <3>2
  <2>4. \A s \in Level(S, n) : s \in Level(S, n + 1) /\ h[s] = g[s]
    <3>1. \A s \in Level(S, n) : s \in Level(S, n + 1)
      BY <1>0 DEF Level
    <3>2. \A s \in Level(S, n) : g[s] = val(s)
      BY <2>1, Zenon DEF SumTo
    <3> QED BY <3>1, <3>2
  <2>5. \A s \in Level(S, n + 1) :
          h[s] = IF s = {} THEN 0 ELSE f[Chosen(s)] + h[s \ {Chosen(s)}]
    <3> SUFFICES ASSUME NEW s \in Level(S, n + 1)
                 PROVE  h[s] = IF s = {} THEN 0 ELSE f[Chosen(s)] + h[s \ {Chosen(s)}]
      BY Zenon
    <3>1. s # {} => h[s \ {Chosen(s)}] = g[s \ {Chosen(s)}]
      BY <2>2, <2>4, Zenon
    <3>2. h[s] = val(s)
      BY Zenon
    <3> QED BY <3>1, <3>2, Zenon
  <2>6. h \in [Level(S, n + 1) -> Int]
    BY <2>3
  <2> HIDE DEF h
  <2>7. SumTo(h, f, S, n + 1)
    BY <2>5, <2>6, Zenon DEF SumTo
  <2>8. n + 1 \in Nat
    OBVIOUS
  <2> QED BY <2>7, <2>8
<1> HIDE DEF P
<1>3. \A n \in Nat : n \in P
  BY <1>1, <1>2, SetInduction
<1> QED BY <1>3 DEF P

\* The recursion has a solution on all subsets of a finite set.
LEMMA SumExists ==
  ASSUME NEW f, NEW S, IsFiniteSet(S), \A x \in S : f[x] \in Int
  PROVE  \E g \in [SUBSET S -> Int] : IsSum(g, f, S)
<1>1. \A s \in SUBSET S : IsFiniteSet(s) /\ Cardinality(s) \in Nat /\ Cardinality(s) <= Cardinality(S)
  BY FS_Subset, FS_CardinalityType
<1>2. Cardinality(S) \in Nat
  BY <1>1
<1>3. Level(S, Cardinality(S)) = SUBSET S
  BY <1>1 DEF Level
<1>4. PICK g : SumTo(g, f, S, Cardinality(S))
  BY <1>2, SumLevels
<1>5. g \in [SUBSET S -> Int]
  BY <1>3, <1>4 DEF SumTo
<1>6. \A s \in SUBSET S : g[s] = IF s = {} THEN 0 ELSE f[Chosen(s)] + g[s \ {Chosen(s)}]
  BY <1>3, <1>4, Zenon DEF SumTo
<1>7. IsSum(g, f, S)
  BY <1>5, <1>6, Zenon DEF IsSum
<1> QED BY <1>5, <1>7

\* A solution satisfies the recursion at every subset.
LEMMA SumRec ==
  ASSUME NEW f, NEW S, NEW g, IsSum(g, f, S), NEW s \in SUBSET S
  PROVE  g[s] = IF s = {} THEN 0 ELSE f[Chosen(s)] + g[s \ {Chosen(s)}]
<1> DEFINE e(t) == IF t = {} THEN 0 ELSE f[Chosen(t)] + g[t \ {Chosen(t)}]
<1>1. g = [t \in SUBSET S |-> e(t)]
  BY Zenon DEF IsSum
<1> HIDE DEF e
<1>2. g[s] = e(s)
  BY <1>1
<1> QED BY <1>2, Zenon DEF e

\* A solution is 0 at the empty set.
LEMMA SumNone ==
  ASSUME NEW f, NEW S, NEW g, IsSum(g, f, S)
  PROVE  g[{}] = 0
<1>1. {} \in SUBSET S
  OBVIOUS
<1> QED BY <1>1, SumRec, Zenon

\* A solution takes the chosen element first.
LEMMA SumChosen ==
  ASSUME NEW f, NEW S, NEW g, IsSum(g, f, S)
  PROVE  \A s \in SUBSET S : s # {} => g[s] = f[Chosen(s)] + g[s \ {Chosen(s)}]
<1> SUFFICES ASSUME NEW s \in SUBSET S, s # {}
             PROVE  g[s] = f[Chosen(s)] + g[s \ {Chosen(s)}]
  OBVIOUS
<1>1. g[s] = IF s = {} THEN 0 ELSE f[Chosen(s)] + g[s \ {Chosen(s)}]
  BY SumRec
<1> QED BY <1>1, Zenon

\* Solutions for two functions that agree on a set agree there.
LEMMA SumAgree ==
  ASSUME NEW f, NEW S, NEW g, IsSum(g, f, S),
         NEW e, NEW T, NEW h, IsSum(h, e, T),
         NEW U, IsFiniteSet(U), U \subseteq S, U \subseteq T, \A x \in U : f[x] = e[x]
  PROVE  g[U] = h[U]
<1>a. \A t \in SUBSET S : t # {} => g[t] = f[Chosen(t)] + g[t \ {Chosen(t)}]
  <2>1. IsSum(g, f, S)
    OBVIOUS
  <2> QED BY ONLY <2>1, SumChosen
<1>b. \A t \in SUBSET T : t # {} => h[t] = e[Chosen(t)] + h[t \ {Chosen(t)}]
  <2>1. IsSum(h, e, T)
    OBVIOUS
  <2> QED BY ONLY <2>1, SumChosen
<1> DEFINE P == {n \in Nat : \A s \in SUBSET U : Cardinality(s) = n => g[s] = h[s]}
<1>0. \A s \in SUBSET U : IsFiniteSet(s) /\ Cardinality(s) \in Nat /\ s \in SUBSET S /\ s \in SUBSET T
  BY FS_Subset, FS_CardinalityType
<1>1. 0 \in P
  <2>1. \A s \in SUBSET U : Cardinality(s) = 0 => s = {}
    BY <1>0, FS_EmptySet
  <2>2. g[{}] = 0 /\ h[{}] = 0
    BY SumNone
  <2> QED BY <2>1, <2>2
<1>2. ASSUME NEW n \in Nat, n \in P PROVE n + 1 \in P
  <2>1. ASSUME NEW s \in SUBSET U, Cardinality(s) = n + 1 PROVE g[s] = h[s]
    <3>1. s # {}
      BY <2>1, FS_EmptySet
    <3> DEFINE x == Chosen(s)
    <3>2. x \in s /\ Cardinality(s \ {x}) = Cardinality(s) - 1
      BY <1>0, <3>1, ChosenOf, Zenon
    <3>3. g[s] = f[x] + g[s \ {x}] /\ h[s] = e[x] + h[s \ {x}]
      <4>1. s \in SUBSET S /\ s \in SUBSET T
        BY <1>0
      <4> QED BY <3>1, <4>1, <1>a, <1>b
    <3> HIDE DEF x
    <3>4. g[s \ {x}] = h[s \ {x}]
      BY <1>2, <2>1, <3>2
    <3> QED BY <3>2, <3>3, <3>4
  <2> QED BY <2>1
<1> HIDE DEF P
<1>3. \A n \in Nat : n \in P
  BY <1>1, <1>2, SetInduction
<1> QED BY <1>0, <1>3 DEF P

\* A solution whose values are integers.
Sums(g, f, S) ==
  IsFiniteSet(S) /\ (\A x \in S : f[x] \in Int) /\ g \in [SUBSET S -> Int] /\ IsSum(g, f, S)

\* Any element may be taken first.
LEMMA SumAnyOrder ==
  ASSUME NEW f, NEW S, NEW g, Sums(g, f, S), NEW z \in S
  PROVE  g[S] = f[z] + g[S \ {z}]
<1> USE DEF Sums
<1> DEFINE P == {n \in Nat : \A s \in SUBSET S : Cardinality(s) = n => \A x \in s : g[s] = f[x] + g[s \ {x}]}
<1>0. \A s \in SUBSET S : IsFiniteSet(s) /\ Cardinality(s) \in Nat
  BY FS_Subset, FS_CardinalityType
<1>1. 0 \in P
  BY <1>0, FS_EmptySet
<1>2. ASSUME NEW n \in Nat, n \in P PROVE n + 1 \in P
  <2>1. ASSUME NEW s \in SUBSET S, Cardinality(s) = n + 1, NEW x \in s PROVE g[s] = f[x] + g[s \ {x}]
    <3> DEFINE y == Chosen(s)
    <3>1. y \in s /\ Cardinality(s \ {y}) = Cardinality(s) - 1
      BY <1>0, ChosenOf, Zenon
    <3>2. g[s] = f[y] + g[s \ {y}]
      <4>1. \A t \in SUBSET S : t # {} => g[t] = f[Chosen(t)] + g[t \ {Chosen(t)}]
        BY SumChosen
      <4> QED BY <4>1
    <3> HIDE DEF y
    <3>3. CASE x = y
      BY <3>2, <3>3
    <3>4. CASE x # y
      <4>1. Cardinality(s \ {x}) = n /\ Cardinality(s \ {y}) = n
        BY <1>0, <2>1, <3>1, FS_RemoveElement
      <4>2. g[s \ {y}] = f[x] + g[(s \ {y}) \ {x}]
        BY <1>2, <3>4, <4>1
      <4>3. g[s \ {x}] = f[y] + g[(s \ {x}) \ {y}]
        BY <1>2, <3>1, <3>4, <4>1
      <4>4. (s \ {x}) \ {y} = (s \ {y}) \ {x} /\ (s \ {y}) \ {x} \in SUBSET S
        OBVIOUS
      <4>5. f[x] \in Int /\ f[y] \in Int /\ g[(s \ {y}) \ {x}] \in Int
        BY <3>1, <4>4
      <4> DEFINE r == (s \ {y}) \ {x}
      <4>6. g[s] = f[y] + (f[x] + g[r]) /\ g[s \ {x}] = f[y] + g[r] /\ g[r] \in Int
        BY <3>2, <4>2, <4>3, <4>4, <4>5, Zenon
      <4> HIDE DEF r
      <4>7. f[y] + (f[x] + g[r]) = f[x] + (f[y] + g[r])
        BY <4>5, <4>6
      <4> QED BY <4>6, <4>7
    <3> QED BY <3>3, <3>4
  <2> QED BY <2>1
<1> HIDE DEF P
<1>3. \A n \in Nat : n \in P
  BY <1>1, <1>2, SetInduction
<1>4. S \in SUBSET S
  OBVIOUS
<1> QED BY <1>0, <1>3, <1>4 DEF P

\* SumFunctionOnSet is the value of an integer solution.
LEMMA SumIsSum ==
  ASSUME NEW f, NEW S, IsFiniteSet(S), \A x \in S : f[x] \in Int
  PROVE  \E g \in [SUBSET S -> Int] : IsSum(g, f, S) /\ SumFunctionOnSet(f, S) = g[S]
<1>1. PICK g \in [SUBSET S -> Int] : IsSum(g, f, S)
  BY SumExists
<1>2. PICK h : IsSum(h, f, S) /\ SumFunctionOnSet(f, S) = h[S]
  BY <1>1, SumUnfold, Zenon
<1>3. g[S] = h[S]
  BY <1>1, <1>2, SumAgree
<1> QED BY <1>1, <1>2, <1>3

\* The sum over no index is 0.
LEMMA SumEmpty == ASSUME NEW f PROVE SumFunctionOnSet(f, {}) = 0
<1>1. PICK g \in [SUBSET {} -> Int] : IsSum(g, f, {}) /\ SumFunctionOnSet(f, {}) = g[{}]
  BY SumIsSum, FS_EmptySet
<1>2. g[{}] = 0
  BY <1>1, SumNone
<1> QED BY <1>1, <1>2

\* A sum of integers is an integer.
LEMMA SumInt ==
  ASSUME NEW f, NEW S, IsFiniteSet(S), \A x \in S : f[x] \in Int
  PROVE  SumFunctionOnSet(f, S) \in Int
<1>1. PICK g \in [SUBSET S -> Int] : IsSum(g, f, S) /\ SumFunctionOnSet(f, S) = g[S]
  BY SumIsSum
<1>2. S \in SUBSET S
  OBVIOUS
<1> QED BY <1>1, <1>2

\* A sum depends on the values at its indices only.
LEMMA SumSame ==
  ASSUME NEW f, NEW e, NEW S, IsFiniteSet(S), \A x \in S : f[x] \in Int /\ f[x] = e[x]
  PROVE  SumFunctionOnSet(f, S) = SumFunctionOnSet(e, S)
<1>1. PICK g \in [SUBSET S -> Int] : IsSum(g, f, S) /\ SumFunctionOnSet(f, S) = g[S]
  BY SumIsSum
<1>2. PICK h \in [SUBSET S -> Int] : IsSum(h, e, S) /\ SumFunctionOnSet(e, S) = h[S]
  BY SumIsSum
<1>3. g[S] = h[S]
  BY <1>1, <1>2, SumAgree
<1> QED BY <1>1, <1>2, <1>3

\* An index less takes its value out of the sum.
LEMMA SumRemove ==
  ASSUME NEW f, NEW S, IsFiniteSet(S), \A x \in S : f[x] \in Int, NEW x \in S
  PROVE  SumFunctionOnSet(f, S \ {x}) = SumFunctionOnSet(f, S) - f[x]
<1> DEFINE T == S \ {x}
<1>0. IsFiniteSet(T) /\ T \subseteq S /\ \A y \in T : f[y] \in Int
  BY FS_RemoveElement
<1>1. PICK g \in [SUBSET S -> Int] : IsSum(g, f, S) /\ SumFunctionOnSet(f, S) = g[S]
  BY SumIsSum
<1>2. PICK h \in [SUBSET T -> Int] : IsSum(h, f, T) /\ SumFunctionOnSet(f, T) = h[T]
  BY <1>0, SumIsSum
<1>3. g[T] = h[T]
  BY <1>0, <1>1, <1>2, SumAgree
<1>4. g[S] = f[x] + g[T]
  <2>2. Sums(g, f, S) /\ x \in S
    BY <1>1 DEF Sums
  <2>3. g[S] = f[x] + g[S \ {x}]
    BY ONLY <2>2, SumAnyOrder
  <2> QED BY <2>3
<1>5. f[x] \in Int /\ g[T] \in Int
  BY <1>0
<1> QED BY <1>1, <1>2, <1>3, <1>4, <1>5

\* A sum of natural numbers is a natural number.
LEMMA SumNat ==
  ASSUME NEW f, NEW S, IsFiniteSet(S), \A x \in S : f[x] \in Nat
  PROVE  SumFunctionOnSet(f, S) \in Nat
<1> DEFINE P == {n \in Nat : \A s \in SUBSET S : Cardinality(s) = n => SumFunctionOnSet(f, s) \in Nat}
<1>0. \A s \in SUBSET S : IsFiniteSet(s) /\ Cardinality(s) \in Nat
  BY FS_Subset, FS_CardinalityType
<1>1. 0 \in P
  BY <1>0, FS_EmptySet, SumEmpty
<1>2. ASSUME NEW n \in Nat, n \in P PROVE n + 1 \in P
  <2>1. ASSUME NEW s \in SUBSET S, Cardinality(s) = n + 1 PROVE SumFunctionOnSet(f, s) \in Nat
    <3>1. PICK x \in s : Cardinality(s \ {x}) = n /\ s \ {x} \in SUBSET S
      <4>1. PICK x \in s : TRUE
        BY <1>0, <2>1, FS_EmptySet
      <4>2. Cardinality(s \ {x}) = Cardinality(s) - 1
        BY <1>0, FS_RemoveElement
      <4> QED BY <2>1, <4>2
    <3>2. SumFunctionOnSet(f, s \ {x}) \in Nat
      BY <1>2, <3>1
    <3>3. IsFiniteSet(s) /\ x \in s /\ \A y \in s : f[y] \in Int
      BY <1>0
    <3>4. SumFunctionOnSet(f, s \ {x}) = SumFunctionOnSet(f, s) - f[x] /\ SumFunctionOnSet(f, s) \in Int
      BY ONLY <3>3, SumRemove, SumInt
    <3>5. f[x] \in Nat
      BY <3>1
    <3> QED BY <3>2, <3>4, <3>5
  <2> QED BY <2>1
<1> HIDE DEF P
<1>3. \A n \in Nat : n \in P
  BY <1>1, <1>2, SetInduction
<1>4. S \in SUBSET S /\ Cardinality(S) \in Nat
  BY <1>0
<1> QED BY <1>3, <1>4 DEF P

\* A new index adds its value to the sum.
LEMMA SumAdd ==
  ASSUME NEW f, NEW S, IsFiniteSet(S), NEW x, x \notin S, \A y \in S \cup {x} : f[y] \in Int
  PROVE  SumFunctionOnSet(f, S \cup {x}) = SumFunctionOnSet(f, S) + f[x]
<1>1. IsFiniteSet(S \cup {x}) /\ (S \cup {x}) \ {x} = S
  BY FS_AddElement
<1>2. SumFunctionOnSet(f, S) = SumFunctionOnSet(f, S \cup {x}) - f[x]
  BY <1>1, SumRemove
<1>3. SumFunctionOnSet(f, S \cup {x}) \in Int
  BY <1>1, SumInt
<1> QED BY <1>2, <1>3

\* A value that changes at one index changes the sum by the difference.
LEMMA SumChange ==
  ASSUME NEW f, NEW e, NEW S, IsFiniteSet(S), NEW x \in S,
         \A y \in S : f[y] \in Int /\ e[y] \in Int, \A y \in S \ {x} : f[y] = e[y]
  PROVE  SumFunctionOnSet(e, S) = SumFunctionOnSet(f, S) - f[x] + e[x]
<1> DEFINE T == S \ {x}
<1>1. IsFiniteSet(T) /\ \A y \in T : f[y] \in Int /\ f[y] = e[y]
  BY FS_RemoveElement
<1>2. SumFunctionOnSet(f, T) = SumFunctionOnSet(e, T)
  BY ONLY <1>1, SumSame
<1>3. SumFunctionOnSet(f, T) = SumFunctionOnSet(f, S) - f[x] /\ SumFunctionOnSet(f, S) \in Int
  <2>1. IsFiniteSet(S) /\ x \in S /\ \A y \in S : f[y] \in Int
    OBVIOUS
  <2> QED BY ONLY <2>1, SumRemove, SumInt
<1>4. SumFunctionOnSet(e, T) = SumFunctionOnSet(e, S) - e[x] /\ SumFunctionOnSet(e, S) \in Int
  <2>1. IsFiniteSet(S) /\ x \in S /\ \A y \in S : e[y] \in Int
    OBVIOUS
  <2> QED BY ONLY <2>1, SumRemove, SumInt
<1>5. f[x] \in Int /\ e[x] \in Int
  OBVIOUS
<1> QED BY <1>2, <1>3, <1>4, <1>5

\* The sum over two disjoint sets of indices is the sum of the sums.
LEMMA SumUnion ==
  ASSUME NEW f, NEW S, NEW T, IsFiniteSet(S), IsFiniteSet(T), S \cap T = {},
         \A x \in S \cup T : f[x] \in Int
  PROVE  SumFunctionOnSet(f, S \cup T) = SumFunctionOnSet(f, S) + SumFunctionOnSet(f, T)
<1> DEFINE sum(U) == SumFunctionOnSet(f, U)
           P == {n \in Nat : \A U \in SUBSET T : Cardinality(U) = n => sum(S \cup U) = sum(S) + sum(U)}
<1>0. \A U \in SUBSET T : /\ IsFiniteSet(U) /\ Cardinality(U) \in Nat /\ IsFiniteSet(S \cup U)
                          /\ sum(U) \in Int
  <2>1. ASSUME NEW U \in SUBSET T
        PROVE  /\ IsFiniteSet(U) /\ Cardinality(U) \in Nat /\ IsFiniteSet(S \cup U) /\ sum(U) \in Int
    <3>1. IsFiniteSet(U) /\ \A x \in U : f[x] \in Int
      BY FS_Subset
    <3>2. sum(U) \in Int
      BY ONLY <3>1, SumInt
    <3> QED BY <3>1, <3>2, FS_Union, FS_CardinalityType
  <2> QED BY <2>1
<1>1. sum(S) \in Int
  <2>1. IsFiniteSet(S) /\ \A x \in S : f[x] \in Int
    OBVIOUS
  <2> QED BY ONLY <2>1, SumInt
<1>2. 0 \in P
  <2>1. \A U \in SUBSET T : Cardinality(U) = 0 => U = {}
    BY <1>0, FS_EmptySet
  <2>2. sum(S \cup {}) = sum(S) + sum({})
    <3>1. sum({}) = 0 /\ S \cup {} = S
      BY SumEmpty
    <3> QED BY <1>1, <3>1
  <2> QED BY <2>1, <2>2
<1>3. ASSUME NEW n \in Nat, n \in P PROVE n + 1 \in P
  <2>1. ASSUME NEW U \in SUBSET T, Cardinality(U) = n + 1 PROVE sum(S \cup U) = sum(S) + sum(U)
    <3>1. PICK x \in U : TRUE
      BY <1>0, <2>1, FS_EmptySet
    <3>2. Cardinality(U \ {x}) = n
      <4>1. IsFiniteSet(U) /\ Cardinality(U) = n + 1
        BY <1>0, <2>1
      <4> QED BY ONLY <3>1, <4>1, FS_RemoveElement, n \in Nat
    <3>3. sum(S \cup (U \ {x})) = sum(S) + sum(U \ {x})
      BY <1>3, <3>2
    <3>4. IsFiniteSet(U) /\ IsFiniteSet(S \cup U) /\ x \in U /\ x \in S \cup U
      BY <1>0
    <3>5. (\A y \in U : f[y] \in Int) /\ (\A y \in S \cup U : f[y] \in Int)
      OBVIOUS
    <3>6. sum(U \ {x}) = sum(U) - f[x]
      BY ONLY <3>4, <3>5, SumRemove
    <3>7. sum((S \cup U) \ {x}) = sum(S \cup U) - f[x] /\ sum(S \cup U) \in Int
      BY ONLY <3>4, <3>5, SumRemove, SumInt
    <3>8. (S \cup U) \ {x} = S \cup (U \ {x})
      BY <3>1
    <3>9. f[x] \in Int /\ sum(U) \in Int
      BY <1>0, <3>5
    <3> DEFINE a == sum(S \cup U)
               b == sum(S)
               c == sum(U)
               d == f[x]
    <3>10. a - d = b + (c - d) /\ a \in Int /\ b \in Int /\ c \in Int /\ d \in Int
      BY <1>1, <3>3, <3>6, <3>7, <3>8, <3>9, Zenon
    <3> HIDE DEF a, b, c, d
    <3>11. a = b + c
      BY <3>10
    <3> QED BY <3>11, Zenon DEF a, b, c
  <2> QED BY <2>1
<1> HIDE DEF P
<1>4. \A n \in Nat : n \in P
  BY <1>2, <1>3, SetInduction
<1>5. T \in SUBSET T /\ Cardinality(T) \in Nat
  BY <1>0
<1> QED BY <1>4, <1>5 DEF P

\* A sum of natural numbers grows with the set of its indices.
LEMMA SumSubset ==
  ASSUME NEW f, NEW S, NEW T, IsFiniteSet(T), S \subseteq T, \A x \in T : f[x] \in Nat
  PROVE  SumFunctionOnSet(f, S) <= SumFunctionOnSet(f, T)
<1> DEFINE R == T \ S
<1>1. IsFiniteSet(S) /\ IsFiniteSet(R) /\ S \cap R = {} /\ T = S \cup R
  BY FS_Subset
<1>2. (\A x \in R : f[x] \in Nat) /\ (\A x \in S : f[x] \in Nat) /\ \A x \in S \cup R : f[x] \in Int
  BY <1>1
<1>3. SumFunctionOnSet(f, R) \in Nat /\ SumFunctionOnSet(f, S) \in Nat
  BY ONLY <1>1, <1>2, SumNat
<1>4. SumFunctionOnSet(f, S \cup R) = SumFunctionOnSet(f, S) + SumFunctionOnSet(f, R)
  BY ONLY <1>1, <1>2, SumUnion
<1>5. SumFunctionOnSet(f, T) = SumFunctionOnSet(f, S) + SumFunctionOnSet(f, R)
  BY <1>1, <1>4, Zenon
<1> HIDE DEF R
<1> QED BY ONLY <1>3, <1>5

\* g is the window of f on the N places after k.
Window(g, f, k, N) == \A i \in 1..N : f[i + k] \in Int /\ g[i] = f[i + k]

\* A window of a list has the sum of the places it shows.
LEMMA SumShift ==
  ASSUME NEW f, NEW g, NEW k \in Nat, NEW N \in Nat, Window(g, f, k, N)
  PROVE  SumFunctionOnSet(g, 1..N) = SumFunctionOnSet(f, (k + 1)..(k + N))
<1> USE DEF Window
<1> DEFINE P == {n \in Nat : n <= N => SumFunctionOnSet(g, 1..n) = SumFunctionOnSet(f, (k + 1)..(k + n))}
<1>1. 0 \in P
  <2>1. 1..0 = {} /\ (k + 1)..(k + 0) = {}
    OBVIOUS
  <2> QED BY <2>1, SumEmpty
<1>2. ASSUME NEW n \in Nat, n \in P PROVE n + 1 \in P
  <2> SUFFICES ASSUME n + 1 <= N
               PROVE  SumFunctionOnSet(g, 1..(n + 1)) = SumFunctionOnSet(f, (k + 1)..(k + (n + 1)))
    OBVIOUS
  <2> DEFINE A == 1..n
             B == (k + 1)..(k + n)
  <2>1. SumFunctionOnSet(g, A) = SumFunctionOnSet(f, B)
    BY <1>2
  <2>2. 1..(n + 1) = A \cup {n + 1} /\ (k + 1)..(k + (n + 1)) = B \cup {k + n + 1}
    OBVIOUS
  <2>3. IsFiniteSet(A) /\ IsFiniteSet(B) /\ n + 1 \notin A /\ k + n + 1 \notin B
    BY FS_Interval
  <2>4. (\A y \in A \cup {n + 1} : g[y] \in Int) /\ g[n + 1] = f[k + n + 1]
    <3>1. \A y \in A \cup {n + 1} : y \in 1..N
      OBVIOUS
    <3>2. (n + 1) + k = k + n + 1
      OBVIOUS
    <3> QED BY <3>1, <3>2
  <2>5. \A y \in B \cup {k + n + 1} : f[y] \in Int
    <3>1. \A y \in B \cup {k + n + 1} : y - k \in 1..N /\ (y - k) + k = y
      OBVIOUS
    <3> QED BY <3>1
  <2>6. SumFunctionOnSet(g, A \cup {n + 1}) = SumFunctionOnSet(g, A) + g[n + 1]
    <3> HIDE DEF A
    <3> QED BY ONLY <2>3, <2>4, SumAdd
  <2>7. SumFunctionOnSet(f, B \cup {k + n + 1}) = SumFunctionOnSet(f, B) + f[k + n + 1]
    <3> DEFINE z == k + n + 1
    <3>1. IsFiniteSet(B) /\ z \notin B /\ \A y \in B \cup {z} : f[y] \in Int
      BY <2>3, <2>5
    <3> HIDE DEF B, z
    <3>2. SumFunctionOnSet(f, B \cup {z}) = SumFunctionOnSet(f, B) + f[z]
      BY ONLY <3>1, SumAdd
    <3> QED BY ONLY <3>2 DEF z
  <2>8. SumFunctionOnSet(g, A \cup {n + 1}) = SumFunctionOnSet(f, B \cup {k + n + 1})
    <3> HIDE DEF A, B
    <3> QED BY ONLY <2>1, <2>4, <2>6, <2>7
  <2> QED BY ONLY <2>2, <2>8
<1> HIDE DEF P
<1>3. \A n \in Nat : n \in P
  BY <1>1, <1>2, SetInduction
<1> QED BY <1>3 DEF P

\* A set of naturals that is not empty has a least member.
LEMMA HasMinimum ==
  ASSUME NEW S, S \subseteq Nat, S # {}
  PROVE  \E m \in S : \A k \in S : m <= k
<1>1. PICK x \in S : \A y \in S : ~(<<y, x>> \in OpToRel(<, Nat))
  BY NatLessThanWellFounded, WFMin, Zenon
<1>2. ASSUME NEW y \in S PROVE x <= y
  <2>1. x \in Nat /\ y \in Nat
    OBVIOUS
  <2>2. y < x => <<y, x>> \in OpToRel(<, Nat)
    BY <2>1 DEF OpToRel
  <2>3. ~(y < x)
    BY <1>1, <2>2, Zenon
  <2> QED BY <2>1, <2>3
<1> QED BY <1>2

\* A set of numbers up to n that is not empty has a greatest one.
LEMMA HasMaximum ==
  ASSUME NEW n \in Nat, NEW S, S \subseteq 0..n, S # {}
  PROVE  \E m \in S : \A k \in S : k <= m
<1> DEFINE T == {x \in 0..n : n - x \in S}
<1>1. T \subseteq Nat /\ T # {}
  <2>1. PICK k \in S : TRUE
    OBVIOUS
  <2>2. n - k \in 0..n /\ n - (n - k) = k
    OBVIOUS
  <2>3. n - k \in T
    BY <2>2
  <2>4. T \subseteq Nat
    OBVIOUS
  <2> HIDE DEF T
  <2> QED BY <2>3, <2>4
<1> HIDE DEF T
<1>3. PICK x \in T : \A y \in T : x <= y
  BY <1>1, HasMinimum
<1>4. ASSUME NEW k \in S PROVE k <= n - x
  <2>1. k \in 0..n /\ n - k \in 0..n /\ n - (n - k) = k
    OBVIOUS
  <2>2. x <= n - k
    BY <1>3, <2>1 DEF T
  <2>3. x \in Nat
    BY <1>1
  <2> QED BY <2>1, <2>2, <2>3
<1>5. n - x \in S
  BY DEF T
<1> QED BY <1>4, <1>5

-----------------------------------------------------------------------------
(* What is kept of a list.                                                  *)

\* F holds what the loop of Kept has after each of its first n turns.
IsKept(F, s, S, n) ==
  F = [i \in 0..n |-> IF i = 0 THEN <<>> ELSE IF s[i] \in S THEN Append(F[i - 1], s[i]) ELSE F[i - 1]]

\* When the loop over the list has a result, Kept is its last value.
LEMMA KeptUnfold ==
  ASSUME NEW s, NEW S, \E F : IsKept(F, s, S, Len(s))
  PROVE  \E F : IsKept(F, s, S, Len(s)) /\ Kept(s, S) = F[Len(s)]
<1> DEFINE h == CHOOSE F : IsKept(F, s, S, Len(s))
<1>1. IsKept(h, s, S, Len(s))
  BY Zenon
<1>2. Kept(s, S) = h[Len(s)]
  BY Zenon DEF Kept, IsKept
<1> QED BY <1>1, <1>2, Zenon

\* The loop has a result after every number of turns.
LEMMA KeptExists ==
  ASSUME NEW s, NEW S
  PROVE  \A n \in Nat : \E F : IsKept(F, s, S, n)
<1> DEFINE P == {n \in Nat : \E F : IsKept(F, s, S, n)}
           step(prev, i) == IF s[i] \in S THEN Append(prev, s[i]) ELSE prev
<1>1. 0 \in P
  <2> DEFINE F == [i \in 0..0 |-> <<>>]
  <2>1. \A i \in 0..0 : i = 0
    OBVIOUS
  <2>2. IsKept(F, s, S, 0)
    BY <2>1 DEF IsKept
  <2> QED BY <2>2
<1>2. ASSUME NEW n \in Nat, n \in P PROVE n + 1 \in P
  <2>1. PICK F : IsKept(F, s, S, n)
    BY <1>2
  <2> DEFINE G == [i \in 0..(n + 1) |-> IF i = n + 1 THEN step(F[n], n + 1) ELSE F[i]]
  <2>2. \A i \in 0..n : F[i] = IF i = 0 THEN <<>> ELSE step(F[i - 1], i)
    BY <2>1 DEF IsKept
  <2> HIDE DEF step
  <2>3. \A i \in 0..(n + 1) : G[i] = IF i = 0 THEN <<>> ELSE step(G[i - 1], i)
    BY <2>2
  <2>4. G = [i \in 0..(n + 1) |-> G[i]]
    OBVIOUS
  <2> HIDE DEF G
  <2>5. IsKept(G, s, S, n + 1)
    BY <2>3, <2>4, Zenon DEF IsKept, step
  <2> QED BY <2>5
<1> HIDE DEF P
<1>3. \A n \in Nat : n \in P
  BY <1>1, <1>2, SetInduction
<1> QED BY <1>3 DEF P

\* f tells for every place of k the place of s it was taken from: all those among the first n that
\* hold a member of S, and in their order.
Picks(f, k, s, S, n) ==
  /\ f \in [1..Len(k) -> 1..n]
  /\ \A i, j \in 1..Len(k) : i < j => f[i] < f[j]
  /\ \A j \in 1..Len(k) : k[j] = s[f[j]] /\ k[j] \in S
  /\ \A i \in 1..n : s[i] \in S => \E j \in 1..Len(k) : f[j] = i

\* After n turns the loop has picked exactly the members of S among the first n places.
LEMMA KeptPrefix ==
  ASSUME NEW T, NEW s \in Seq(T), NEW S, NEW F, IsKept(F, s, S, Len(s))
  PROVE  F[Len(s)] \in Seq(T) /\ \E f : Picks(f, F[Len(s)], s, S, Len(s))
<1> DEFINE P == {n \in Nat : n <= Len(s) => F[n] \in Seq(T) /\ \E f : Picks(f, F[n], s, S, n)}
<1>0. \A i \in 0..Len(s) : F[i] = IF i = 0 THEN <<>> ELSE IF s[i] \in S THEN Append(F[i - 1], s[i]) ELSE F[i - 1]
  BY DEF IsKept
<1>1. 0 \in P
  <2>1. F[0] = <<>> /\ <<>> \in Seq(T)
    <3>1. 0 \in 0..Len(s)
      OBVIOUS
    <3>2. <<>> \in Seq(T)
      OBVIOUS
    <3> QED BY <1>0, <3>1, <3>2, Zenon
  <2>2. Picks([j \in {} |-> 0], F[0], s, S, 0)
    BY <2>1 DEF Picks
  <2>3. F[0] \in Seq(T) /\ \E f : Picks(f, F[0], s, S, 0)
    BY <2>1, <2>2, Zenon
  <2> QED BY <2>3
<1>2. ASSUME NEW n \in Nat, n \in P PROVE n + 1 \in P
  <2> SUFFICES ASSUME n + 1 <= Len(s)
               PROVE  F[n + 1] \in Seq(T) /\ \E f : Picks(f, F[n + 1], s, S, n + 1)
    OBVIOUS
  <2>1. F[n] \in Seq(T)
    BY <1>2
  <2>2. PICK f : Picks(f, F[n], s, S, n)
    BY <1>2
  <2>3. F[n + 1] = IF s[n + 1] \in S THEN Append(F[n], s[n + 1]) ELSE F[n]
    BY <1>0
  <2>4. s[n + 1] \in T
    OBVIOUS
  <2> DEFINE K == F[n]
  <2>5. CASE s[n + 1] \notin S
    <3>1. F[n + 1] = K
      BY <2>3, <2>5
    <3>2. Picks(f, K, s, S, n + 1)
      <4>1. f \in [1..Len(K) -> 1..(n + 1)]
        BY <2>1, <2>2 DEF Picks
      <4>2. \A i \in 1..(n + 1) : s[i] \in S => i \in 1..n
        BY <2>5
      <4> QED BY <2>2, <4>1, <4>2 DEF Picks
    <3> QED BY <2>1, <3>1, <3>2
  <2>6. CASE s[n + 1] \in S
    <3> DEFINE L == Append(K, s[n + 1])
               g == [j \in 1..(Len(K) + 1) |-> IF j = Len(K) + 1 THEN n + 1 ELSE f[j]]
    <3>1. F[n + 1] = L
      BY <2>3, <2>6
    <3>2. /\ L \in Seq(T) /\ Len(L) = Len(K) + 1 /\ Len(K) \in Nat
          /\ L[Len(K) + 1] = s[n + 1] /\ \A j \in 1..Len(K) : L[j] = K[j]
      BY <2>1, <2>4
    <3> HIDE DEF L
    <3>3. /\ f \in [1..Len(K) -> 1..n]
          /\ \A i, j \in 1..Len(K) : i < j => f[i] < f[j]
          /\ \A j \in 1..Len(K) : K[j] = s[f[j]] /\ K[j] \in S
          /\ \A i \in 1..n : s[i] \in S => \E j \in 1..Len(K) : f[j] = i
      BY <2>2 DEF Picks
    <3>9. g[Len(K) + 1] = n + 1 /\ \A j \in 1..Len(K) : g[j] = f[j]
      BY <3>2
    <3>4. g \in [1..Len(L) -> 1..(n + 1)]
      BY <3>2, <3>3
    <3>5. \A i, j \in 1..Len(L) : i < j => g[i] < g[j]
      <4> SUFFICES ASSUME NEW i \in 1..Len(L), NEW j \in 1..Len(L), i < j PROVE g[i] < g[j]
        OBVIOUS
      <4>1. i \in 1..Len(K)
        BY <3>2
      <4>1a. g[i] = f[i] /\ f[i] \in 1..n
        BY <3>9, <3>3, <4>1
      <4>2. CASE j = Len(K) + 1
        <5>1. g[j] = n + 1
          BY <3>2, <4>2
        <5> QED BY <4>1a, <5>1
      <4>3. CASE j # Len(K) + 1
        <5>1. j \in 1..Len(K)
          BY <3>2, <4>3
        <5>2. g[j] = f[j]
          BY <3>2, <5>1
        <5> QED BY <3>3, <4>1, <4>1a, <5>1, <5>2
      <4> QED BY <4>2, <4>3
    <3>6. \A j \in 1..Len(L) : L[j] = s[g[j]] /\ L[j] \in S
      <4> SUFFICES ASSUME NEW j \in 1..Len(L) PROVE L[j] = s[g[j]] /\ L[j] \in S
        OBVIOUS
      <4>1. CASE j = Len(K) + 1
        BY <2>6, <3>2, <3>9, <4>1
      <4>2. CASE j # Len(K) + 1
        <5>1. j \in 1..Len(K)
          BY <3>2, <4>2
        <5>2. K[j] = s[f[j]] /\ K[j] \in S
          BY <3>3, <5>1
        <5> QED BY <3>2, <3>9, <5>1, <5>2
      <4> QED BY <4>1, <4>2
    <3>7. \A i \in 1..(n + 1) : s[i] \in S => \E j \in 1..Len(L) : g[j] = i
      <4> SUFFICES ASSUME NEW i \in 1..(n + 1), s[i] \in S PROVE \E j \in 1..Len(L) : g[j] = i
        OBVIOUS
      <4>1. CASE i = n + 1
        <5>1. Len(K) + 1 \in 1..Len(L) /\ g[Len(K) + 1] = n + 1
          BY <3>2
        <5> QED BY <4>1, <5>1
      <4>2. CASE i # n + 1
        <5>1. PICK j \in 1..Len(K) : f[j] = i
          BY <3>3, <4>2
        <5>2. j \in 1..Len(L) /\ g[j] = f[j]
          BY <3>2
        <5> QED BY <5>1, <5>2
      <4> QED BY <4>1, <4>2
    <3> HIDE DEF g
    <3>8. Picks(g, L, s, S, n + 1)
      BY <3>4, <3>5, <3>6, <3>7 DEF Picks
    <3> QED BY <3>1, <3>2, <3>8
  <2> QED BY <2>5, <2>6
<1> HIDE DEF P
<1>3. \A n \in Nat : n \in P
  BY <1>1, <1>2, SetInduction
<1> QED BY <1>3 DEF P

\* Kept(s, S) is a list of the members of S that s has, place by place and in the order of s.
LEMMA KeptPicks ==
  ASSUME NEW T, NEW s \in Seq(T), NEW S
  PROVE  Kept(s, S) \in Seq(T) /\ \E f : Picks(f, Kept(s, S), s, S, Len(s))
<1>1. Len(s) \in Nat
  OBVIOUS
<1>2. \E F : IsKept(F, s, S, Len(s))
  BY <1>1, KeptExists
<1>3. PICK F : IsKept(F, s, S, Len(s)) /\ Kept(s, S) = F[Len(s)]
  BY <1>2, KeptUnfold
<1> QED BY <1>3, KeptPrefix
=============================================================================
