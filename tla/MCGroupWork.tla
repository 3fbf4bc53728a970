---------------------------- MODULE MCGroupWork ----------------------------
(* Instances of GroupWork for TLC.                                          *)
EXTENDS GroupWork, TLC

CONSTANTS m1, m2, m3, k1, k2, g1, g2, s1, s2, s3, a1, a2

\* m1 and m2 share a lane, m3 is alone in another.
MCKey == [m \in Messages |-> IF m = m3 THEN k2 ELSE k1]
MCOneGroup == [s \in Subs |-> g1]
MCTwoGroups == [s \in Subs |-> IF s = s1 THEN g1 ELSE g2]
\* s1 and s2 are streams of one member, s3 of another; or s1 and s2 of two members.
MCMixed == [s \in Subs |-> IF s = s3 THEN a2 ELSE a1]
MCTwoMembers == [s \in Subs |-> IF s = s1 THEN a1 ELSE a2]
\* s2's member wins k1, s1's member wins k2.
MCScore == [k \in Keys |-> [a \in Affinities |->
              IF (k = k1) = (a = a1) THEN 1 ELSE 2]]
MCFlatScore == [k \in Keys |-> [a \in Affinities |-> 1]]

\* Messages of one lane are interchangeable, and so are two groups with a stream each.
MessagePerms == Permutations(Messages)
GroupSwap == (g1 :> g2) @@ (g2 :> g1) @@ (s1 :> s2) @@ (s2 :> s1) @@ (a1 :> a2) @@ (a2 :> a1)
Same == [x \in {g1, g2, s1, s2, a1, a2} |-> x]
PressureSymmetry == {p @@ q : p \in MessagePerms, q \in {Same, GroupSwap}}
SubSwap == (s1 :> s2) @@ (s2 :> s1) @@ (s3 :> s3)
MixedSymmetry == {p @@ q : p \in MessagePerms, q \in {[s \in Subs |-> s], SubSwap}}

\* The bound of the mixed run: two messages with two of the streams, or one with all three;
\* draining with one message and one stream.
MCBound ==
  /\ Cardinality({s \in Subs : stream[s] # "idle"}) + lastOrdinal <= 4
  /\ draining => Cardinality({s \in Subs : stream[s] # "idle"}) + lastOrdinal <= 2
=============================================================================
