---- MODULE MCProducerBatcher ----
(* An instance of ProducerBatcher for TLC.                                  *)
EXTENDS ProducerBatcher

CONSTANTS p1, p2, p3, k1, a, b

\* The third publication is incompatible with the first two.
MCClass == [p \in Publishers |-> IF p = p3 THEN b ELSE a]
====
