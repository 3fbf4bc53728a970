---- MODULE MCCompletions ----
(* An instance of Completions for TLC.                                      *)
EXTENDS Completions

CONSTANTS b1, b2, d1, d2

\* A delivery of the broker that clients reach, and one of its peer, which its handler may also refuse.
MCOwner == [d \in Deliveries |-> IF d = d2 THEN b2 ELSE b1]
MCVerdicts == [d \in Deliveries |-> IF d = d2 THEN {"ack", "nack"} ELSE {"ack"}]
====
