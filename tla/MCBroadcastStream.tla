------------------------- MODULE MCBroadcastStream -------------------------
(* BroadcastStream for TLC: every constant is a number, given in the cfg.   *)
EXTENDS BroadcastStream

\* The bound of the broadcast run: retries with two messages only.
MCBound == accepted = 3 => retry = {} /\ \A d \in pending : d[2] = 1
=============================================================================
