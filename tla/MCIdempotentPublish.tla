---- MODULE MCIdempotentPublish ----
(* An instance of IdempotentPublish for TLC.                                *)
EXTENDS IdempotentPublish

CONSTANTS r1, r2, r3, r4, k1, k2, c, d

\* One request needs the whole budget; the others are small.
MCBytes == [r \in Requests |-> IF r = r1 THEN 2 ELSE 1]

\* Two small requests are retries of one publication; one of them may also reuse the key for another
\* event or use a key of its own.  The large and the fourth have no key.
MCPublications ==
  [r \in Requests |-> CASE r = r2 -> {<<k1, c>>}
                         [] r = r3 -> {<<k1, c>>, <<k1, d>>, <<k2, c>>}
                         [] OTHER -> {}]

\* The bound of the run: keyed publications with three handlers, or four handlers without keys.
MCBound ==
  \/ state[r4] = "idle"
  \/ order = <<>> /\ \A k \in Keys : table[k] = None /\ cache[k] = None
====
