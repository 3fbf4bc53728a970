---- MODULE MCReplication ----
(* An instance of Replication for TLC: one publication that waits for a copy *)
(* and a batch of two acknowledged locally.                                  *)
EXTENDS Replication

MCCopied == {1}
MCPair == {2, 3}
MCBatches == {MCCopied, MCPair}
MCLocal == {MCPair}
MCOnePeer == {MCCopied}
MCAvailable == {}
====
