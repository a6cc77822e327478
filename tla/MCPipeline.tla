----------------------------- MODULE MCPipeline -----------------------------
(***************************************************************************)
(* Small instances of Pipeline for TLC.                                    *)
(***************************************************************************)
EXTENDS Pipeline, TLC

CONSTANTS t1, t2, t3, o1, r1, r2

\* Two transfers to the temporary wallet of one order.
TwoToOneOrder == (t1 :> o1) @@ (t2 :> o1)

\* One transfer to an order's wallet, one to the merchant's own address.
OneUnlinked == (t1 :> o1) @@ (t2 :> NoOrder)

\* Every transfer in a transaction of its own; all in one transaction.
OwnHash == [t \in Txs |-> t]
OneHash == [t \in Txs |-> t1]

AllSui == [t \in Txs |-> "sui"]

\* A third transfer pays an address nobody registered (a false positive of the
\* indexer's Bloom filter); the first is on a chain without a treasury worker.
Mixed == (t1 :> NoOrder) @@ (t2 :> o1) @@ (t3 :> NoOrder)
MixedChains == (t1 :> "base") @@ (t2 :> "sui") @@ (t3 :> "sui")
=============================================================================
