-------------------------- MODULE MCLocalController --------------------------
(* Two shared GPUs, each with a rank and a replica of its own, one slot a  *)
(* replica; iterations of one prompt or two against a watermark of two.    *)
EXTENDS LocalController, TLC

CONSTANTS g1, g2, p1, p2, worker, rank, c0, c1, c2, c3

MCGpus         == {g1, g2}
MCHolders      == {worker, rank}
MCSupported    == [g \in MCGpus |-> {"rollout", "trainer"}]
MCFirstHolder  == [g \in MCGpus |-> worker]
MCRankHolder   == [g \in MCGpus |-> rank]
MCRankGpus     == <<g1, g2>>
MCReplicaOrder == <<p1, p2>>
MCGpusOf       == (p1 :> {g1}) @@ (p2 :> {g2})
MCChecksumOf   == 0 :> c0 @@ 1 :> c1 @@ 2 :> c2 @@ 3 :> c3
MCNumTokens    == [s \in Requests |-> 1]
=============================================================================
