--------------------------- MODULE MCTrainWindow ---------------------------
(* Two shared GPUs and a rollout-only one, each with a replica of its own. *)
EXTENDS TrainWindow, TLC

CONSTANTS g1, g2, rolloutOnly, p1, p2, p3, worker, rank

MCGpus        == {g1, g2, rolloutOnly}
MCHolders     == {worker, rank}
MCSupported   == [g \in MCGpus |-> IF g = rolloutOnly THEN {"rollout"}
                                   ELSE {"rollout", "trainer"}]
MCFirstHolder == [g \in MCGpus |-> worker]
MCRankHolder  == [g \in {g1, g2} |-> rank]
MCReplicas    == {p1, p2, p3}
MCGpusOf      == (p1 :> {g1}) @@ (p2 :> {g2}) @@ (p3 :> {rolloutOnly})
MCSyncRanks   == {g1}
=============================================================================
