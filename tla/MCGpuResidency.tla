--------------------------- MODULE MCGpuResidency ---------------------------
(* Two shared GPUs and a rollout-only one, a worker and a trainer rank.    *)
EXTENDS GpuResidency, TLC

CONSTANTS g1, g2, rolloutOnly, worker, rank

MCGpus        == {g1, g2, rolloutOnly}
MCHolders     == {worker, rank}
MCSupported   == [g \in MCGpus |-> IF g = rolloutOnly THEN {"rollout"}
                                   ELSE {"rollout", "trainer"}]
MCFirstHolder == [g \in MCGpus |-> worker]
=============================================================================
