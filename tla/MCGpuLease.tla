----------------------------- MODULE MCGpuLease -----------------------------
(* One GPU of each kind: shared, rollout-only, idle.  Two holders, each of *)
(* which may be granted either role: a toggle and a change of holder.      *)
EXTENDS GpuLease, TLC

CONSTANTS shared, rolloutOnly, idle, w1, w2

MCGpus        == {shared, rolloutOnly, idle}
MCHolders     == {w1, w2}
MCSupported   == shared :> Roles @@ rolloutOnly :> {"rollout"} @@ idle :> {}
MCFirstHolder == [g \in MCGpus |-> w1]
=============================================================================
