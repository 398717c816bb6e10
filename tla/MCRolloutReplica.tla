--------------------------- MODULE MCRolloutReplica ---------------------------
(* One replica over two GPUs, every sensible configuration, two train steps. *)
(* Prompts: a short one, one that leaves less than the longest response, one *)
(* that leaves less than the shortest, one as long as the whole sequence.    *)
(* Sampling caps: one the mock refuses, one  *)
(* below the shortest response, one below the longest, and none.             *)
EXTENDS RolloutReplica

CONSTANTS g1, g2, w1, w2

MCGpuIds      == <<g1, g2>>
MCHolderIds   == <<w1, w2>>
MCPromptSizes == {1, 9, 10, 12}
MCSamplingCaps == {0, 1, 4}
=============================================================================
