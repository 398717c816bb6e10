---------------------------- MODULE MCTrainerRanks ----------------------------
(* Two ranks, two batches, two versions, two failing calls, one crash. *)
EXTENDS TrainerRanks

MCRanks == {0, 1}
=============================================================================
