--------------------------- MODULE MCRolloutLoop ---------------------------
(* Steps of BatchSize prompts; every sample has one token.  The sample ids *)
(* are the request ids, as the backends produce them, or those of a small  *)
(* data set whose records name their samples (sample_id in the metadata).  *)
EXTENDS RolloutLoop, TLC

MCSamples     == 1..BatchSize * MaxSteps
MCNumTokens   == [s \in MCSamples |-> 1]
ByRequest     == [k \in Requests |-> k]
ByPromptOfTwo == [k \in Requests |-> ((k - 1) % 2) + 1]
MCIdSchemes   == {ByRequest, ByPromptOfTwo}
ByRequestOnly == {ByRequest}
=============================================================================
