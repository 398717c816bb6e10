---------------------------- MODULE MCSampleQueue ----------------------------
(* Four samples, one longer than the others, a queue of two slots, batches *)
(* of two: enough for a queue past its watermark.                          *)
EXTENDS SampleQueue, TLC

CONSTANTS s1, s2, s3, s4

MCSamples   == {s1, s2, s3, s4}
MCNumTokens == s1 :> 1 @@ s2 :> 1 @@ s3 :> 2 @@ s4 :> 1
MCBudgets   == {NoBudget, 2}
=============================================================================
