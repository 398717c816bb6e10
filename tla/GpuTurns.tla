------------------------------ MODULE GpuTurns ------------------------------
(***************************************************************************)
(* What sharing a GPU promises: the rollout engine and the trainer take    *)
(* turns.  The role whose turn it is gives the turn up by leaving the GPU, *)
(* and only the role whose turn it is moves in, onto an empty GPU.  A GPU  *)
(* that fails drops out of the game for good.                              *)
(***************************************************************************)
CONSTANTS Gpus

VARIABLES
  user,   \* the role on the GPU, "nobody", or "broken"
  turn    \* the role whose turn it is, "none" on a broken GPU

vars == <<user, turn>>

Other(role) == IF role = "rollout" THEN "trainer" ELSE "rollout"

Init ==
  /\ user = [g \in Gpus |-> "rollout"]
  /\ turn = [g \in Gpus |-> "rollout"]

HandOver(g) ==
  /\ user[g] = turn[g]
  /\ user' = [user EXCEPT ![g] = "nobody"]
  /\ turn' = [turn EXCEPT ![g] = Other(turn[g])]

MoveIn(g) ==
  /\ user[g] = "nobody"
  /\ user' = [user EXCEPT ![g] = turn[g]]
  /\ UNCHANGED turn

Break(g) ==
  /\ user[g] # "broken"
  /\ user' = [user EXCEPT ![g] = "broken"]
  /\ turn' = [turn EXCEPT ![g] = "none"]

Next == \E g \in Gpus : HandOver(g) \/ MoveIn(g) \/ Break(g)

Spec == Init /\ [][Next]_vars
=============================================================================
