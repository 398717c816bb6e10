------------------------------ MODULE GpuLease ------------------------------
(***************************************************************************)
(* GpuLeaseManagerCore (src/nano_rl/runtime/slot.py): which role may use   *)
(* the CUDA device of which GPU.  A grant to a new role or holder          *)
(* supersedes the previous lease and raises the GPU's lease epoch; the     *)
(* tokens handed out by grant and current_lease travel with the work they  *)
(* allow, so a token may be presented long after it was superseded.        *)
(*                                                                         *)
(* The manager is a single-threaded actor: a call is one action.  A call   *)
(* that raises changes nothing and has no action here.                     *)
(***************************************************************************)
EXTENDS Naturals

CONSTANTS
  Gpus,          \* plan.physical_gpu_ids
  Holders,       \* worker ids and trainer rank ids
  Supported,     \* Supported[g]: {} on an idle GPU, {"rollout"} on a
                 \* rollout-only one, {"rollout", "trainer"} on a shared one
  FirstHolder,   \* the rollout worker the plan assigns to g
  NoRole,
  NoHolder,
  MaxEpoch       \* bound: lease epochs are 0..MaxEpoch

Roles == {"rollout", "trainer"}

ASSUME LeaseAssumption ==
  /\ Supported \in [Gpus -> SUBSET Roles]
  /\ \A g \in Gpus : "trainer" \in Supported[g] => "rollout" \in Supported[g]
  /\ FirstHolder \in [Gpus -> Holders]
  /\ NoRole \notin Roles
  /\ NoHolder \notin Holders
  /\ MaxEpoch \in Nat

VARIABLES
  lease,    \* _states: the GpuLeaseState of each GPU
  issued    \* every lease token handed out so far

leaseVars == <<lease, issued>>

LeaseState == [role : Roles \cup {NoRole}, holder : Holders \cup {NoHolder},
               epoch : Nat, failed : BOOLEAN]

Token == [gpu : Gpus, role : Roles, holder : Holders, epoch : Nat]

(***************************************************************************)
(* A GPU has a holder exactly when it has an active role, the role is one  *)
(* it supports, and a failed GPU has neither.                              *)
(***************************************************************************)
LeaseTypeOK ==
  /\ lease \in [Gpus -> LeaseState]
  /\ issued \subseteq Token
  /\ \A g \in Gpus :
       /\ lease[g].role # NoRole <=> lease[g].holder # NoHolder
       /\ lease[g].role # NoRole => lease[g].role \in Supported[g]
       /\ lease[g].failed => lease[g].role = NoRole

-----------------------------------------------------------------------------
Holds(g, role, holder) == lease[g].role = role /\ lease[g].holder = holder

TokenOf(g, state) ==
  [gpu |-> g, role |-> state.role, holder |-> state.holder,
   epoch |-> state.epoch]

\* assert_active, given the token's holder and epoch.
AssertActive_holderOnly(t) ==
  /\ t.role \in Supported[t.gpu]
  /\ ~lease[t.gpu].failed
  /\ Holds(t.gpu, t.role, t.holder)

AssertActive(t) ==
  /\ t.role \in Supported[t.gpu]
  /\ ~lease[t.gpu].failed
  /\ Holds(t.gpu, t.role, t.holder)
  /\ lease[t.gpu].epoch = t.epoch

LeaseInit ==
  /\ lease = [g \in Gpus |->
       IF "rollout" \in Supported[g]
       THEN [role |-> "rollout", holder |-> FirstHolder[g],
             epoch |-> 0, failed |-> FALSE]
       ELSE [role |-> NoRole, holder |-> NoHolder,
             epoch |-> 0, failed |-> FALSE]]
  /\ issued = {}

\* current_lease: the token of the present holder.
CurrentLease(g) ==
  /\ lease[g].role # NoRole
  /\ issued' = issued \cup {TokenOf(g, lease[g])}
  /\ UNCHANGED lease

(***************************************************************************)
(* grant: the holder of the role gets its token again; anyone else takes   *)
(* the GPU over under the next epoch, without the present holder's say.    *)
(***************************************************************************)
Grantable(g, role) == role \in Supported[g] /\ ~lease[g].failed

NextEpoch_ofRole(g, role) ==
  IF lease[g].role = role THEN lease[g].epoch ELSE lease[g].epoch + 1
NextEpoch(g, role) == lease[g].epoch + 1

Grant(g, role, holder) ==
  /\ Grantable(g, role)
  /\ \/ /\ Holds(g, role, holder)
        /\ UNCHANGED lease
     \/ /\ ~Holds(g, role, holder)
        /\ lease[g].epoch < MaxEpoch
        /\ lease' = [lease EXCEPT ![g] =
             [role |-> role, holder |-> holder,
              epoch |-> NextEpoch(g, role), failed |-> FALSE]]
  /\ issued' = issued \cup {TokenOf(g, lease'[g])}

\* mark_failed: for good; no call takes a GPU out of FAILED.
MarkFailed_keepsRole(g) ==
  /\ lease[g].epoch < MaxEpoch
  /\ lease' = [lease EXCEPT ![g].failed = TRUE, ![g].epoch = @ + 1]
  /\ UNCHANGED issued

MarkFailed(g) ==
  /\ lease[g].epoch < MaxEpoch
  /\ lease' = [lease EXCEPT ![g] =
       [role |-> NoRole, holder |-> NoHolder,
        epoch |-> lease[g].epoch + 1, failed |-> TRUE]]
  /\ UNCHANGED issued

LeaseNext ==
  \E g \in Gpus :
    \/ CurrentLease(g)
    \/ \E role \in Roles, holder \in Holders : Grant(g, role, holder)
    \/ MarkFailed(g)

LeaseSpec == LeaseInit /\ [][LeaseNext]_leaseVars

-----------------------------------------------------------------------------
(***************************************************************************)
(* The epoch alone identifies a lease: no two tokens ever handed out for a *)
(* GPU agree on the epoch and differ in role or holder.  Code that checks  *)
(* nothing but the epoch is therefore fenced (the reports of the trainer   *)
(* ranks and the lease tables of the rollout replicas carry it).           *)
(***************************************************************************)
EpochNamesHolder ==
  \A t, u \in issued : t.gpu = u.gpu /\ t.epoch = u.epoch => t = u

(***************************************************************************)
(* A token that assert_active once refuses is refused for ever, even when  *)
(* its holder is granted the GPU again: work started under an old lease    *)
(* cannot come back to life after a toggle to the trainer and back.        *)
(***************************************************************************)
StaleForever ==
  [][\A t \in issued : ~AssertActive(t) => ~AssertActive(t)']_leaseVars
=============================================================================
