---------------------------- MODULE GpuResidency ----------------------------
(***************************************************************************)
(* GpuResidencyManagerCore (src/nano_rl/runtime/offload.py): moves a       *)
(* shared GPU from rollout to trainer (enter_train) and back (exit_train). *)
(* A call runs the backend's offload hook, takes the lease over to the     *)
(* other role, and runs that role's hydrate hook.  The manager runs one    *)
(* call at a time; each hook takes a while, and may fail, overrun its      *)
(* budget or leave memory behind.  Meanwhile the lease manager, which is a *)
(* separate object, may be told that a GPU has failed.                     *)
(*                                                                         *)
(* Leases are those of GpuLease, which this module extends with the GPUs   *)
(* they are for; in the local runtime this manager is the only one to call *)
(* grant.                                                                  *)
(***************************************************************************)
EXTENDS GpuLease

CONSTANT NoCall

VARIABLES
  residency,       \* _states: the ResidencyState of each shared GPU
  call,            \* the running call: the hook it is in, the lease it is
                   \* for and the holder to come; NoCall if none runs
  resident         \* which roles' weights and caches are on the GPU: what
                   \* the hooks do, seen by no code

vars == <<lease, issued, residency, call, resident>>

Shared == {g \in Gpus : "trainer" \in Supported[g]}

ResidencyState ==
  {"ROLLOUT_ACTIVE", "ROLLOUT_DRAINING", "ROLLOUT_OFFLOADED",
   "TRAINER_HYDRATING", "TRAINER_ACTIVE", "TRAINER_OFFLOADED",
   "ROLLOUT_WAKING", "DEGRADED"}

Call == [hook : {"offload", "hydrate"}, token : Token, next : Holders]

ASSUME ResidencyAssumption == NoCall \notin Call

(***************************************************************************)
(* The residency state names the hook the running call is in.              *)
(***************************************************************************)
Active(role)   == IF role = "rollout" THEN "ROLLOUT_ACTIVE" ELSE "TRAINER_ACTIVE"
Leaving(role)  == IF role = "rollout" THEN "ROLLOUT_DRAINING" ELSE "TRAINER_OFFLOADED"
Left(role)     == IF role = "rollout" THEN "ROLLOUT_OFFLOADED" ELSE "TRAINER_OFFLOADED"
Arriving(role) == IF role = "rollout" THEN "ROLLOUT_WAKING" ELSE "TRAINER_HYDRATING"

TypeOK ==
  /\ LeaseTypeOK
  /\ residency \in [Shared -> ResidencyState]
  /\ call \in Call \cup {NoCall}
  /\ resident \in [Shared -> SUBSET Roles]
  /\ call # NoCall =>
       /\ call.token.gpu \in Shared
       /\ residency[call.token.gpu] =
            IF call.hook = "offload" THEN Leaving(call.token.role)
                                     ELSE Arriving(call.token.role)

Calling(g) == call # NoCall /\ call.token.gpu = g

-----------------------------------------------------------------------------
Other(role) == IF role = "rollout" THEN "trainer" ELSE "rollout"

\* What a hook reports: done, done but over its time budget, done but with
\* more memory left than the budget allows, or an error.
Outcomes == {"ok", "late", "residue", "failed"}

\* _check_report
Accepted_residue(outcome) == outcome \in {"ok", "residue"}
Accepted(outcome) == outcome = "ok"

\* What a hook with that outcome may have left on a GPU that held R.
AfterOffload(role, R, outcome) ==
  CASE outcome \in {"ok", "late"} -> {R \ {role}}
    [] outcome = "residue"        -> {R}
    [] outcome = "failed"         -> {R, R \ {role}}

AfterHydrate(role, R, outcome) ==
  IF outcome = "failed" THEN {R, R \cup {role}} ELSE {R \cup {role}}

-----------------------------------------------------------------------------
Init ==
  /\ LeaseInit
  /\ residency = [g \in Shared |-> "ROLLOUT_ACTIVE"]
  /\ call = NoCall
  /\ resident = [g \in Shared |-> {"rollout"}]

(***************************************************************************)
(* enter_train(rollout_lease) and exit_train(trainer_lease), up to the     *)
(* offload hook.  A stale lease or a wrong state raises: no step.          *)
(***************************************************************************)
Start(role, token, next) ==
  /\ call = NoCall
  /\ token.role = role
  /\ token.gpu \in Shared
  /\ AssertActive(token)
  /\ residency[token.gpu] = Active(role)
  /\ residency' = [residency EXCEPT ![token.gpu] = Leaving(role)]
  /\ call' = [hook |-> "offload", token |-> token, next |-> next]
  /\ UNCHANGED <<lease, issued, resident>>

EnterTrain(token, trainerHolder) == Start("rollout", token, trainerHolder)
ExitTrain(token, rolloutHolder)  == Start("trainer", token, rolloutHolder)

(***************************************************************************)
(* _run_offload and what follows it: a report that is not accepted         *)
(* degrades the GPU and ends the call; otherwise the lease goes to the     *)
(* other role, whose hydrate hook starts.  If the lease manager refuses,   *)
(* the GPU having failed meanwhile, the call raises where it stands.       *)
(***************************************************************************)
OffloadRejected_keepsState(outcome) ==
  /\ ~Accepted(outcome)
  /\ call' = NoCall
  /\ UNCHANGED <<residency, lease, issued>>

OffloadRejected(outcome) ==
  /\ ~Accepted(outcome)
  /\ residency' = [residency EXCEPT ![call.token.gpu] = "DEGRADED"]
  /\ call' = NoCall
  /\ UNCHANGED <<lease, issued>>

TakeOver_noMove(outcome) ==
  LET g == call.token.gpu  to == Other(call.token.role)
  IN  /\ Accepted(outcome)
      /\ Grant(g, to, call.next)
      /\ UNCHANGED residency
      /\ call' = [call EXCEPT !.hook = "hydrate",
                              !.token = TokenOf(g, lease'[g])]

TakeOver(outcome) ==
  LET g == call.token.gpu  to == Other(call.token.role)
  IN  /\ Accepted(outcome)
      /\ Grant(g, to, call.next)
      /\ residency' = [residency EXCEPT ![g] = Arriving(to)]
      /\ call' = [call EXCEPT !.hook = "hydrate",
                              !.token = TokenOf(g, lease'[g])]

TakeOverRefused(outcome) ==
  /\ Accepted(outcome)
  /\ ~Grantable(call.token.gpu, Other(call.token.role))
  /\ residency' = [residency EXCEPT ![call.token.gpu] = Left(call.token.role)]
  /\ call' = NoCall
  /\ UNCHANGED <<lease, issued>>

OffloadReturns(outcome) ==
  /\ call # NoCall /\ call.hook = "offload"
  /\ \E R \in AfterOffload(call.token.role, resident[call.token.gpu], outcome) :
       resident' = [resident EXCEPT ![call.token.gpu] = R]
  /\ \/ OffloadRejected(outcome)
     \/ TakeOver(outcome)
     \/ TakeOverRefused(outcome)

\* _run_hydrate and the end of the call.  The lease is not looked at again.
HydrateReturns(outcome) ==
  LET g == call.token.gpu  role == call.token.role
  IN  /\ call # NoCall /\ call.hook = "hydrate"
      /\ \E R \in AfterHydrate(role, resident[g], outcome) :
           resident' = [resident EXCEPT ![g] = R]
      /\ residency' = [residency EXCEPT ![g] =
           IF Accepted(outcome) THEN Active(role) ELSE "DEGRADED"]
      /\ call' = NoCall
      /\ UNCHANGED <<lease, issued>>

\* Calls of others to the lease manager.
LeaseCall ==
  /\ \E g \in Gpus : CurrentLease(g) \/ MarkFailed(g)
  /\ UNCHANGED <<residency, call, resident>>

Next ==
  \/ \E token \in issued, holder \in Holders :
       EnterTrain(token, holder) \/ ExitTrain(token, holder)
  \/ \E outcome \in Outcomes : OffloadReturns(outcome) \/ HydrateReturns(outcome)
  \/ LeaseCall

Spec == Init /\ [][Next]_vars

-----------------------------------------------------------------------------
(***************************************************************************)
(* The rollout engine and the trainer are never on a shared GPU at once,   *)
(* not even on one that is degraded or failed: whatever a hook does, the   *)
(* next role is not loaded before the last one has left.                   *)
(***************************************************************************)
Exclusive == \A g \in Shared : resident[g] # Roles

(***************************************************************************)
(* Outside a call a GPU whose lease is intact is fully rollout, fully      *)
(* trainer, or degraded, and unless it is degraded the role that holds the *)
(* lease is the one that is loaded: a hook that fails cannot leave a GPU   *)
(* between the two states with nobody to blame.                            *)
(***************************************************************************)
Settled ==
  \A g \in Shared :
    \/ Calling(g)
    \/ lease[g].failed
    \/ residency[g] = "DEGRADED"
    \/ /\ residency[g] = Active(lease[g].role)
       /\ resident[g] = {lease[g].role}

(***************************************************************************)
(* The residency manager implements taking turns.                          *)
(***************************************************************************)
Broken(g) == lease[g].failed \/ residency[g] = "DEGRADED"

UserOf(g) ==
  CASE Broken(g)                        -> "broken"
    [] ~Broken(g) /\ resident[g] = {}  -> "nobody"
    [] ~Broken(g) /\ resident[g] # {}  -> CHOOSE role \in resident[g] : TRUE

Turns == INSTANCE GpuTurns WITH
  Gpus <- Shared,
  user <- [g \in Shared |-> UserOf(g)],
  turn <- [g \in Shared |-> IF Broken(g) THEN "none" ELSE lease[g].role]

TakesTurns == Turns!Spec
=============================================================================
