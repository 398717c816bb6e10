--------------------------- MODULE LocalController ---------------------------
(***************************************************************************)
(* ControllerCore.run_smoke_iteration (src/nano_rl/runtime/controller.py): *)
(* one rollout, train and publish iteration of the local runtime, with the *)
(* roles of src/nano_rl/runtime/roles.py, over the sample queue            *)
(* (SampleQueue), the weight registry (WeightRegistry), the GPU residency  *)
(* and lease managers (GpuResidency, GpuLease) and the rollout manager.    *)
(*                                                                         *)
(* All of it is one thread, but the same controller may be asked for       *)
(* iteration after iteration, also after one that raised, and everything   *)
(* an iteration leaves behind is there for the next: backlog, slots,       *)
(* samples, leases, versions.  Any call of a role and any residency hook   *)
(* may fail.  Nobody else calls the lease manager.                         *)
(***************************************************************************)
EXTENDS Naturals, Sequences, FiniteSets

CONSTANTS
  RankGpus,       \* the GPU of each trainer rank, in rank order
  ReplicaOrder,   \* the rollout replicas, in plan order
  GpusOf,         \* GpusOf[p]: the GPUs of replica p
  RankHolder,     \* the holder id of the trainer rank of a shared GPU
  MaxInFlight, MaxPrompts,
  MaxIterations,  \* bound: how often run_smoke_iteration is called
  Gpus, Holders, Supported, FirstHolder, NoRole, NoHolder, NoCall,  \* GpuResidency
  NumTokens, MaxPolicyLag, SampleTtl, HighWatermark, NoBudget, MaxTime, \* SampleQueue
  ChecksumOf,     \* ChecksumOf[n]: the checksum of a version exported at train step n
  NoVersion, NoActivation                                           \* WeightRegistry

VARIABLES
  pc,          \* what the iteration is about; "idle" between iterations
  iteration,   \* iterations begun
  prompts,     \* len(prompts) of this iteration
  handled,     \* len(samples): requests of this iteration that were generated
  wave,        \* the replicas of the dispatched requests still to be generated
  at,          \* how many GPUs, ranks or replicas the current loop is through
  returns,     \* how many calls of return_to_rollout are left
  target,      \* the version to be activated, NoVersion if there is none
  backlog,     \* len(_input_backlog)
  inFlight,    \* in_flight_by_replica
  cursor,      \* _replica_cycle
  paused,      \* _paused_reason is set
  generated,   \* requests generated so far: their number is the next sample's id
  roleVersion, \* active_policy_version of each replica's role
  steps,       \* train_step of each rank's role
  pending, reserved, acked, dropped, seen, nextBatch, now, policy,
  status, checksum, activation, latestRegistered, latestActive, asked, heard,
  lease, issued, residency, call, resident

controlVars  == <<pc, iteration, prompts, at, returns, target, wave>>
managerVars  == <<handled, backlog, inFlight, cursor, generated, paused>>
roleVars     == <<roleVersion, steps>>
queueVars    == <<pending, reserved, acked, dropped, seen, nextBatch, now, policy>>
registryVars == <<status, checksum, activation, latestRegistered, latestActive, asked, heard>>
gpuVars      == <<lease, issued, residency, call, resident>>
dataVars     == <<managerVars, roleVars, queueVars, registryVars, gpuVars>>
vars         == <<controlVars, dataVars>>

Replicas  == {ReplicaOrder[i] : i \in DOMAIN ReplicaOrder}
MaxEpochs == 2 * MaxIterations
Requests  == 1..MaxIterations * MaxPrompts

Queue == INSTANCE SampleQueue WITH
  Samples <- Requests, MaxSequences <- MaxPrompts, TokenBudgets <- {NoBudget},
  MaxPolicy <- MaxIterations, MaxBatches <- MaxIterations

\* The checksum of a version hashes its parent's and the train step.
Checksums == {ChecksumOf[n] : n \in 0..MaxIterations}

Registry == INSTANCE WeightRegistry WITH
  Versions <- 0..MaxIterations, Workers <- Replicas, Checksums <- Checksums

Residency == INSTANCE GpuResidency WITH MaxEpoch <- MaxEpochs

Shared == Residency!Shared

ASSUME ControllerAssumption ==
  /\ RankGpus \in Seq(Shared) /\ RankGpus # <<>>
  /\ \A g \in Shared : \E i \in DOMAIN RankGpus : RankGpus[i] = g
  /\ \A i, j \in DOMAIN RankGpus : RankGpus[i] = RankGpus[j] => i = j
  /\ ReplicaOrder \in Seq(Replicas) /\ ReplicaOrder # <<>>
  /\ \A i, j \in DOMAIN ReplicaOrder : ReplicaOrder[i] = ReplicaOrder[j] => i = j
  /\ GpusOf \in [Replicas -> SUBSET Gpus]
  /\ RankHolder \in [Shared -> Holders]
  /\ \A g \in Shared : RankHolder[g] # FirstHolder[g]
  /\ \A m, n \in 0..MaxIterations : ChecksumOf[m] = ChecksumOf[n] => m = n
  /\ MaxInFlight \in Nat \ {0} /\ MaxPrompts \in Nat \ {0} /\ MaxIterations \in Nat \ {0}

\* The parts are given what they work with.
ASSUME PartsAssumption ==
  /\ Queue!QueueAssumption /\ Registry!RegistryAssumption
  /\ Residency!LeaseAssumption /\ Residency!ResidencyAssumption

Phases == {"idle", "bootstrap", "pump", "enter", "reserve", "optimize",
           "return", "begin_activation", "activate"}

\* Slots are taken only by requests of a dispatch, of this iteration or of
\* one that raised; loops stay within their ranks, GPUs and replicas.
TypeOK ==
  /\ pc \in Phases /\ iteration \in 0..MaxIterations
  /\ prompts \in 0..MaxPrompts /\ handled \in 0..prompts
  /\ wave \in Seq(Replicas) /\ (wave # <<>> => pc = "pump")
  /\ at \in 0..Len(RankGpus) + Len(ReplicaOrder)
  /\ returns \in 0..2 /\ (returns > 0 <=> pc = "return")
  /\ target \in 0..MaxIterations \cup {NoVersion}
  /\ pc \in {"begin_activation", "activate"} => target # NoVersion
  /\ backlog \in Nat /\ generated \in 0..MaxIterations * MaxPrompts
  /\ inFlight \in [Replicas -> 0..MaxInFlight]
  /\ cursor \in DOMAIN ReplicaOrder /\ paused \in BOOLEAN
  /\ roleVersion \in [Replicas -> 0..MaxIterations \cup {NoVersion}]
  /\ steps \in [Shared -> 0..MaxIterations]
  /\ Queue!TypeOK /\ Registry!RegistryTypeOK /\ Residency!TypeOK

-----------------------------------------------------------------------------
Init ==
  /\ pc = "idle" /\ iteration = 0 /\ prompts = 0 /\ handled = 0
  /\ wave = <<>> /\ at = 0 /\ returns = 0 /\ target = NoVersion
  /\ backlog = 0 /\ generated = 0
  /\ inFlight = [p \in Replicas |-> 0]
  /\ cursor = 1 /\ paused = FALSE
  /\ roleVersion = [p \in Replicas |-> NoVersion]
  /\ steps = [g \in Shared |-> 0]
  /\ Queue!Init /\ Registry!RegistryInit /\ Residency!Init

\* Control goes to a phase, with the version to activate and the calls of
\* return_to_rollout that are left.
Goto(phase, version, times) ==
  /\ pc' = phase /\ at' = 0 /\ target' = version /\ returns' = times /\ wave' = <<>>
  /\ UNCHANGED <<iteration, prompts>>

\* An exception leaves run_smoke_iteration.
Raises == Goto("idle", NoVersion, 0)

\* The next turn of a loop over GPUs, ranks or replicas.
NextTurn == at' = at + 1 /\ UNCHANGED <<pc, iteration, prompts, returns, target, wave>>

WithRollout(g) == Residency!Holds(g, "rollout", FirstHolder[g])
WithTrainer(g) == Residency!Holds(g, "trainer", RankHolder[g])

\* _rollout_leases_for_replica does not raise.
Leased(p) == \A g \in GpusOf[p] : WithRollout(g)

(***************************************************************************)
(* run_smoke_iteration: bootstrap_initial_weight, unless some version is   *)
(* active already, then submit_prompts.                                    *)
(***************************************************************************)
Begin(n) ==
  /\ pc = "idle" /\ iteration < MaxIterations
  /\ iteration' = iteration + 1 /\ prompts' = n /\ handled' = 0
  /\ IF latestActive = NoVersion
     THEN pc' = "bootstrap" /\ UNCHANGED backlog
     ELSE pc' = "pump" /\ backlog' = backlog + n
  /\ UNCHANGED <<at, returns, target, wave, inFlight, cursor, generated, paused,
                 roleVars, queueVars, registryVars, gpuVars>>

Bootstrap ==
  /\ pc = "bootstrap"
  /\ Registry!Register(0, ChecksumOf[0])
  /\ Goto("begin_activation", 0, 0)
  /\ UNCHANGED <<managerVars, roleVars, queueVars, gpuVars>>

-----------------------------------------------------------------------------
(***************************************************************************)
(* pump_rollout_until_blocked.  A dispatch takes as many requests from the *)
(* backlog as queue, slots and this iteration's prompts leave room for,    *)
(* each to the next replica of the cycle with a free slot.                 *)
(***************************************************************************)
Least(S)    == CHOOSE x \in S : \A y \in S : x <= y
Monus(a, b) == IF a > b THEN a - b ELSE 0

\* The slots of a replica are numbered, and what it has in flight is in the first.
FreeSlots == Cardinality({slot \in Replicas \X (1..MaxInFlight) : inFlight[slot[1]] < slot[2]})

Budget_ignoresQueue == Least({FreeSlots, backlog, prompts - handled})
Budget ==
  Least({Monus(HighWatermark, Queue!Depth), FreeSlots, backlog, prompts - handled})

After(i, d) == ((i - 1 + d) % Len(ReplicaOrder)) + 1

Skipped(slots, i) ==
  Least({d \in 0..Len(ReplicaOrder) - 1 : slots[ReplicaOrder[After(i, d)]] < MaxInFlight})

\* A request more of a dispatch, to the next replica with a free slot.
Chosen(t) == After(t.next, Skipped(t.slots, t.next))

Assign(t) ==
  [slots |-> [t.slots EXCEPT ![ReplicaOrder[Chosen(t)]] = @ + 1],
   next  |-> After(Chosen(t), 1),
   wave  |-> Append(t.wave, ReplicaOrder[Chosen(t)])]

Assigned[n \in 0..Budget] ==
  IF n = 0 THEN [slots |-> inFlight, next |-> cursor, wave |-> <<>>]
  ELSE Assign(Assigned[n - 1])

\* Slots, cursor and requests after a dispatch.
Scheduled == Assigned[Budget]

Dispatch ==
  /\ pc = "pump" /\ wave = <<>> /\ ~paused /\ Budget > 0
  /\ inFlight' = Scheduled.slots
  /\ cursor' = Scheduled.next
  /\ wave' = Scheduled.wave
  /\ backlog' = backlog - Budget
  /\ UNCHANGED <<pc, iteration, prompts, at, returns, target, handled, generated, paused,
                 roleVars, queueVars, registryVars, gpuVars>>

\* Nothing more can be dispatched, be the samples as many as the prompts.
Blocked_whenAll == handled = prompts
Blocked         == Budget = 0

PumpEnds ==
  /\ pc = "pump" /\ wave = <<>> /\ ~paused /\ Blocked
  /\ Goto("enter", NoVersion, 0)
  /\ UNCHANGED dataVars

(***************************************************************************)
(* A request is generated, its slot freed and its sample submitted, which  *)
(* may drop it; whether it did is not looked at.  A role without its       *)
(* leases or at another version raises, and any role may, as a paused      *)
(* manager does: then the slots of this request and of the rest of the     *)
(* dispatch stay taken.                                                    *)
(***************************************************************************)
Generate ==
  LET p == Head(wave)
  IN  /\ pc = "pump" /\ wave # <<>>
      /\ Leased(p) /\ roleVersion[p] = latestActive
      /\ inFlight' = [inFlight EXCEPT ![p] = @ - 1]
      /\ generated' = generated + 1
      /\ Queue!SubmitRecord(Queue!Record(generated + 1, latestActive, now))
      /\ handled' = handled + 1
      /\ wave' = Tail(wave)
      /\ UNCHANGED <<pc, iteration, prompts, at, returns, target, backlog, cursor, paused,
                     roleVars, registryVars, gpuVars>>

PumpRaises ==
  /\ pc = "pump" /\ (wave # <<>> \/ paused)
  /\ Raises
  /\ UNCHANGED dataVars

-----------------------------------------------------------------------------
(***************************************************************************)
(* enter_train_window and return_to_rollout: a GPU after the other goes    *)
(* through the residency manager; the first that cannot or does not get    *)
(* there raises.                                                           *)
(***************************************************************************)
Gpu(i)   == RankGpus[i]
Token(g) == Residency!TokenOf(g, lease[g])

\* The last call succeeded; the next one is not refused.
Arrived(role) == call = NoCall /\ (at > 0 => residency[Gpu(at)] = Residency!Active(role))
CanLeave(role) ==
  at < Len(RankGpus) => /\ residency[Gpu(at + 1)] = Residency!Active(role)
                        /\ IF role = "rollout" THEN WithRollout(Gpu(at + 1))
                           ELSE WithTrainer(Gpu(at + 1))

HookReturns ==
  /\ \E outcome \in {"ok", "failed"} :
       Residency!OffloadReturns(outcome) \/ Residency!HydrateReturns(outcome)
  /\ UNCHANGED <<controlVars, managerVars, roleVars, queueVars, registryVars>>

EnterNext ==
  /\ pc = "enter" /\ Arrived("trainer") /\ at < Len(RankGpus) /\ CanLeave("rollout")
  /\ Residency!EnterTrain(Token(Gpu(at + 1)), RankHolder[Gpu(at + 1)])
  /\ NextTurn
  /\ UNCHANGED <<managerVars, roleVars, queueVars, registryVars>>

\* Outside the try: no GPU that was already moved is moved back.
EnterRaises ==
  /\ pc = "enter" /\ call = NoCall /\ ~(Arrived("trainer") /\ CanLeave("rollout"))
  /\ Raises
  /\ UNCHANGED dataVars

Entered ==
  /\ pc = "enter" /\ Arrived("trainer") /\ at = Len(RankGpus)
  /\ Goto("reserve", NoVersion, 0)
  /\ UNCHANGED dataVars

ReturnNext ==
  /\ pc = "return" /\ Arrived("rollout") /\ at < Len(RankGpus) /\ CanLeave("trainer")
  /\ Residency!ExitTrain(Token(Gpu(at + 1)), FirstHolder[Gpu(at + 1)])
  /\ NextTurn
  /\ UNCHANGED <<managerVars, roleVars, queueVars, registryVars>>

\* return_to_rollout is called again by the handler, or the exception leaves.
ReturnRaises ==
  /\ pc = "return" /\ call = NoCall /\ ~(Arrived("rollout") /\ CanLeave("trainer"))
  /\ IF returns = 2 THEN Goto("return", NoVersion, 1) ELSE Raises
  /\ UNCHANGED dataVars

Returned ==
  /\ pc = "return" /\ Arrived("rollout") /\ at = Len(RankGpus)
  /\ CASE returns = 2        -> Goto("return", NoVersion, 1)
       [] returns # 2 /\ target # NoVersion
                             -> Goto("begin_activation", target, 0)
       [] OTHER              -> Raises
  /\ UNCHANGED dataVars

-----------------------------------------------------------------------------
(***************************************************************************)
(* The train window.  It may reserve no batch at all, because nothing was  *)
(* generated (max_sequences is then 0) or what is queued has become stale: *)
(* then the GPUs are returned, an error is raised, and its handler returns *)
(* them a second time.                                                     *)
(***************************************************************************)
Reserve ==
  /\ pc = "reserve"
  /\ Queue!Reserve(handled, NoBudget)
  /\ IF nextBatch' = nextBatch THEN Goto("return", NoVersion, 2)
     ELSE Goto("optimize", NoVersion, 0)
  /\ UNCHANGED <<managerVars, roleVars, registryVars, gpuVars>>

Batch == nextBatch - 1

\* Rank after rank, each adding a train step of its own.
Optimize ==
  /\ pc = "optimize" /\ at < Len(RankGpus)
  /\ WithTrainer(Gpu(at + 1))
  /\ steps' = [steps EXCEPT ![Gpu(at + 1)] = @ + 1]
  /\ NextTurn
  /\ UNCHANGED <<managerVars, roleVersion, queueVars, registryVars, gpuVars>>

\* Rank 0's export_weight, register, ack_batch.
NewVersion_fresh == latestRegistered + 1
NewVersion  == latestActive + 1
NewChecksum == ChecksumOf[steps[Gpu(1)]]

Optimized == at = Len(RankGpus)

Publish ==
  /\ pc = "optimize" /\ Optimized
  /\ Registry!Register(NewVersion, NewChecksum)
  /\ Queue!Ack(Batch)
  /\ Goto("return", NewVersion, 1)
  /\ UNCHANGED <<managerVars, roleVars, gpuVars>>

\* A rank or the export raises, or the registry, which has the version with
\* another checksum: _release_batch_safely, return_to_rollout, raise.
Abandon_keepsGpus == Queue!Release(Batch) /\ Raises
Abandon           == Queue!Release(Batch) /\ Goto("return", NoVersion, 1)

WindowRaises ==
  /\ pc = "optimize"
  /\ Abandon
  /\ UNCHANGED <<managerVars, roleVars, registryVars, gpuVars>>

-----------------------------------------------------------------------------
(***************************************************************************)
(* _activate_weight_for_rollout.  The manager is paused before the         *)
(* registry is asked, outside the try.  Then replica after replica         *)
(* switches its role and acks; the first that fails marks the version      *)
(* failed, and those before it keep it.                                    *)
(***************************************************************************)
BeginActivation ==
  /\ pc = "begin_activation"
  /\ paused' = TRUE
  /\ \/ Registry!BeginActivation(target, Replicas) /\ Goto("activate", target, 0)
     \/ status[target] = "FAILED" /\ Raises /\ UNCHANGED registryVars
  /\ UNCHANGED <<handled, backlog, inFlight, cursor, generated, roleVars, queueVars, gpuVars>>

SwitchNext ==
  /\ pc = "activate"
  /\ Leased(ReplicaOrder[at + 1])
  /\ roleVersion' = [roleVersion EXCEPT ![ReplicaOrder[at + 1]] = target]
  /\ Registry!Ack(target, ReplicaOrder[at + 1])
  /\ UNCHANGED <<handled, inFlight, cursor, generated, steps, gpuVars>>

Activate ==
  /\ at + 1 < Len(ReplicaOrder)
  /\ SwitchNext
  /\ NextTurn
  /\ UNCHANGED <<backlog, paused, queueVars>>

Resume_none == UNCHANGED paused
Resume      == paused' = FALSE

\* The last replica: the version is what the callers pass on from now on.
\* After the bootstrap the prompts are submitted, otherwise all is done.
ActivateLast ==
  /\ at + 1 = Len(ReplicaOrder)
  /\ SwitchNext
  /\ Resume
  /\ policy' = target
  /\ IF target = 0 THEN Goto("pump", NoVersion, 0) /\ backlog' = backlog + prompts
     ELSE Goto("idle", NoVersion, 0) /\ UNCHANGED backlog
  /\ UNCHANGED <<pending, reserved, acked, dropped, seen, nextBatch, now>>

ActivateRaises ==
  /\ pc = "activate"
  /\ Registry!MarkFailed(target)
  /\ Resume
  /\ Raises
  /\ UNCHANGED <<handled, backlog, inFlight, cursor, generated, roleVars, queueVars, gpuVars>>

-----------------------------------------------------------------------------
Tick ==
  /\ Queue!Tick
  /\ UNCHANGED <<controlVars, managerVars, roleVars, registryVars, gpuVars>>

Controller ==
  \/ Bootstrap \/ Dispatch \/ PumpEnds \/ Generate \/ PumpRaises
  \/ EnterNext \/ EnterRaises \/ Entered \/ HookReturns
  \/ Reserve \/ Optimize \/ Publish \/ WindowRaises
  \/ ReturnNext \/ ReturnRaises \/ Returned
  \/ BeginActivation \/ Activate \/ ActivateLast \/ ActivateRaises

Next == Controller \/ (\E n \in 1..MaxPrompts : Begin(n)) \/ Tick

\* The call runs on: every role and every hook returns or raises.
Spec == Init /\ [][Next]_vars /\ WF_vars(Controller)

-----------------------------------------------------------------------------
(***************************************************************************)
(* docs/plans/plan-design.md:528: a failure path must leave no shared GPU  *)
(* with the trainer and no batch reserved.  Between iterations, however    *)
(* the last ones ended, no batch is held, also when the return of the GPUs *)
(* failed in its turn; and every shared GPU is leased to its rollout       *)
(* worker, with only rollout loaded on it, unless a residency hook failed  *)
(* on some GPU: an iteration without a batch, which returns the GPUs       *)
(* twice, a failed rank and a refused version all bring them back.         *)
(***************************************************************************)
ToggleFailed == \E g \in Shared : residency[g] = "DEGRADED"

FailurePathsCleanUp ==
  pc = "idle" =>
    /\ \A b \in Queue!Batches : ~Queue!Live(b)
    /\ \/ ToggleFailed
       \/ \A g \in Shared : WithRollout(g) /\ resident[g] = {"rollout"}

(***************************************************************************)
(* Backpressure holds across iterations: samples of a failed iteration     *)
(* that are back in the queue leave the next dispatch only the room that   *)
(* is left under the watermark, so no sample is generated to be dropped.   *)
(***************************************************************************)
Backpressure == Queue!Depth + Len(wave) <= HighWatermark

(***************************************************************************)
(* Between iterations every replica is at the version the registry calls   *)
(* active and the manager takes requests, unless an activation failed.     *)
(* After a failed one neither need hold: the replicas before the failing   *)
(* one keep the failed version, and a failed bootstrap leaves the manager  *)
(* paused at the next attempt.                                             *)
(***************************************************************************)
SomeFailed == \E v \in 0..MaxIterations : status[v] = "FAILED"

ServesActive ==
  pc = "idle" /\ ~SomeFailed =>
    /\ \A p \in Replicas : roleVersion[p] = latestActive
    /\ ~paused

(***************************************************************************)
(* Versions become active in order and none on top of one that failed or   *)
(* was skipped.  The other side of it: a retry exports the version id that *)
(* is taken, at a later train step and so with another checksum, which the *)
(* registry refuses; after a failed activation the controller never        *)
(* publishes again.                                                        *)
(***************************************************************************)
NoGapInHistory ==
  [][latestActive' # latestActive =>
       /\ latestActive' = IF latestActive = NoVersion THEN 0 ELSE latestActive + 1
       /\ ~SomeFailed]_vars

\* Every iteration ends, and does not wait for samples that cannot come.
IterationEnds == pc # "idle" ~> pc = "idle"
=============================================================================
