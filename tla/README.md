# nano-rl in TLA+

nano-rl trains a language model by reinforcement learning on one machine: rollout
replicas generate samples with the current weights, a queue collects them, trainer
ranks take a batch, optimize, and publish new weights that the replicas then load.
The point of the design is that rollout and training *share* GPUs and take turns on
them. This directory is a specification of that runtime in TLA+, with TLC
configurations that check it on small instances and TLAPS proofs for every instance.

Paths such as `sample_queue.py` are under `nano_rl/runtime/` of the repository.

1. [The system](#1-the-system)
2. [The modules](#2-the-modules-and-what-they-say-of-the-code)
3. [The runs](#3-the-runs)
4. [The proofs](#4-the-proofs)
5. [Disagreements with the documents](#5-disagreements-with-the-documents)
6. [What is not modelled, and the plan](#6-what-is-not-modelled-and-the-plan)

## 1. The system

### Inventory

| component | state it keeps | operations | what makes it correct |
|---|---|---|---|
| sample queue (`sample_queue.py`) | pending samples in order, reserved batches, acked, dropped and seen ids | submit_sample, reserve_train_batch, ack_batch, release_batch, stats | a sample is in one place; nothing is trained twice; batches are fresh; the watermark bounds it |
| GPU leases (`slot.py`) | per GPU: role, holder, epoch, failed | grant, current_lease, assert_active, mark_failed | one holder per GPU; a superseded token is never accepted again |
| GPU residency (`offload.py`) | per shared GPU: a residency state | enter_train, exit_train, each with two backend hooks | never both roles on a GPU; no GPU left halfway |
| weight registry (`weight_registry.py`) | versions with status, the activation under way, two latest pointers | register, begin_activation, ack_activation, mark_failed | a version is active when all replicas have it; failure is final; a failed one is not selected |
| rollout manager (`coordinators.py`) | prompt backlog, requests in flight, round robin, pause | enqueue_prompts, dispatch_from_backlog, complete_request, pause_for_weight, resume | no overfilled replica or queue; slots are not lost |
| trainer coordinator (`coordinators.py`) | group epoch | rebuild_group, reserve_batch | - |
| Ray training loop (`ray/training.py`, `ray/driver.py`) | where it is, trainer states, active version | run: rollout step, reserve, train window, activation | batches are on policy and settled once; GPUs go back to rollout; a run ends |
| Ray actors (`ray/actors.py`) | the cores above, one per actor; replicas and ranks with their backends | one method call at a time each | mailbox order; a stale lease is refused |
| local controller (`controller.py`, `roles.py`) | the same cores in one process | run_smoke_iteration, enter_train_window, return_to_rollout, pump_rollout | the error paths give back batch and GPUs |
| vLLM, Hugging Face and mock rollout backends | engine, offloaded, active weight, versions synced natively | activate_weight, generate, offload, wake, start/update/finish_weight_update | a sample is made with the weights it is recorded under; off the GPU while the trainer has it |
| trainer backends (`backends/trainer_backend.py`, `backends/fsdp2_backend.py`) | phase, train step, model shard, CPU copy | initialize_rank, hydrate, optimize, export_weight, offload | optimizes only hydrated and under its lease; counter, shard and acked batches agree; exports what it trained |
| weight store (`weight_store.py`) | payloads by version, manifests on disk | store, load, materialize | what is handed out was written in full; the active artifact stays intact |
| weight transfer planner (`weight_transfer.py`) | none | build_plan | every replica has a source it can reach, and both sides the same transport |
| configuration (`nano_rl/config.py`) | the GPU plan | resolution of counts into replicas, ranks, shared GPUs | the plan's GPU sets fit together |
| placement, cluster, launcher (`ray/placement.py`, `ray/cluster.py`, `ray/launcher.py`) | actor handles, the Ray runtime of the process | plan, connect or create, start actors, shut down | no two actors claim a resource; what was brought up is shut down |
| prompt sources, rewards, metrics, artifacts, command line | files, events | reading, scoring, emitting | - |

### How the parts interact

The driver (`RayTrainingLoop.run`) is one thread. It calls every actor by `_call`, which
sends a message and waits for the answer, or sends to all replicas or ranks and waits for
all answers with one `ray.get`. The cores (queue, leases, registry, rollout manager) are
plain objects, each inside an actor that runs one call at a time; the local controller
runs the same cores in its own process. A training step is: enqueue a batch of
prompts; dispatch, generate and submit in waves until enough samples are accepted;
reserve a batch; take the shared GPUs for the trainer, optimize, export, register, offload,
ack (or, on any error, release); give the GPUs back; activate the new version on every
replica.

### What is hard here

* Two roles on one GPU: the order of offload, grant, hydrate and wake, and what an error in
  the middle leaves behind. Tokens of earlier leases are still around.
* The queue's clock: a sample passes the TTL test when it is submitted and may expire
  before it is reserved, or in a batch that comes back. The same holds of the policy lag.
* The watermark: it is checked in two places (dispatch and submit) with two different
  measures of depth, and a sample refused there is lost for good.
* One of several failing: `ray.get` raises on the first error while the others go on.
* Versions and weights: a version id is a label that the loop, the registry, the roles, the
  backends and the artifacts each keep for themselves, while engines sleep, are torn down
  and are rebuilt from the base model.
* What survives a failed step: optimizers have stepped, artifacts are half written, slots are
  taken, GPUs have moved, and the loop or the local controller may be called again.
* The end: every wait loop of the run must come to a stop.

`PROJECT.json` lists each hazard with its line and the properties that cover it.

## 2. The modules and what they say of the code

```
 SampleLedger <-implements- SampleQueue  <--INSTANCE--  RolloutLoop   (Ray loop, rollout manager, queue)
 GpuTurns <-implements- GpuResidency ---EXTENDS--> GpuLease <--INSTANCE-- TrainWindow  (ranks, replicas, leases)
 WeightRegistry
 LocalController --INSTANCE--> SampleQueue, GpuResidency (with GpuLease), WeightRegistry
 RolloutReplica  (one replica, its three backends)      TrainerRanks  (ranks, artifacts, crashes)
 Startup         (configuration to running actors)
 SampleQueueProofs <--INSTANCE-- RolloutLoopProofs, LocalControllerProofs
 GpuResidencyProofs (of GpuLease too) <--INSTANCE-- LocalControllerProofs
 ControlPlaneProofs (of Startup and WeightRegistry), TrainWindowProofs, RolloutReplicaProofs, TrainerRanksProofs
```

A core is single-threaded, so a call is one action; a call that raises before it changes
anything has no action. An operator named `Op_slip` is `Op` with one slip in it; no
specification uses it. It is there to show that the properties notice the slip.

**SampleQueue** is `SampleQueueActorCore`. `pending` is the dict in insertion order,
`reserved` maps batch numbers (uuids in the code) to the refs of the batch. `Submit` is
`submit_sample`: the duplicate test, then TTL, lag and watermark, in the order of the
code; the three drop reasons are one set, since nothing reads the reason. `Reserve` is
the scan of `reserve_train_batch`, described by where it stops: `ScansExactly(n)` says it
looks at the first *n* refs and stops at the first live one there is no room for; stale refs among the *n*
are dropped, live ones become the batch. A caller may ask for no sequence at all, as the local controller
does when nothing was generated: then there is no batch, but stale refs are dropped. `Ack` and `Release` settle a batch;
`Release` appends what is neither acked nor dropped, watermark or not. `Tick` and
`AdvancePolicy` are the environment: time, and the version callers pass. A record's
version and creation time are any up to the present ones.

**SampleLedger** is what the queue promises with the queue taken away: one place per
sample, batches that move as a whole, acked and dropped final.

**GpuLease** is `GpuLeaseManagerCore`. `issued` collects every token that `grant` and
`current_lease` have returned, since tokens travel with calls and may be presented at any
later time. `Supported` is the role set the constructor derives from the GPU plan.

**GpuResidency** extends it with `GpuResidencyManagerCore`. A call of `enter_train` or `exit_train` is
cut at its two backend hooks (`Start`, `OffloadReturns`, `HydrateReturns`), between which
others may call the lease manager. A hook ends in one of four ways: in time, late, with memory left,
or with an error, and `resident` is what it may have done to the GPU. That variable is
the model's knowledge of the hardware, read by no code. `TakeOverRefused` is the raise out of
`grant` for a GPU that failed during the hook. The callers of today wait for each call, so that nothing comes between;
the model allows what the two cores, which share the leases, would let any other caller do.

**GpuTurns** is taking turns: leave, hand the turn over, move in, or break for good.

**WeightRegistry** is `WeightRegistryActorCore`. The history variables `asked` and `heard`
record, per version, whom its last activation asked for and who has acked since.

**RolloutLoop** puts the Ray driver, the prompt batcher, the rollout manager, the replicas and
the sample queue together. `pc` is where the driver is in `run` and `_run_rollout_step`;
each of its calls is a step, the replicas' answers and the clock come in between.
`Schedule` is the round robin of `dispatch_from_backlog`: `Grant` places one request, and the recursive
function `Granted` the first *n* of the wave. The train window and the activation are one step each here, with
every outcome they can have for the queue and the manager. An error ends the run as the
exception does. `idOf` gives a request's sample its id: the backends use the request
id, unless the data set's records name a `sample_id`; a run starts with one of `IdSchemes`.

**TrainWindow** opens the train window and the activation up: `_run_train_step` and
`_activate_weight_for_rollout` with the mailboxes of the ranks and replicas. `pc` is the
kind of call the driver has posted to all of them and waits for. An actor takes its calls in order;
`Begin` and `Succeed` or `Fail` are the two ends of one, so that a call still running
when another has failed is visible. `awaited` marks the calls `ray.get` waits for:
the first one to fail raises, and the driver goes on without the others. The error paths
are those of the code: `NoRoom` before the grant, `CleanUp` and `Release` after it (the ranks are told
to leave behind whatever they are at; an error of that is logged, which `swallowed`
remembers), and the `finally` clause (`GrantRollout`, `Wake`) on every path. `onGpu` is
again the model's knowledge of the hardware: a failed call leaves there either what was there
or what it was moving. `saved` is the driver's `_trainer_states`, from which `hydrate`
restores a rank's step count. A rank is named by its shared GPU, of which the plan gives
it one; the calls in which a rank sends its weights to each replica are one call.

**LocalController** is `ControllerCore.run_smoke_iteration`, iteration after iteration, also
after one that raised. It is the composition of `SampleQueue`, `GpuResidency` (with its
`GpuLease`) and `WeightRegistry`, whose actions are conjuncts of its own, with the rollout
manager's counters and the roles' versions and train steps. Control is `pc` with the index
`at` of the loop under way; each `raise` goes where the code's handlers take it, which includes the
second `return_to_rollout` after an empty batch, the slots a failed `generate` keeps, and the pause before
`begin_activation`. A version's checksum hashes the train step (`ChecksumOf`), so that a retried
step exports a taken id with another checksum.

**RolloutReplica** is one replica as the training loop drives it: actor, role, and the vLLM,
Hugging Face or mock backend, chosen with its options in `Init`. `backend.engine` is the version
whose weights the engine holds, 0 being the base model it is built from; `active`, `synced`,
`offloaded` are the backend's own fields. An operation is the set of its outcomes, each a backend and whether
the call returned; `Then` chains them as the code's statements are chained. A failing engine call changes nothing,
but for one that writes weights, which leaves `Torn` ones. `keeps` says whether weights written into a sleeping engine
are there after its wake, which the code leaves to the engine. `vllm_sleep_level` is not modelled: at level 2, the default
(`placement.py:140`), vLLM may discard the weights, and here an engine wakes with those it had or was given (section 6). `RunAgain` is `run()` called once more on the same
actors, which takes up the version the registry last saw active. `sample` notes what `generate` used.

**TrainerRanks** is the ranks and their artifacts: per rank the `_train_step` counter and, as the
model's knowledge, the batches its shard was really updated with. `kept` is `_trainer_states`; the history variables
`failed` and `failures` count the windows that gave a batch back. `Run` is a
rank's call of any kind, `BeginWrite`, `FinishWrite`, `WriteFails` the export of rank 0, which
fills the version's directory in place. `disk`, `cache` and `whole` are the artifacts on disk, those each rank's
`MockFilesystemWeightStore` has in memory, and those ever finished. `Crash` takes the process down at any point; `Open` is the
start after it, refused when a manifest is torn. The calls to the replicas are left to `TrainWindow`,
the wire protocol of the native sync to nobody: here it fails or it does not.

**Startup** goes from a configuration to a running loop: the checks between counts
(`ValidCounts`, `ValidOptions`), the GPU plan, the actors with their CPUs, memory and custom resources, the source the
weight planner finds for each replica, the transport each side derives, and `RayDriver.train`
step by step with its `finally` clause. A local cluster has the CPUs of the configuration and the memory Ray
finds on the machine (`NodeMemory`), of which each actor of a mock run may ask for some. `offers` is what an existing cluster has, `Waits` an
actor that is never scheduled, on which the loop's first `ray.get` waits.

**MC*** modules supply values and nothing else; **\*Proofs** modules hold the proofs. Where a module has a `TypeOK` that
no run lists, it is a theorem (section 4).

## 3. The runs

| run | bounds | question |
|---|---|---|
| `queue` | 4 samples (one of two tokens), watermark 2, batches of up to 2, clock 0..1, TTL 1, policies 0..2, lag 1, 2 batches | single owner, fresh batches, implements the ledger, under any order of calls; pending and reserved pass the watermark, but never `MaxSequences * (HighWatermark - 1) + 1` |
| `lease` | a shared, a rollout-only, an idle GPU; 2 holders; epochs 0..3 | epochs identify leases, stale tokens stay stale |
| `residency` | 2 shared and 1 rollout-only GPU, epochs 0..2 | exclusion, no GPU halfway, implements taking turns |
| `registry` | 3 versions, 2 replicas, 2 checksums | active means acked by all; failure is final |
| `loop` | 2 steps of 2 prompts, 2 replicas of 1 slot, watermark 3, TTL 2, clock 0..4; ids by request, or of 2 prompts cycled | on policy, nothing trained twice, short only for a reason, ends |
| `full_batches_claim` | as `loop`, ids by request | does every train step get a full batch? No (section 5) |
| `window` | 2 steps, 2 shared GPUs and a rollout-only one with a replica each, any call may fail | ranks train together; GPUs and batch come back on every path; no late call touches a GPU that changed hands, unless a clean-up error was swallowed |
| `one_role_claim` | 1 step of the same | is only one role ever on a shared GPU? No (section 5) |
| `controller` | 3 iterations of 1 or 2 prompts, 2 shared GPUs with a rank and a replica of 1 slot each, watermark 2, TTL 1, any role or hook may fail | failure paths clean up, dispatch stays under the watermark, versions are served and succeed each other in order, every iteration ends |
| `replica` | 1 replica on 2 GPUs, every sensible configuration, versions 0..2, prompts of 1, 9, 10 and 12 tokens in a sequence of 12, responses of 3 to 6, sampling caps of 0, 1, 4 or none, any engine call may fail | samples are of the version they are recorded under, the replica is off the GPU for the trainer, the flag tells where the engine is, responses fit |
| `trainer` | 2 ranks, 2 batches, versions up to 2, 3 windows, 2 failing calls, 1 crash; FSDP2 or mock | how far counters, shards and acked batches drift apart; artifacts of active versions intact; the store serves whole writes |
| `startup` | every valid configuration of at most 4 GPUs, replicas and ranks; local clusters of 13 CPUs; actors that ask for no memory or for one of 16 units each; every step may fail | the plan fits, both sides of a transfer agree, the driver ends without a Ray runtime left behind |

*Why the bounds are enough.* The queue: a TTL of 1 with a clock of 1 and a lag of 1 with
policies up to 2 let a sample go stale in the queue and in a batch; four samples against
a watermark of two reach every verdict and the bound on unsettled samples; two batches of two have one released while another is out; the
two-token sample makes the token budget bite. The leases: three epochs are grant to another
holder, toggle, and toggle back, or a failure in between. Residency: two epochs are a full turn of a
GPU; the second GPU lets a failure hit one the call is not about. The registry is finite
as it is. The loop: two steps let leftovers of the first meet the second; one slot per
replica and a watermark that is no multiple of the wave make all four limits of `Budget` bind in
some run; the clock can expire a sample in every position. The window: with two ranks one can be
late while the other has failed, in every kind of call; in the second step the ranks are not initialized
again but restored from the state saved in the first; the rollout-only replica takes part in the activation
and in nothing else. The controller: an iteration can fail, the next retry, and the third meet what both left; two GPUs
let a toggle fail after another succeeded; two prompts on slots that leaked leave one, then none. The replica: two updates take an
engine through sleep, teardown and wake with a synced version behind it. The trainer: one failure to
spoil a window and one to spoil its clean-up or the next; a version can be exported, fail to become active, be exported again
after a crash. Startup: four GPUs are the least with two groups of two of each kind; the graphs ask for 10 to 16 CPUs
and have 11 to 20 actors, so that 13 CPUs and 16 units of memory are enough for some, and either can be missing alone. Bounds appear in the guards as `MaxTime`, `MaxPolicy`, `MaxBatches`, `MaxEpoch`,
`MaxIterations`, `MaxVersion`, `MaxWindows`, `MaxFaults`, `MaxCrashes` (`MaxSteps` is the program's own), and nowhere else.

*Deadlock* is checked in the queue and the registry, which can always take a call, and in
`Startup`, where ending and waiting for ever are steps of their own. It is
off where the system really stops: when every GPU has failed (or the epoch bound is
reached), when a run or the last iteration has ended, when a torn manifest refuses the start.

*Fairness* is assumed in `RolloutLoop`, `TrainWindow`, `LocalController` and `Startup`: weak fairness of the driver,
which is a loop in one thread that nothing else can block, and of each actor: a call ends
with a value or an error, which is what a `ray.get` without timeout relies on. (A collective
whose peer never joins ends when the communication library's watchdog ends it.) An actor
that hangs for ever hangs the run; the models do not hide that, they assume it away, and
`RunEnds`, `GpusComeBack`, `BatchSettles`, `IterationEnds` and `EndsWithoutRay` are to be read so, except that
`EndsWithoutRay` names the one wait for ever that the program itself sets up, for actors that cannot be scheduled. The clock needs no fairness, and
neither does the caller of an iteration.

*Exceptions a property names.* They are part of what the runs show; TLC finds a counterexample without any of them.
`ServesItsVersion`: an engine that can neither be synced nor told to load anything generates with the base weights
under every version (`CheckpointOnly`); an engine that loses what is written into it asleep does so with the
version before (`LostAsleep`); and after a failure between export and activation the run can be started again
on a replica that holds the new weights under the old version (`HalfTakenOver`). `AckedIsTrained`: a batch is trained
once more for each failed window that gave it back, and the shards of the ranks may then differ.
`CounterFollowsUpdates`: the counter lags by at most one for each of those. `ServesActive`: not after a failed activation,
which leaves some replicas at the failed version. `FailurePathsCleanUp`: not on the GPUs of a residency manager
that is degraded. `TransportsAgree`: not for shared replicas with `objectref` and `auto`.
`ResponseFits`: a prompt too long still gets one token, and a response is shorter than `min_response_tokens` where
`max_tokens` of the sampling parameters or the sequence ends it, which nothing in the configuration forbids.
`EndsWithoutRay`: not where the cluster has too few CPUs, too little memory or not the resources of the plan.

*Do the properties notice?* For every property of every passing run `PROJECT.json` names a
slip in a definition that breaks it: forgetting the epoch in `assert_active`, letting a released
batch keep its place, waking a rebuilt engine without telling it its weight, remembering a payload before it is written, and so on.

## 4. The proofs

All are for any values of the constants that satisfy the module's `ASSUME`: any number of samples,
GPUs, replicas, ranks, versions, steps and failing calls, any bounds. Each uses an inductive
invariant of its proof module, proved of `Init` and kept by one lemma per action; an action property
or a refinement follows from that invariant and the same case split.

* **SampleQueueProofs** (`IInv`): `TypeCorrect`, `SingleOwner` (OnePlace), `BatchesAreFresh`,
  `HoldsBoundedly` (UnsettledBounded), `QueueKeepsLedger` (ImplementsLedger). The invariant is the type
  invariant with OnePlace and: batch numbers not yet used are empty; without it a reservation
  could overwrite a batch. The scan is handled by lemmas on order-preserving
  subsequences: they are duplicate free, and their ids are those of the chosen positions. For the bound
  one more fact is needed, `BatchesSmall`, that no batch is larger than `MaxSequences`: a batch counts as one slot
  against the watermark and comes back as its samples. The refinement is shown call by call: each action
  moves its samples between the ledger's places, or the ledger stutters.
* **GpuResidencyProofs** begins with the lease manager under it: `LeasesWellFormed` (LeaseTypeOK), `EpochIdentifiesLease` (EpochNamesHolder),
  `Fencing` (StaleForever), for any order of its calls. The invariant `LeaseIInv` has `IssuedBehind`: every token out is the
  present lease of its GPU, or its epoch is behind. With `EpochsRise` (epochs never go back, and any change
  raises them) a refused token cannot become valid again. Of the residency manager: `TypeCorrect`, `Exclusion`,
  `Settling`, `SharingTakesTurns` (TakesTurns). Its invariant carries the lease's along
  and adds `Place(g)`: inside a call, what
  is on the GPU by the hook the call is in; outside, by the residency state. `Exclusive`
  alone is not inductive: that the GPU is empty during the hydrate hook is what makes the
  hydration safe, and that needs an accepted offload before the takeover. The refinement maps a hook that
  leaves something behind to a break for good. (Its proof asked of the mapping that the arms of a
  `CASE` exclude each other, which two arms of `UserOf` did not.)
* **ControlPlaneProofs** has both ends of the control plane. Of `Startup`: `ReplicasFit` (ReplicasFitTheGpus) and
  `TransportsMatch` (TransportsAgree), for a cluster of any size. `PlanInv` is only that the configuration passed its checks; the rest
  is arithmetic (`ValidSizes`, `AsManyReplicas`, `GroupIsFull`: the counts divide, so the slices `_build_gpu_plan` cuts are groups
  of `tp` GPUs each, in order) and follows group by group (`OneGroup`, `AllOrNone`: no group is cut by the line between the
  rollout-only GPUs and the shared ones). Two theorems go beyond the run: `PlanIsSchedulable`, no custom resource is claimed by two actors and the node of a
  local cluster advertises every one, so that an actor can wait for CPUs or memory only, and the loop hangs in no case but those
  `EndsWithoutRay` names; and `EndsClean`, the safety half of `EndsWithoutRay`: wherever
  `train` failed, no handle and no runtime it started are left, and it raises exactly if something failed. Of the registry:
  `RegistryTypeCorrect`, `RegistryAgreement` (CommittedByAll), `FailureIsFinal` (FailedForGood);
  the invariant ties the activation's required and acked sets to `asked` and `heard`.
* **RolloutLoopProofs** (`IInv`, that is the queue's own `IInv` and `Driving`): `LoopInvariance`, `TrainsOnPolicy` (OnPolicy),
  `TrainsOnce` (TrainedOnce), `ShortOnlyForAReason` (ShortForAReason), and `LoopDrivesQueue`, `Spec => Q!Spec`:
  the calls the loop makes are among those `SampleQueue` allows, so the queue's theorems hold inside
  the loop and are used there, not shown again. `Driving` says, for each place of the driver, how far it is
  with the prompts of the step and what the queue holds: a step begins with an empty queue, and every sample in it
  since is of the step's prompts and policy. `ShortForAReason` adds `Slots` (the slots taken are those of the requests
  the driver waits for) and `Counted` (accepted samples and prompts to be served add up to the batch size, or
  there is a reason). What the round robin grants is shown of the recursive function `Granted` by a
  minimal counterexample over the naturals: the wave is placed entirely, on free slots. `LoopTypeCorrect` is the
  type invariant, which includes that no slot is lost while the run goes on, and that the driver never comes to a dispatch with
  the manager still paused, which would refuse it.
* **TrainWindowProofs** (`IInv == Shape /\ (swallowed \/ Handover)`): `HandoverInvariant`, `NeverTwoRoles` (OneRoleUnlessSwallowed),
  `WorkUnderLease` (CallsUnderLease), `RanksTrainTogether` (TrainedTogether). No actor compares a lease epoch in
  these calls, so that everything rests on the order of the driver's steps. `Handover` has what that order gives:
  which actors have no call left (`Quiet`), which call an actor has last in its mailbox (`LastCalls`), who holds the
  lease and under which token calls were sent (`LeasesFollow`, `TokensHold`), and who is off the GPU (`OffGpu`). A call that fails early
  leaves others queued; the invariant survives because the last call posted to each of them is the one to
  leave, and the driver waits for that one, unless its error was swallowed. Beyond the run, from `Epochs` (every shared GPU has changed
  hands at most twice for each step begun): `GrantsSucceed`, the lease manager refuses the driver no grant and the bound on the epochs stops none;
  `WindowGrantsLeases`, `Spec => Lease!LeaseSpec`: the window is a caller of the lease manager as `GpuLease` has it, so that
  `EpochIdentifiesLease` and `Fencing` hold of it here; and `WindowTypeCorrect`, with which a raise leaves the driver waiting
  for nothing and no rank is ever ahead of the steps there were.
* **TrainerRanksProofs**: `WholeWritesOnly` (StoreServesWholeWrites) from `Stored`, which adds what is on disk: a directory is empty,
  torn, or holds what was once written to its end. From `IInv == TypeOK /\ Line /\ Counting /\ Trained /\ Artifacts`
  (`RanksInvariance`) come `CounterIsTrue` (CounterFollowsUpdates), `AckedWasTrained` (AckedIsTrained) and `ArtifactStaysIntact`
  (ActiveArtifactIntact). The hard part is calls of an earlier window still on their way to a rank, where a late `hydrate`
  gives the rank an old counter. `Line` says which call in an inbox may be of the present window;
  `Counting` bounds how far each counter, in a rank, kept by the driver or on its way, may be behind;
  `Trained` and `Artifacts` say what a batch and a version have been through when they are acked and activated.
* **RolloutReplicaProofs** has four invariants and a lemma of arithmetic, each resting on lemmas of what a
  backend's calls may leave. `TrainerHasTheGpus` (OffGpuForTrainer), by `IInv`: the
  lease alone says nothing of the engine; the invariant follows the loop from the offload that let it go on to the
  grant back (`OffloadLeaves`: an offload that *returned* left
  the GPU, whatever its strategy; `UpdateStays`: a weight update moves nothing). `TheFlagIsTrue` (FlagTellsTheTruth), by `FlagInv`: the flag is right at every
  phase of the loop but for a Hugging Face model that was loaded for a version which then did not become active
  (`Half`), and `Course` shows that no window gets past its export from there. `SamplesTellTheirWeights` (ServesItsVersion), by `ServeInv`: the
  engine has its active weight and will have it when it wakes (`Right`), or it is torn down and is told its weight when it is
  rebuilt (`Gone`, `Spoilt`), or it is synced ahead of the activation. A version that did not get active stays
  lost (`Lost`), because the next export finds it registered and fails. `ReplicaTypeCorrect`, the type invariant, carries that a
  vLLM engine which is to wake has a weight to wake with. `ResponsesFit` (ResponseFits): the clamps of the mock
  backend, for every length configured and every cap the sampling parameters set.
* **LocalControllerProofs** shows the four properties of the run, then that the controller is a caller of each of its parts
  as the part's own module has it. Each invariant is of what an iteration finds and leaves behind, however many before it raised.
  `VersionInv`: the version after the active one is the only one that can have failed, the one an iteration exports and
  the one it activates; before `at` the roles have it, after `at` the active one. From it `RolesServeTheActive` (ServesActive)
  and `HistoryHasNoGap` (NoGapInHistory). `GpuInv`: unless a toggle failed, all shared GPUs are in one role outside the two
  loops over the GPUs, and in a loop those before `at` have crossed, those after have not, and the one at `at` has the
  hook under way (`Along`, `Crossing`). With `OneBatch` (at most one batch is out, while it is optimized) this is
  `FailuresLeaveNothing` (FailurePathsCleanUp). `RoomInv`: pending samples, the batch that may come back and the requests dispatched
  fit under the watermark together; from it `DispatchLeavesRoom` (Backpressure): what is dispatched has its place under the watermark. It needs
  `VersionInv` (a sample has an active version to be of) and, as `RolloutLoopProofs` does, a minimal counterexample for
  the recursive `Assigned`: a dispatch places exactly the requests it was allowed to. The bounds of a
  reservation are lemmas of `SampleQueueProofs`, used by INSTANCE. `ControllerAssumption` has the
  GPUs of the ranks, and the replicas, all different, as the GPU plan makes them, and at least one rank, as a
  configuration that trains has (rank 0 exports).

  The parts. `IterationsDriveQueue`, `Spec => QP!Spec`, of the instance `QP` of `SampleQueueProofs`: every step is one call of the
  queue or none, each request is submitted once (`seen = 1..generated`), and the policy callers pass follows the active version.
  So the queue's theorems hold in the loop, and `IterationsLoseNoSample` cites them: one place per sample, fresh batches, the ledger,
  however many iterations raise. `IterationsDriveRegistry` does the same for the registry; its one hard fact is that the checksum exported is
  of a train step within bounds (`ExportInv`: a rank makes at most one train step in an iteration, also when the iterations before failed half
  way through the ranks). The residency manager is not driven the same way: the controller presents tokens it has just read, where `GpuResidency` asks
  for one issued before. `IterationsTakeTurns` therefore goes step by step through the lemmas of `GpuResidencyProofs`, which were stated
  for any token of the present lease: the roles exclude each other and take turns as `GpuTurns` has it. `ControllerTypeCorrect` is the whole type invariant
  together with `Slots`: no replica has fewer slots taken than requests of the dispatch owed to it, nor more than it has, so
  none is given back twice; the cycle finds a free slot whenever there is one (`CycleReaches`, `ChoosesFree`), and takes one.

Two assumptions of every theorem are worth a reader's eye: the environment of each module is the one section 2 describes (in
`RolloutReplica` the loop's calls in the loop's order, in `TrainWindow` actors that run one call at a time), and a property's exceptions
(section 3) are part of what is proved.

Only model-checked: liveness (`RunEnds`, `GpusComeBack`, `BatchSettles`, `IterationEnds`, `EndsWithoutRay`), which is out of the
prover's reach, as it needs fairness and ENABLED; of `EndsWithoutRay` the safety half is proved. Every other property of a passing run is
stated by a theorem. The proofs had their say about the model, too: `Reserve` allowed no request for
nothing, which the local controller makes; an iteration without ranks had to be ruled out; and `NodeResources` of `Startup`
left to a precedence rule, which its two readers apply differently, what it unites.

## 5. Disagreements with the documents

Two have a run that shows them:

* **A train step can be short.** `ray/training.py:90-94` stops the run unless a whole batch of
  samples was accepted. Acceptance is not reservation: a sample whose TTL runs out in
  between is dropped by the reservation, and the step goes on with the rest.
* **Two roles on one GPU.** `docs/plans/plan-design.md:261` allows only one role to be
  active on a shared GPU. After an error the driver tells the ranks to offload, but a rank whose
  `initialize_rank` failed refuses (`backends/fsdp2_backend.py:476`). The error is logged
  (`ray/training.py:276`), nobody waits for the other ranks, and the replicas are woken
  on GPUs with a trainer on them. `OneRoleUnlessSwallowed` says this is the only way.

The others follow from the models as written, as the exceptions or bounds their properties need:

* **The queue's depth passes its threshold.** The repository's `README.md:318` calls
  `control.queue_high_watermark` the "Backpressure threshold for sample queue depth". The
  loops measure depth as pending plus reserved *samples* (`ray/training.py:186`,
  `controller.py:375`), the queue as pending samples plus reserved *batches*
  (`sample_queue.py:83`), and a release does not look at it at all. `UnsettledBounded` has the bound that holds.
* **A failed version can be selected.** `docs/plans/plan-design.md:688` forbids it.
  `mark_failed` does not touch `_latest_active_global`, so a version that was active, was
  activated again and failed is still what `latest_active_global` returns.
* **A failure can leave a shared GPU with the trainer.** `docs/plans/plan-design.md:528` forbids it.
  `enter_train_window` (`controller.py:126`) moves GPU by GPU outside the `try`: when a later
  one's hook fails, the earlier ones stay. The batch is never left reserved.
* **`auto` is not always ipc on shared GPUs.** The repository's `README.md:254` and
  `docs/plans/plan-design.md:781` say it is. With `objectref` transfers the planner's source is no
  `shared_gpu_reshard`, and the sender takes nccl for an engine set up for ipc.
* **A Ray runtime the driver did not start** is shut down by its `finally` clause all the same (`ray/driver.py:93`).

## 6. What is not modelled, and the plan

Left out for good: reading data sets, prompts and rewards as text, metrics, command line, downloads: I/O and
formatting with no state to get wrong. Of the modelled parts, the drop
reasons, timings, transition records and statistics; sampling parameters other than the mock's `max_tokens`, texts and token ids; losses and tensors; the parsing,
paths and defaults of the configuration, and of its cross-checks those that compare no counts; the rendezvous of the ranks' process group;
the memory weight store and `materialize`; `rebuild_group`; vLLM's sleep level, on which it depends whether an
engine put to sleep still has its weights when the clean-up of a failed window wakes it and no activation follows; the worker and metrics actors, which the loop does not call. `TrainerRanks` lets the ranks'
`optimize` calls end independently, which covers more outcomes than a collective has.

What would come next: a comparison of `Reserve` with a reference definition, the longest prefix that fits, and the prompt
sources, whose order decides which ids repeat.
