---------------------------- MODULE RolloutReplica ----------------------------
(***************************************************************************)
(* One rollout replica: the actor of src/nano_rl/runtime/ray/actors.py,    *)
(* its role and its backend, vLLM, Hugging Face or mock, as the training   *)
(* loop (ray/training.py) drives it: activate a weight, generate, offload  *)
(* for the train window, take the new weight, wake, activate.              *)
(*                                                                         *)
(* A weight is the number of its version, and what an engine computes with *)
(* is the version whose weights it holds.  Version 0 is the base model, at *)
(* the path placement.py configures every engine with.  Every call into an *)
(* engine or a model may fail; a failed step ends the run, and the loop    *)
(* may be run again on the same actors: it takes up the version that the   *)
(* registry last saw active.                                               *)
(***************************************************************************)
EXTENDS Integers, Sequences, FiniteSets, FiniteSetsExt

CONSTANTS
  GpuIds,      \* the GPUs of the replica, in tensor parallel order
  HolderIds,   \* the worker of each of them
  MaxVersion,  \* bound: the last version trained
  MinResponse, MeanResponse, MaxResponse, MaxSequence,  \* rollout.mock
  SamplingCaps, \* the values of sampling_params["max_tokens"]
  PromptSizes, \* the token counts of the prompts
  NoVersion,   \* no weight, no engine
  Torn         \* what an engine holds when writing its weights failed

ASSUME MockConfig == /\ {MinResponse, MeanResponse, MaxResponse, MaxSequence} \subseteq Nat
                     /\ 1 <= MinResponse /\ MinResponse <= MaxResponse
                     /\ 1 <= MeanResponse /\ MeanResponse <= MaxResponse
                     /\ MaxResponse < MaxSequence
                     /\ SamplingCaps \subseteq Nat /\ PromptSizes \subseteq Nat \ {0}
ASSUME OneHolderPerGpu == Len(GpuIds) = Len(HolderIds)
ASSUME Markers == /\ MaxVersion \in Nat
                  /\ NoVersion \notin Nat /\ Torn \notin Nat /\ Torn # NoVersion

VARIABLES
  config,      \* how the replica is configured, and what its engine can do
  phase,       \* where the training loop is
  version,     \* the version the loop generates with
  exported,    \* the version of the train window
  registered,  \* the versions in the weight registry
  leaseRole,   \* the role its GPUs are leased to
  role,        \* active_policy_version of the role
  backend,     \* the state of the backend and of its engine
  sample       \* the last sample generated

vars == <<config, phase, version, exported, registered, leaseRole, role, backend, sample>>

Versions == 0..MaxVersion
NoSample == [version |-> NoVersion, weights |-> NoVersion, prompt |-> 0, tokens |-> 0]

\* shared: the GPUs are a trainer's too; strategy: what offloading does;
\* sync: weight_sync_backend is not "none"; loader: the engine has one of the
\* methods activate_weight, load_weight, load_weights; keeps: weights written
\* into a sleeping engine are still there when it wakes; maxTokens: the cap of
\* the sampling parameters, MaxResponse where they leave it out.
Configs == [backend: {"vllm", "huggingface", "mock"}, shared: BOOLEAN,
            strategy: {"sleep", "teardown"}, sync: BOOLEAN, loader: BOOLEAN,
            keeps: BOOLEAN, lengths: {"fixed", "uniform", "lognormal", "chat_mixture"},
            maxTokens: SamplingCaps \union {MaxResponse}]

\* The mock's knobs matter for the mock only, the engine's for vLLM only.
Sensible(c) == /\ c.backend # "mock" => c.lengths = "fixed" /\ c.maxTokens = MaxResponse
               /\ c.backend # "vllm" => ~c.sync /\ ~c.loader /\ c.keeps

Shared == config.shared
Native == config.backend = "vllm" /\ config.sync

-----------------------------------------------------------------------------
(* Outcomes of a call: whether it returned, and the backend it leaves. *)

Done(b)   == [ok |-> TRUE, b |-> b]
Raised(b) == [ok |-> FALSE, b |-> b]
Outcomes(b) == {Done(b), Raised(b)}

\* Carry on with each outcome that returned.
Then(outcomes, Op(_)) == UNION {IF o.ok THEN Op(o.b) ELSE {o} : o \in outcomes}

\* The leases the loop passes, and whether a backend takes them.
Leases == [i \in DOMAIN GpuIds |-> [gpu |-> GpuIds[i], role |-> leaseRole, holder |-> HolderIds[i]]]
AcceptsLeases(leases) ==
  /\ \A i, j \in DOMAIN leases : leases[i].gpu = leases[j].gpu => i = j
  /\ {leases[i].gpu : i \in DOMAIN leases} = {GpuIds[i] : i \in DOMAIN GpuIds}
  /\ \A i \in DOMAIN leases : leases[i].role = "rollout"
  /\ \A i, j \in DOMAIN leases : leases[i].gpu = GpuIds[j] => leases[i].holder = HolderIds[j]

-----------------------------------------------------------------------------
(* The vLLM backend. *)

Construct(b) == {Raised(b), Done([b EXCEPT !.engine = 0, !.onGpu = TRUE])}

NotifyEngine(b, v) ==
  IF config.loader THEN {Done([b EXCEPT !.engine = v]), Raised([b EXCEPT !.engine = Torn])}
                   ELSE {Done(b)}

\* An engine wakes with what it had, or with what was written into it asleep.
\* Not modelled: the sleep level.  At level 2, the default (placement.py:140),
\* vLLM may discard the weights, and wake loads none; an activation with a
\* loader does, but after a failed window there is no activation.
EngineWake(b) ==
  {Raised(b),
   Done([b EXCEPT !.onGpu = TRUE, !.engine = IF config.keeps THEN @ ELSE b.slept])}

\* A slip: rebuilding an engine does not tell it its weight.
VllmWake_untold(b) ==
  LET Awake(c) == {Done([c EXCEPT !.offloaded = FALSE])}
  IN CASE b.active = NoVersion -> Awake(b)
       [] b.active # NoVersion /\ b.engine = NoVersion -> Then(Construct(b), Awake)
       [] b.active # NoVersion /\ b.engine # NoVersion ->
            Then(IF b.offloaded THEN EngineWake(b) ELSE {Done(b)}, Awake)

VllmWake(b) ==
  LET Rebuilt(c) == NotifyEngine(c, c.active)
      Awake(c)   == {Done([c EXCEPT !.offloaded = FALSE])}
  IN CASE b.active = NoVersion -> Awake(b)
       [] b.active # NoVersion /\ b.engine = NoVersion -> Then(Then(Construct(b), Rebuilt), Awake)
       [] b.active # NoVersion /\ b.engine # NoVersion ->
            Then(IF b.offloaded THEN EngineWake(b) ELSE {Done(b)}, Awake)

VllmActivate(b, v) ==
  LET Fresh(c)   == {Done([c EXCEPT !.offloaded = FALSE])}
      Woken(c)   == IF c.offloaded THEN VllmWake(c) ELSE {Done(c)}
      Told(c)    == IF v \in c.synced THEN {Done(c)} ELSE NotifyEngine(c, v)
      Current(c) == {Done([c EXCEPT !.active = v])}
      built      == IF b.engine = NoVersion THEN Then(Construct(b), Fresh) ELSE {Done(b)}
  IN Then(Then(Then(built, Woken), Told), Current)

\* A slip: the residual memory is looked at before the flag is set.
VllmOffload_lateFlag(b) ==
  LET asleep == [b EXCEPT !.onGpu = FALSE, !.slept = b.engine]
      gone   == [b EXCEPT !.onGpu = FALSE, !.engine = NoVersion]
  IN IF b.engine = NoVersion THEN {Done([gone EXCEPT !.offloaded = TRUE])}
     ELSE LET c == IF config.strategy = "sleep" THEN asleep ELSE gone
          IN {Raised(b), Raised(c), Done([c EXCEPT !.offloaded = TRUE])}

\* The residual memory is looked at when everything is done.
VllmOffload(b) ==
  LET asleep == [b EXCEPT !.onGpu = FALSE, !.slept = b.engine, !.offloaded = TRUE]
      gone   == [b EXCEPT !.onGpu = FALSE, !.engine = NoVersion, !.offloaded = TRUE]
  IN IF b.engine = NoVersion THEN {Done(gone)}
     ELSE IF config.strategy = "sleep" THEN {Raised(b)} \union Outcomes(asleep)
                                       ELSE Outcomes(gone)

RequireEngine(b) == b.engine # NoVersion

StartUpdate(b, v) ==
  IF RequireEngine(b) THEN {Raised(b), Done([b EXCEPT !.pending = v])} ELSE {Raised(b)}

UpdateWeights(b, v) ==
  IF RequireEngine(b) THEN {Raised([b EXCEPT !.engine = Torn]), Done([b EXCEPT !.engine = v])}
                      ELSE {Raised(b)}

FinishUpdate(b) ==
  IF RequireEngine(b) /\ b.pending # NoVersion
  THEN {Raised(b), Done([b EXCEPT !.synced = @ \union {b.pending}, !.pending = NoVersion])}
  ELSE {Raised(b)}

-----------------------------------------------------------------------------
(* The Hugging Face backend: the path of a version's artifact and its       *)
(* checksum are both the version.                                           *)

HfLoad(b, v) ==
  {Raised(b),
   Raised([b EXCEPT !.engine = v, !.onGpu = FALSE]),
   Done([b EXCEPT !.engine = v, !.onGpu = TRUE, !.loaded = v, !.offloaded = FALSE])}

HfWake(b) ==
  LET Awake(c) == {Done([c EXCEPT !.offloaded = FALSE])}
  IN CASE b.active = NoVersion -> Awake(b)
       [] b.active # NoVersion /\ b.engine = NoVersion -> Then(HfLoad(b, b.active), Awake)
       [] b.active # NoVersion /\ b.engine # NoVersion ->
            Then({Raised(b), Done([b EXCEPT !.onGpu = TRUE])}, Awake)

HfActivate(b, v) ==
  LET Woken(c)   == IF c.offloaded THEN HfWake(c) ELSE {Done(c)}
      Current(c) == {Done([c EXCEPT !.active = v])}
      loaded     == IF b.engine = NoVersion \/ b.loaded # v THEN HfLoad(b, v) ELSE {Done(b)}
  IN Then(Then(loaded, Woken), Current)

\* A slip: offloading to the CPU sets the flag and moves nothing.
HfOffload_flagOnly(b) ==
  IF config.strategy = "teardown"
  THEN {Done([b EXCEPT !.engine = NoVersion, !.onGpu = FALSE, !.offloaded = TRUE])}
  ELSE {Raised(b), Done([b EXCEPT !.offloaded = TRUE])}

HfOffload(b) ==
  IF config.strategy = "teardown"
  THEN {Done([b EXCEPT !.engine = NoVersion, !.onGpu = FALSE, !.offloaded = TRUE])}
  ELSE {Raised(b), Done([b EXCEPT !.onGpu = FALSE, !.offloaded = TRUE])}

-----------------------------------------------------------------------------
(* The mock backend: no engine, and responses of drawn length. *)

MockActivate(b, v) == {Done([b EXCEPT !.engine = v, !.active = v, !.offloaded = FALSE])}
MockOffload(b)     == {Done([b EXCEPT !.offloaded = TRUE])}
MockWake(b)        == {Done([b EXCEPT !.offloaded = FALSE])}

AtLeastOne(n)     == Max({1, n})
Smaller(a, b)     == Min({a, b})
MaxTokens(prompt) == Smaller(config.maxTokens, AtLeastOne(MaxSequence - prompt))

\* The draws of _sample_chat_mixture_response_tokens.
ChatMixture(minimum, cap) ==
  UNION {minimum..Max({minimum, Smaller(cap, MeanResponse)}),
         LET low == Max({minimum, MeanResponse \div 2})
         IN low..Max({low, Smaller(cap, MeanResponse * 2)}),
         LET low == Max({minimum, MeanResponse})
         IN low..Max({low, Smaller(cap, MeanResponse * 4)}),
         Max({minimum, cap \div 2})..cap}

\* A slip: the mixture's draw is taken as it is.
Clamp_none(n, minimum, cap) == n

Clamp(n, minimum, cap) == Max({minimum, Smaller(cap, n)})

\* A lognormal draw has no upper bound: one above the cap stands for the rest.
ResponseTokens(prompt) ==
  LET cap     == AtLeastOne(Smaller(MaxTokens(prompt), MaxResponse))
      minimum == Smaller(MinResponse, cap)
      draws   == CASE config.lengths = "fixed"        -> {cap}
                   [] config.lengths = "uniform"      -> minimum..cap
                   [] config.lengths = "lognormal"    -> 0..(cap + 1)
                   [] config.lengths = "chat_mixture" -> ChatMixture(minimum, cap)
  IN {Clamp(n, minimum, cap) : n \in draws}

-----------------------------------------------------------------------------
(* The actor: build_rollout_backend chooses the backend. *)

WithLease(outcomes) == IF AcceptsLeases(Leases) THEN outcomes ELSE {Raised(backend)}

Activated(v) == WithLease(CASE config.backend = "vllm"        -> VllmActivate(backend, v)
                            [] config.backend = "huggingface" -> HfActivate(backend, v)
                            [] config.backend = "mock"        -> MockActivate(backend, v))
Offloaded    == WithLease(CASE config.backend = "vllm"        -> VllmOffload(backend)
                            [] config.backend = "huggingface" -> HfOffload(backend)
                            [] config.backend = "mock"        -> MockOffload(backend))
Woken        == WithLease(CASE config.backend = "vllm"        -> VllmWake(backend)
                            [] config.backend = "huggingface" -> HfWake(backend)
                            [] config.backend = "mock"        -> MockWake(backend))

MayGenerate(v) == /\ AcceptsLeases(Leases)
                  /\ backend.active = v
                  /\ ~backend.offloaded
                  /\ backend.engine # NoVersion
                  /\ config.backend = "mock" => config.maxTokens >= 1

-----------------------------------------------------------------------------
(* The training loop, as far as this replica sees it. *)

Init ==
  /\ config \in {c \in Configs : Sensible(c)}
  /\ phase = "bootstrap"
  /\ version = 0 /\ exported = 0 /\ registered = {0}
  /\ leaseRole = "rollout"
  /\ role = NoVersion
  /\ backend = [engine |-> NoVersion, onGpu |-> FALSE, slept |-> NoVersion,
                active |-> NoVersion, offloaded |-> FALSE, pending |-> NoVersion,
                synced |-> {}, loaded |-> NoVersion]
  /\ sample = NoSample

\* activate_weight: the role takes the version before the backend does.
Activate ==
  /\ phase \in {"bootstrap", "activating"}
  /\ role' = IF AcceptsLeases(Leases) THEN exported ELSE role
  /\ \E o \in Activated(exported) :
       /\ backend' = o.b
       /\ phase' = IF o.ok THEN "serving" ELSE "raised"
       /\ version' = IF o.ok THEN exported ELSE version
  /\ UNCHANGED <<config, exported, registered, leaseRole, sample>>

\* Another replica fails to activate the version this one has.
OthersRaise ==
  /\ phase = "activating"
  /\ role' = exported
  /\ \E o \in Activated(exported) : o.ok /\ backend' = o.b
  /\ phase' = "raised"
  /\ UNCHANGED <<config, version, exported, registered, leaseRole, sample>>

Generate ==
  /\ phase = "serving"
  /\ MayGenerate(version)
  /\ \E prompt \in PromptSizes :
       \E n \in IF config.backend = "mock" THEN ResponseTokens(prompt) ELSE {1} :
         sample' = [version |-> version, weights |-> backend.engine, prompt |-> prompt, tokens |-> n]
  /\ UNCHANGED <<config, phase, version, exported, registered, leaseRole, role, backend>>

GenerateRaises ==
  /\ phase = "serving"
  /\ phase' = "raised"
  /\ UNCHANGED <<config, version, exported, registered, leaseRole, role, backend, sample>>

\* _offload_shared_rollouts; a failure goes straight to the clean-up.
Offload ==
  /\ phase = "serving"
  /\ version < MaxVersion
  /\ \E o \in IF Shared THEN Offloaded ELSE {Done(backend)} :
       /\ backend' = o.b
       /\ phase' = IF o.ok THEN "granting" ELSE "failed"
  /\ UNCHANGED <<config, version, exported, registered, leaseRole, role, sample>>

GrantTrainer ==
  /\ phase = "granting"
  /\ leaseRole' = IF Shared THEN "trainer" ELSE leaseRole
  /\ phase' = "training"
  /\ UNCHANGED <<config, version, exported, registered, role, backend, sample>>

\* Export and register; a version id that is taken has another checksum.
Export ==
  /\ phase = "training"
  /\ exported' = version + 1
  /\ registered' = registered \union {exported'}
  /\ phase' = IF exported' \in registered THEN "failed" ELSE IF Native THEN "starting" ELSE "trained"
  /\ UNCHANGED <<config, version, leaseRole, role, backend, sample>>

\* sync_weights_to_vllm of trainer rank 0.
StartSync ==
  /\ phase = "starting"
  /\ \E o \in StartUpdate(backend, exported) :
       /\ backend' = o.b
       /\ phase' = IF o.ok THEN "sending" ELSE "failed"
  /\ UNCHANGED <<config, version, exported, registered, leaseRole, role, sample>>

SendWeights ==
  /\ phase = "sending"
  /\ \E o \in UpdateWeights(backend, exported) :
       /\ backend' = o.b
       /\ phase' = IF o.ok THEN "finishing" ELSE "failed"
  /\ UNCHANGED <<config, version, exported, registered, leaseRole, role, sample>>

FinishSync ==
  /\ phase = "finishing"
  /\ \E o \in FinishUpdate(backend) :
       /\ backend' = o.b
       /\ phase' = IF o.ok THEN "trained" ELSE "failed"
  /\ UNCHANGED <<config, version, exported, registered, leaseRole, role, sample>>

\* Anything else of the window fails: a rank, the queue, another replica.
WindowRaises ==
  /\ phase \in {"granting", "training", "starting", "sending", "finishing", "trained"}
  /\ phase' = "failed"
  /\ UNCHANGED <<config, version, exported, registered, leaseRole, role, backend, sample>>

\* The finally of _run_train_step.
GrantRollout ==
  /\ phase \in {"trained", "failed"}
  /\ leaseRole' = "rollout"
  /\ phase' = IF phase = "trained" THEN "waking" ELSE "wakingFailed"
  /\ UNCHANGED <<config, version, exported, registered, role, backend, sample>>

Wake ==
  /\ phase \in {"waking", "wakingFailed"}
  /\ \E o \in IF Shared THEN Woken ELSE {Done(backend)} :
       /\ backend' = o.b
       /\ phase' = IF o.ok /\ phase = "waking" THEN "activating" ELSE "raised"
  /\ UNCHANGED <<config, version, exported, registered, leaseRole, role, sample>>

\* run() again on the same graph: _bootstrap_initial_weight finds the active
\* version in the registry.
RunAgain ==
  /\ phase = "raised"
  /\ backend.active # NoVersion
  /\ phase' = "serving"
  /\ UNCHANGED <<config, version, exported, registered, leaseRole, role, backend, sample>>

Next == \/ Activate \/ OthersRaise \/ Generate \/ GenerateRaises
        \/ Offload \/ GrantTrainer \/ Export
        \/ StartSync \/ SendWeights \/ FinishSync
        \/ WindowRaises \/ GrantRollout \/ Wake \/ RunAgain

Spec == Init /\ [][Next]_vars

-----------------------------------------------------------------------------
(* What can go wrong with the configuration, or after a failure. *)

\* No native sync, and an engine that cannot be told to load anything.
CheckpointOnly == config.backend = "vllm" /\ ~config.sync /\ ~config.loader

\* The sync wrote into a sleeping engine that wakes with what it had.
LostAsleep == Native /\ Shared /\ ~config.keeps

\* A version was exported and never got active: the engine may already hold
\* it after a sync, or after an activation that failed half way.
HalfTakenOver == exported # version /\ (Native \/ role = exported)

-----------------------------------------------------------------------------
(* The state of the actor and of its backend stays within its types. *)
TypeOK ==
  /\ Sensible(config) /\ config \in Configs
  /\ version \in Versions /\ exported \in Versions /\ version <= exported
  /\ registered \subseteq Versions
  /\ leaseRole \in {"rollout", "trainer"}
  /\ role \in Versions \union {NoVersion}
  /\ backend.engine \in Versions \union {NoVersion, Torn}
  /\ backend.active \in Versions \union {NoVersion}
  /\ backend.pending \in Versions \union {NoVersion}
  /\ backend.synced \subseteq registered
  /\ backend.engine = NoVersion => ~backend.onGpu

\* A sample recorded under a version was computed with that version's weights
\* (the version id and checksum that generate() writes into it), over every
\* way to offload, wake, sync and reload; except where the configuration
\* cannot deliver weights, or a failed step left a half taken over engine.
ServesItsVersion ==
  [][Generate => \/ sample'.weights = sample'.version
                 \/ CheckpointOnly \/ LostAsleep \/ HalfTakenOver]_vars

\* While the GPUs are leased to the trainer the replica's engine is not on
\* them, also when the offload raised after it had put the engine to sleep,
\* and also during the native weight update, which checks no lease.
OffGpuForTrainer == leaseRole = "trainer" /\ Shared => ~backend.onGpu

\* generate() looks at the flag _offloaded, not at the engine: an engine that
\* the flag calls awake is on its GPU, whatever failed before, unless a new
\* model failed to get there.
FlagTellsTheTruth ==
  config.backend # "mock" /\ backend.active # NoVersion /\ backend.engine # NoVersion /\ ~backend.offloaded
    => backend.onGpu \/ HalfTakenOver

\* A mock response keeps to its length bounds, those of the sampling parameters
\* included, and prompt and response fit max_sequence_tokens, but for the one
\* token a prompt too long still gets.  It is shorter than min_response_tokens
\* only where it is as long as it may be: it has the max_tokens of the sampling
\* parameters, or the sequence is full (mock_rollout_backend.py:170, 256-288).
ResponseFits ==
  config.backend = "mock" /\ sample # NoSample =>
    /\ sample.tokens \in 1..MaxResponse /\ sample.tokens <= config.maxTokens
    /\ sample.prompt + sample.tokens <= Max({MaxSequence, sample.prompt + 1})
    /\ sample.tokens < MinResponse =>
         sample.tokens = config.maxTokens \/ sample.prompt + sample.tokens >= MaxSequence
=============================================================================
