-------------------------------- MODULE Startup --------------------------------
(***************************************************************************)
(* From a configuration to a running actor graph: the checks and the GPU   *)
(* plan of src/nano_rl/config.py, the actors of ray/placement.py, the      *)
(* sources and transports of weight_transfer.py and ray/training.py, and   *)
(* RayDriver.train (ray/driver.py) with ray/cluster.py and ray/launcher.py *)
(* below it.                                                               *)
(*                                                                         *)
(* Of a configuration only the counts and switches are kept that decide    *)
(* where something runs.  GPUs are numbered from 0, rollout-only ones      *)
(* first.  ray.init, the creation of an actor and the training loop may    *)
(* fail; an actor whose CPUs, memory or custom resources the cluster does  *)
(* not have is never scheduled, and the loop waits for it without a        *)
(* timeout.                                                                *)
(***************************************************************************)
EXTENDS Integers, Sequences, FiniteSets, SequencesExt, FiniteSetsExt

CONSTANTS
  Sizes,       \* the counts of GPUs, replicas, ranks to choose from
  NumGpus,     \* runtime.local.num_gpus
  LocalCpus,   \* the values of runtime.local.cpus
  ActorMemory, \* the values of mock.ray_actor_memory_mb; 0: not set, or no mock run
  NodeMemory,  \* what Ray finds on the machine, which the code leaves to it
  CpusPerRank, \* placement.trainer.cpus_per_rank
  RewardActors \* placement.reward.num_actors, of a CPU each

ASSUME SizesAreCounts ==
  /\ Sizes \subseteq Nat /\ NumGpus \in Nat \ {0}
  /\ RewardActors \in Nat
  /\ ActorMemory \subseteq Nat /\ NodeMemory \in Nat

VARIABLES
  counts,   \* topology, parallel and placement sections
  options,  \* the switches of the other sections
  stage,    \* where RayDriver.train is
  created,  \* how many actors have a handle
  ray,      \* the Ray runtime of this process: who brought it up
  offers,   \* an existing cluster has the CPUs, memory and resources of the plan
  failed    \* an exception is on its way out

vars == <<counts, options, stage, created, ray, offers, failed>>

Positive == Sizes \ {0}
Counts == [mode: {"collocated", "disaggregated"}, rolloutOnly: Sizes, shared: Sizes, idle: {0, 1},
           dp: Positive, tp: Positive,                  \* parallel.rollout
           replicas: Positive, perReplica: Positive,    \* placement.rollout
           ranks: Positive, world: Positive]            \* placement.trainer, parallel.trainer
Options == [lag: {0, 1}, method: {"locality_aware_checkpoint", "objectref"}, pull: BOOLEAN,
            sync: {"auto", "ipc", "nccl", "none"}, startRay: BOOLEAN,
            address: {"auto", "local", "explicit"}, cpus: LocalCpus, memory: ActorMemory]

-----------------------------------------------------------------------------
(* RuntimeConfig._validate_cross_fields *)

TopologyFits(c) == IF c.mode = "collocated" THEN c.rolloutOnly = 0 /\ c.shared >= 1
                                            ELSE c.rolloutOnly >= 1 /\ c.shared >= 1
LagFits(c, o) == IF c.mode = "collocated" THEN o.lag = 0 ELSE o.lag >= 1

\* A slip: the kinds of GPUs are not divided by the tensor parallel size.
GroupsFit_total(c) == TRUE
GroupsFit(c) == c.rolloutOnly % c.tp = 0 /\ c.shared % c.tp = 0

ValidCounts(c) ==
  /\ TopologyFits(c)
  /\ c.rolloutOnly + c.shared + c.idle <= NumGpus
  /\ c.ranks = c.shared /\ c.world = c.ranks
  /\ c.replicas * c.perReplica = c.rolloutOnly + c.shared
  /\ c.replicas = c.dp /\ c.perReplica = c.tp
  /\ GroupsFit(c)
ValidOptions(c, o) ==
  /\ LagFits(c, o)
  /\ o.method = "locality_aware_checkpoint" /\ c.rolloutOnly > 0 => o.pull

-----------------------------------------------------------------------------
(* _build_gpu_plan *)

Shared      == counts.rolloutOnly..counts.rolloutOnly + counts.shared - 1
RolloutGpus == [i \in 1..counts.rolloutOnly + counts.shared |-> i - 1]

ReplicaGpus(d) == SubSeq(RolloutGpus, (d - 1) * counts.tp + 1, Min({d * counts.tp, Len(RolloutGpus)}))
ReplicaCount   == (Len(RolloutGpus) + counts.tp - 1) \div counts.tp
Replicas == [d \in 1..ReplicaCount |->
               [gpus |-> ReplicaGpus(d),
                topology |-> IF ToSet(ReplicaGpus(d)) \subseteq Shared THEN "shared" ELSE "rollout_only"]]

(* build_ray_launch_plan *)

\* Every actor of a mock run asks for the same memory.
Actor(kind, cpus, resources) ==
  [kind |-> kind, cpus |-> cpus, memory |-> options.memory, resources |-> resources]
RolloutResources(gpus) == {<<"rollout_gpu", g>> : g \in gpus}
TrainResource(g) == <<"train_gpu", g>>

Cores    == [i \in 1..7 |-> Actor("core", 1, {})]
Rewards  == [i \in 1..RewardActors |-> Actor("reward", 1, {})]
Controls == [d \in 1..ReplicaCount |-> Actor("replica", 1, RolloutResources(ToSet(Replicas[d].gpus)))]
RolloutWorkers == [i \in 1..Len(RolloutGpus) |-> Actor("worker", 0, {})]
Ranks    == [i \in 1..counts.shared |->
               Actor("rank", CpusPerRank, {TrainResource(counts.rolloutOnly + i - 1)})]
Actors   == Cores \o Rewards \o Controls \o RolloutWorkers \o Ranks

NodeResources == (UNION {RolloutResources(ToSet(Replicas[d].gpus)) : d \in 1..ReplicaCount})
                   \union {TrainResource(g) : g \in Shared}

UniqueResources ==
  \A actors \in {Actors} : \A i, j \in DOMAIN actors :
    i # j => actors[i].resources \intersect actors[j].resources = {}

\* What all actors ask for together, of "cpus" or "memory".
Demand(what) ==
  LET actors == Actors
      upTo[n \in 0..Len(actors)] == IF n = 0 THEN 0 ELSE upTo[n - 1] + actors[n][what]
  IN upTo[Len(actors)]

-----------------------------------------------------------------------------
(* WeightTransferPlanner.build_plan, and who transfers how *)

\* The GPUs of a replica, by their place in it, that a trainer rank is on.
LocalRanks(gpus) == {i \in DOMAIN gpus : gpus[i] \in Shared}
SourceKind(d) ==
  CASE options.method = "objectref" -> "ray_object_ref"
    [] options.method # "objectref" /\ Cardinality(LocalRanks(Replicas[d].gpus)) = Len(Replicas[d].gpus)
         -> "shared_gpu_reshard"
    [] OTHER -> IF options.pull THEN "artifact_pull" ELSE "refused"

\* A slip: a replica's engine is set up by the mode of the run.
EngineTransport_byMode(d) ==
  IF options.sync # "auto" THEN options.sync
  ELSE IF counts.mode = "collocated" THEN "ipc" ELSE "nccl"
\* What the engine of a replica is set up for, and what the ranks send with.
EngineTransport(d) == IF options.sync # "auto" THEN options.sync
                      ELSE IF Replicas[d].topology = "shared" THEN "ipc" ELSE "nccl"
SendTransport(d)   == IF options.sync \in {"ipc", "nccl"} THEN options.sync
                      ELSE IF SourceKind(d) = "shared_gpu_reshard" THEN "ipc" ELSE "nccl"

-----------------------------------------------------------------------------
(* RayDriver.train *)

Goto(s) == stage' = s /\ UNCHANGED <<counts, options, offers>>

Init == /\ counts \in Counts /\ ValidCounts(counts)
        /\ options \in Options /\ ValidOptions(counts, options)
        /\ stage = "artifacts" /\ created = 0 /\ failed = FALSE
        /\ ray \in {"down", "foreign"}
        /\ offers \in BOOLEAN

ArtifactsValid   == stage = "artifacts" /\ Goto("plan") /\ UNCHANGED <<created, ray, failed>>
ArtifactsMissing == stage = "artifacts" /\ Goto("raised") /\ failed' = TRUE /\ UNCHANGED <<created, ray>>

\* Planning raises on a resource that two actors claim.
Plan == /\ stage = "plan"
        /\ failed' = ~UniqueResources
        /\ Goto(CASE ~UniqueResources                      -> "raised"
                  [] UniqueResources /\ ~options.startRay  -> "returned"
                  [] UniqueResources /\ options.startRay   -> "cluster")
        /\ UNCHANGED <<created, ray>>

AlreadyUp == stage = "cluster" /\ ray = "foreign" /\ Goto("actors") /\ UNCHANGED <<created, ray, failed>>

\* A slip: what comes up before an error is not shut down.
Escape_direct == Goto("raised") /\ failed' = TRUE
\* An exception inside the try goes through the finally clause.
Escape == Goto("shutdown") /\ failed' = TRUE

Connect == /\ stage = "cluster" /\ ray = "down" /\ options.address # "local"
           /\ Goto("actors") /\ ray' = "joined"
           /\ UNCHANGED <<created, failed>>

\* ray.init raises, having come up or not; only "auto" goes on.
ConnectFails ==
  /\ stage = "cluster" /\ ray = "down" /\ options.address # "local"
  /\ ray' \in {"down", "joined"}
  /\ IF options.address = "explicit" THEN Escape
     ELSE Goto(IF ray' = "joined" THEN "actors" ELSE "local") /\ UNCHANGED failed
  /\ UNCHANGED created

CreatesLocal == stage = "local" \/ (stage = "cluster" /\ ray = "down" /\ options.address = "local")
CreateLocal == /\ CreatesLocal
               /\ Goto("actors") /\ ray' = "local"
               /\ UNCHANGED <<created, failed>>
CreateLocalFails == /\ CreatesLocal
                    /\ ray' \in {"down", "local"}
                    /\ Escape
                    /\ UNCHANGED created

CreateActor == /\ stage = "actors" /\ created < Len(Actors)
               /\ created' = created + 1
               /\ Goto("actors")
               /\ UNCHANGED <<ray, failed>>
CreateActorFails == /\ stage = "actors" /\ created < Len(Actors)
                    /\ Escape
                    /\ UNCHANGED <<created, ray>>
StartLoop == /\ stage = "actors" /\ created = Len(Actors)
             /\ Goto("loop")
             /\ UNCHANGED <<created, ray, failed>>

\* Whether every actor finds the CPUs, the memory and the resources it asks for.
\* A local cluster has the CPUs of the configuration and the machine's memory.
HasRoom   == Demand("cpus") <= options.cpus /\ Demand("memory") <= NodeMemory
Scheduled == IF ray = "local" THEN /\ HasRoom
                                   /\ \A actor \in ToSet(Actors) : actor.resources \subseteq NodeResources
                              ELSE offers

LoopCompletes == /\ stage = "loop" /\ Scheduled
                 /\ Goto("shutdown")
                 /\ UNCHANGED <<created, ray, failed>>
LoopRaises    == /\ stage = "loop" /\ Scheduled
                 /\ Escape
                 /\ UNCHANGED <<created, ray>>

Shutdown == /\ stage = "shutdown"
            /\ ray' = "down" /\ created' = 0
            /\ Goto(IF failed THEN "raised" ELSE "returned")
            /\ UNCHANGED failed

Ended == stage \in {"returned", "raised"} /\ UNCHANGED vars
Waits == stage = "loop" /\ ~Scheduled /\ UNCHANGED vars

Driver == \/ ArtifactsValid \/ ArtifactsMissing \/ Plan
          \/ AlreadyUp \/ Connect \/ ConnectFails \/ CreateLocal \/ CreateLocalFails
          \/ CreateActor \/ CreateActorFails \/ StartLoop
          \/ LoopCompletes \/ LoopRaises \/ Shutdown

Next == Driver \/ Ended \/ Waits

\* Every call of the driver returns, the loop's if its actors are scheduled.
Spec == Init /\ [][Next]_vars /\ WF_vars(Driver)

-----------------------------------------------------------------------------
\* Whatever counts the configuration gets past the checks with, each rollout
\* GPU is in one replica, a replica is all on GPUs the trainer shares or all on
\* GPUs it never touches, so that a train window can tell by its topology
\* whether it must give way, and the planner has a source for each
\* (config.py:515-605, 705-771, training.py:448-454).
ReplicasFitTheGpus ==
  /\ \A g \in ToSet(RolloutGpus) :
       Cardinality({d \in 1..ReplicaCount : g \in ToSet(Replicas[d].gpus)}) = 1
  /\ \A d \in 1..ReplicaCount :
       /\ Len(Replicas[d].gpus) = counts.tp
       /\ Replicas[d].topology = "rollout_only" => ToSet(Replicas[d].gpus) \intersect Shared = {}
       /\ SourceKind(d) # "refused"
  /\ ReplicaCount = counts.dp

\* The trainer sends to every replica with the transport its engine was set up
\* for.  The two sides decide apart, one by the GPUs of the replica, the other
\* by the source the planner found (placement.py:267-273, training.py:368-375);
\* they differ exactly for the replicas on shared GPUs of a run that transfers
\* by object reference and leaves the transport open.
TransportsAgree ==
  \A d \in 1..ReplicaCount :
    options.sync # "none" =>
      (EngineTransport(d) # SendTransport(d)
         <=> /\ options.sync = "auto" /\ options.method = "objectref"
             /\ Replicas[d].topology = "shared")

\* train ends, with a result or an error, and leaves no Ray runtime behind that
\* it brought up, whatever failed on the way; unless an actor can never be
\* scheduled: in an existing cluster without the resources of the plan, or in
\* a local one with fewer CPUs or less memory than the actors ask for together;
\* there it waits for ever (driver.py:74-96, cluster.py:54-138,
\* launcher.py:70-125, 169-180).
NoRoom == IF ray = "local" THEN ~HasRoom ELSE ~offers
EndsWithoutRay ==
  \/ <>[](stage \in {"returned", "raised"} /\ ray \notin {"joined", "local"})
  \/ <>[](stage = "loop" /\ NoRoom)
=============================================================================
