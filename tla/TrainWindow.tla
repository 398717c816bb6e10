---------------------------- MODULE TrainWindow ----------------------------
(***************************************************************************)
(* RayTrainingLoop._run_train_step and _activate_weight_for_rollout        *)
(* (src/nano_rl/runtime/ray/training.py): the driver moves the shared GPUs *)
(* from the rollout replicas to the trainer ranks, trains on one batch,    *)
(* settles the batch, gives the GPUs back and activates the new weights.   *)
(*                                                                         *)
(* The driver posts calls to actors.  An actor runs the calls it was sent  *)
(* one at a time in the order they were sent; ray.get on several of them   *)
(* raises as soon as one has failed, while the others are still queued or  *)
(* running.  Any call to a GPU actor may fail.  The lease manager and the  *)
(* queue are called synchronously and have no other callers here.          *)
(*                                                                         *)
(* The plan gives every shared GPU one trainer rank, so a rank is named by *)
(* its GPU.  An error in a train step ends the run.                        *)
(***************************************************************************)
EXTENDS Naturals, Sequences

CONSTANTS
  Gpus, Holders, Supported, FirstHolder, NoRole, NoHolder,   \* see GpuLease
  RankHolder,    \* the holder id of the trainer rank on a shared GPU
  Replicas,      \* rollout replicas
  GpusOf,        \* GpusOf[p]: the GPUs of replica p
  SyncRanks,     \* the ranks that send their weights to the replicas: all of
                 \* them over IPC, one over NCCL, none if sync is off
  NoState,       \* a rank whose state the driver does not know
  MaxSteps       \* algorithm.max_steps

VARIABLES
  pc,          \* what the driver is about, or waits for
  step,        \* train steps begun
  batch,       \* batch[n]: "reserved", "acked" or "released" in step n, or "none"
  raised,      \* an awaited call has failed
  swallowed,   \* a failed clean-up has been logged and forgotten
  saved,       \* _trainer_states: the train step in each rank's last state
  mailbox,     \* the calls an actor has been sent and has not finished
  busy,        \* the actors that have begun the first call in their mailbox
  trainer,     \* the trainer ranks
  rollout,     \* the rollout replicas
  lease, issued   \* the lease manager's, see GpuLease

driverVars == <<pc, step, batch, raised, swallowed, saved>>
actorVars  == <<mailbox, busy, trainer, rollout>>
leaseVars  == <<lease, issued>>
vars       == <<driverVars, actorVars, leaseVars>>

Lease == INSTANCE GpuLease WITH MaxEpoch <- 2 * MaxSteps

Shared         == {g \in Gpus : "trainer" \in Supported[g]}
SharedReplicas == {p \in Replicas : GpusOf[p] \cap Shared # {}}
Actors         == Shared \cup Replicas

ASSUME WindowAssumption ==
  /\ Lease!LeaseAssumption
  /\ Shared # {}
  /\ RankHolder \in [Shared -> Holders]
  /\ \A g \in Shared : RankHolder[g] # FirstHolder[g]
  /\ GpusOf \in [Replicas -> SUBSET {g \in Gpus : "rollout" \in Supported[g]}]
  /\ \A g \in Shared : \E p \in Replicas : g \in GpusOf[p]
  /\ \A p \in SharedReplicas : GpusOf[p] \subseteq Shared
  /\ SyncRanks \subseteq Shared
  /\ Gpus \cap Replicas = {}
  /\ NoState \notin Nat
  /\ MaxSteps \in Nat \ {0}

Training == {"initialize", "hydrate", "optimize", "export", "sync", "leave"}
Phases   == Training \cup
  {"idle", "make room", "clean up", "give back", "wake", "activate", "done", "failed"}

Call == [op : Training \cup {"wake", "activate"}, awaited : BOOLEAN,
         under : SUBSET Lease!Token]

Awaited(a) == \E i \in DOMAIN mailbox[a] : mailbox[a][i].awaited

\* After an error the driver waits for nothing.
TypeOK ==
  /\ pc \in Phases /\ step \in 0..MaxSteps
  /\ batch \in [1..MaxSteps -> {"none", "reserved", "acked", "released"}]
  /\ raised => \A a \in Actors : ~Awaited(a)
  /\ raised \in BOOLEAN /\ swallowed \in BOOLEAN
  /\ saved \in [Shared -> 0..MaxSteps \cup {NoState}]
  /\ mailbox \in [Actors -> Seq(Call)]
  /\ busy \subseteq {a \in Actors : mailbox[a] # <<>>}
  /\ trainer \in [Shared -> [initialized : BOOLEAN, hydrated : BOOLEAN,
                             onGpu : BOOLEAN, steps : 0..MaxSteps]]
  /\ rollout \in [Replicas -> [offloaded : BOOLEAN, onGpu : BOOLEAN,
                               version : 0..MaxSteps]]
  /\ Lease!LeaseTypeOK

-----------------------------------------------------------------------------
(***************************************************************************)
(* Calls.                                                                  *)
(***************************************************************************)
Leased(g, role, holder) == Lease!Holds(g, role, holder)
WithTrainer(g) == Leased(g, "trainer", RankHolder[g])
WithRollout(g) == Leased(g, "rollout", FirstHolder[g])

\* The tokens of current_lease for the GPUs G.
Tokens(G) == {Lease!TokenOf(g, lease[g]) : g \in G}

NewCall(op, G) == [op |-> op, awaited |-> TRUE, under |-> Tokens(G)]

\* The ranks a kind of call goes to.  The calls by which a rank sends its
\* weights to one replica after the other are one call here.
Takers(op) == IF op = "sync" THEN SyncRanks ELSE Shared

PostRanks(op) ==
  mailbox' = [a \in Actors |->
    IF a \in Takers(op) THEN Append(mailbox[a], NewCall(op, {a})) ELSE mailbox[a]]

\* _rollout_leases_for_replica raises unless the workers hold their GPUs.
PostReplicas(op, P) ==
  /\ \A p \in P : \A g \in GpusOf[p] : WithRollout(g)
  /\ mailbox' = [a \in Actors |->
       IF a \in P THEN Append(mailbox[a], NewCall(op, GpusOf[a])) ELSE mailbox[a]]

\* ray.get has returned.
Gathered == ~raised /\ \A a \in Actors : ~Awaited(a)

\* The calls left after a's first one ended badly: if the driver waits for
\* it, ray.get raises and the driver waits for none of them.
Forget(calls) == [i \in DOMAIN calls |-> [calls[i] EXCEPT !.awaited = FALSE]]

WithoutFirst(a) == [mailbox EXCEPT ![a] = Tail(@)]

-----------------------------------------------------------------------------
(***************************************************************************)
(* The trainer ranks.  The lease check of a rank compares the token's role,*)
(* GPU and holder with its own, which every call here satisfies; the epoch *)
(* is not looked at.  initialize_rank loads the model to the GPU, builds   *)
(* the optimizer and moves both to the CPU; the other calls that need the  *)
(* GPU load what is not there; hydrate also restores the train step from   *)
(* the state that the driver has by then.  offload refuses on a rank that  *)
(* was never initialized.                                                  *)
(***************************************************************************)
Loads(op, g) ==
  \/ op = "initialize"
  \/ op \in {"hydrate", "optimize", "sync"} /\ ~trainer[g].hydrated

Unloads(op, g) == op = "leave" /\ trainer[g].initialized

RankBegins(op, g) ==
  trainer' = [trainer EXCEPT ![g].onGpu = @ \/ Loads(op, g)]

Resident(t, onGpu) == [t EXCEPT !.onGpu = onGpu, !.hydrated = onGpu]

AfterCall(op, g) ==
  LET t == trainer[g]
  IN  CASE op = "initialize" -> [t EXCEPT !.initialized = TRUE, !.onGpu = FALSE]
        [] op = "hydrate"    -> [Resident(t, TRUE) EXCEPT !.steps = saved[g]]
        [] op = "optimize"   -> [Resident(t, TRUE) EXCEPT !.steps = @ + 1]
        [] op = "sync"       -> Resident(t, TRUE)
        [] op = "export"     -> t
        [] op = "leave"      -> Resident(t, FALSE)

RankSucceeds(op, g) ==
  /\ op = "leave" => trainer[g].initialized
  /\ trainer' = [trainer EXCEPT ![g] = AfterCall(op, g)]

\* Where an error strikes decides what is left on the GPU and, in optimize,
\* whether the optimizer has already stepped.
RankFails(op, g) ==
  \E onGpu \in BOOLEAN, stepped \in BOOLEAN :
    /\ Loads(op, g) \/ Unloads(op, g) \/ onGpu = trainer[g].onGpu
    /\ stepped => op = "optimize"
    /\ trainer' = [trainer EXCEPT ![g].onGpu = onGpu,
                                  ![g].steps = IF stepped THEN @ + 1 ELSE @]

(***************************************************************************)
(* The rollout replicas, with the vLLM backend: offload puts the engine to *)
(* sleep or tears it down and raises when too much memory is left; wake    *)
(* does nothing on an engine that was not offloaded.                       *)
(***************************************************************************)
ReplicaBegins(op, p) ==
  rollout' = [rollout EXCEPT ![p].onGpu = @ \/ (op # "leave" /\ rollout[p].offloaded)]

Awake(r) == [r EXCEPT !.offloaded = FALSE, !.onGpu = @ \/ r.offloaded]

ReplicaSucceeds(op, p) ==
  rollout' = [rollout EXCEPT ![p] =
    CASE op = "leave"    -> [@ EXCEPT !.offloaded = TRUE, !.onGpu = FALSE]
      [] op = "wake"     -> Awake(@)
      [] op = "activate" -> [Awake(@) EXCEPT !.version = step]]

ReplicaFails(op, p) ==
  \E onGpu \in BOOLEAN, offloaded \in BOOLEAN :
    /\ op = "leave" \/ rollout[p].offloaded \/ onGpu = rollout[p].onGpu
    /\ offloaded # rollout[p].offloaded =>
         (op = "leave" /\ offloaded) \/ (op = "activate" /\ onGpu)
    /\ rollout' = [rollout EXCEPT ![p].onGpu = onGpu, ![p].offloaded = offloaded]

(***************************************************************************)
(* An actor begins the first call in its mailbox, and ends it.             *)
(***************************************************************************)
Begin(a) ==
  /\ mailbox[a] # <<>> /\ a \notin busy
  /\ busy' = busy \cup {a}
  /\ \/ a \in Shared /\ RankBegins(Head(mailbox[a]).op, a) /\ UNCHANGED rollout
     \/ a \in Replicas /\ ReplicaBegins(Head(mailbox[a]).op, a) /\ UNCHANGED trainer
  /\ UNCHANGED <<driverVars, mailbox, leaseVars>>

Succeed(a) ==
  /\ a \in busy
  /\ busy' = busy \ {a}
  /\ mailbox' = WithoutFirst(a)
  /\ \/ a \in Shared /\ RankSucceeds(Head(mailbox[a]).op, a) /\ UNCHANGED rollout
     \/ a \in Replicas /\ ReplicaSucceeds(Head(mailbox[a]).op, a) /\ UNCHANGED trainer
  /\ UNCHANGED <<driverVars, leaseVars>>

\* ray.get raises if it waits for the call, and then waits for no other.
Fail(a) ==
  /\ a \in busy
  /\ busy' = busy \ {a}
  /\ IF Head(mailbox[a]).awaited
     THEN /\ raised' = TRUE
          /\ mailbox' = [b \in Actors |-> Forget(WithoutFirst(a)[b])]
     ELSE /\ UNCHANGED raised
          /\ mailbox' = WithoutFirst(a)
  /\ \/ a \in Shared /\ RankFails(Head(mailbox[a]).op, a) /\ UNCHANGED rollout
     \/ a \in Replicas /\ ReplicaFails(Head(mailbox[a]).op, a) /\ UNCHANGED trainer
  /\ UNCHANGED <<pc, step, batch, swallowed, saved, leaseVars>>

-----------------------------------------------------------------------------
Init ==
  /\ pc = "idle" /\ step = 0
  /\ batch = [n \in 1..MaxSteps |-> "none"]
  /\ raised = FALSE /\ swallowed = FALSE
  /\ saved = [g \in Shared |-> NoState]
  /\ mailbox = [a \in Actors |-> <<>>]
  /\ busy = {}
  /\ trainer = [g \in Shared |->
       [initialized |-> FALSE, hydrated |-> FALSE, onGpu |-> FALSE, steps |-> 0]]
  /\ rollout = [p \in Replicas |->
       [offloaded |-> FALSE, onGpu |-> TRUE, version |-> 0]]
  /\ Lease!LeaseInit

Settle(outcome) == batch' = [batch EXCEPT ![step] = outcome]

\* The states the ranks have returned.
KeepStates == saved' = [g \in Shared |-> trainer[g].steps]

\* _offload_shared_rollouts, with a batch reserved.
BeginWindow ==
  /\ pc = "idle" /\ step < MaxSteps
  /\ step' = step + 1
  /\ batch' = [batch EXCEPT ![step + 1] = "reserved"]
  /\ PostReplicas("leave", SharedReplicas)
  /\ pc' = "make room"
  /\ UNCHANGED <<raised, swallowed, saved, busy, trainer, rollout, leaseVars>>

\* _grant_train_window, a rank at a time.
GrantTrainer_early(g) ==
  /\ pc = "make room" /\ ~raised
  /\ ~WithTrainer(g)
  /\ Lease!Grant(g, "trainer", RankHolder[g])
  /\ UNCHANGED <<driverVars, actorVars>>

GrantTrainer(g) ==
  /\ pc = "make room" /\ Gathered
  /\ ~WithTrainer(g)
  /\ Lease!Grant(g, "trainer", RankHolder[g])
  /\ UNCHANGED <<driverVars, actorVars>>

(***************************************************************************)
(* The calls to all ranks, one kind after the other: the driver posts the  *)
(* next kind when every rank has answered the last.                        *)
(***************************************************************************)
Initialized == \A g \in Shared : saved[g] # NoState

After(phase) ==
  CASE phase = "make room"  -> IF Initialized THEN "hydrate" ELSE "initialize"
    [] phase = "initialize" -> "hydrate"
    [] phase = "hydrate"    -> "optimize"
    [] phase = "optimize"   -> "export"
    [] phase = "export"     -> "sync"
    [] phase = "sync"       -> "leave"

NextCall ==
  /\ pc \in ({"make room"} \cup Training) \ {"leave"}
  /\ Gathered
  /\ \A g \in Shared : WithTrainer(g)
  /\ PostRanks(After(pc))
  /\ pc' = After(pc)
  /\ IF pc \in {"initialize", "hydrate"} THEN KeepStates ELSE UNCHANGED saved
  /\ UNCHANGED <<step, batch, raised, swallowed, busy, trainer, rollout, leaseVars>>

\* _offload_trainers has returned, and ack_batch.
Ack_stateLost ==
  /\ pc = "leave" /\ Gathered
  /\ Settle("acked")
  /\ pc' = "give back"
  /\ UNCHANGED <<step, raised, swallowed, saved, actorVars, leaseVars>>

Ack ==
  /\ pc = "leave" /\ Gathered
  /\ KeepStates
  /\ Settle("acked")
  /\ pc' = "give back"
  /\ UNCHANGED <<step, raised, swallowed, actorVars, leaseVars>>

(***************************************************************************)
(* The error paths.  Without trainer leases the batch is released at once; *)
(* with them the ranks are first told to leave, whether or not they are    *)
(* still at work, and an error of this best effort is only logged.         *)
(***************************************************************************)
NoRoom_unsettled ==
  /\ pc = "make room" /\ raised
  /\ raised' = FALSE
  /\ pc' = "give back"
  /\ UNCHANGED <<step, batch, swallowed, saved, actorVars, leaseVars>>

NoRoom ==
  /\ pc = "make room" /\ raised
  /\ raised' = FALSE
  /\ Settle("released")
  /\ pc' = "give back"
  /\ UNCHANGED <<step, swallowed, saved, actorVars, leaseVars>>

CleanUp ==
  /\ pc \in Training /\ raised
  /\ raised' = FALSE
  /\ PostRanks("leave")
  /\ pc' = "clean up"
  /\ UNCHANGED <<step, batch, swallowed, saved, busy, trainer, rollout, leaseVars>>

Release_noWait ==
  /\ pc = "clean up"
  /\ UNCHANGED <<swallowed, saved>>
  /\ raised' = FALSE
  /\ Settle("released")
  /\ pc' = "give back"
  /\ UNCHANGED <<step, actorVars, leaseVars>>

Release ==
  /\ pc = "clean up"
  /\ \/ Gathered /\ KeepStates /\ UNCHANGED swallowed
     \/ raised /\ swallowed' = TRUE /\ UNCHANGED saved
  /\ raised' = FALSE
  /\ Settle("released")
  /\ pc' = "give back"
  /\ UNCHANGED <<step, actorVars, leaseVars>>

(***************************************************************************)
(* finally: _grant_rollout_window, a GPU at a time, then                   *)
(* _wake_shared_rollouts.                                                  *)
(***************************************************************************)
GrantRollout_acked(g) ==
  /\ pc = "give back" /\ batch[step] = "acked"
  /\ ~WithRollout(g)
  /\ Lease!Grant(g, "rollout", FirstHolder[g])
  /\ UNCHANGED <<driverVars, actorVars>>

GrantRollout(g) ==
  /\ pc = "give back"
  /\ ~WithRollout(g)
  /\ Lease!Grant(g, "rollout", FirstHolder[g])
  /\ UNCHANGED <<driverVars, actorVars>>

Wake ==
  /\ pc = "give back"
  /\ \A g \in Shared : WithRollout(g)
  /\ PostReplicas("wake", SharedReplicas)
  /\ pc' = "wake"
  /\ UNCHANGED <<step, batch, raised, swallowed, saved, busy, trainer, rollout, leaseVars>>

EndWindow ==
  /\ pc = "wake" /\ Gathered
  /\ pc' = IF batch[step] = "acked" THEN "activate" ELSE "failed"
  /\ UNCHANGED <<step, batch, raised, swallowed, saved, actorVars, leaseVars>>

\* _activate_weight_for_rollout, a replica at a time.
ToActivate == {p \in Replicas : rollout[p].version # step}

Activate(p) ==
  /\ pc = "activate" /\ Gathered
  /\ p \in ToActivate
  /\ PostReplicas("activate", {p})
  /\ UNCHANGED <<driverVars, busy, trainer, rollout, leaseVars>>

EndStep ==
  /\ pc = "activate" /\ Gathered
  /\ ToActivate = {}
  /\ pc' = IF step = MaxSteps THEN "done" ELSE "idle"
  /\ UNCHANGED <<step, batch, raised, swallowed, saved, actorVars, leaseVars>>

Die ==
  /\ pc \in {"wake", "activate"} /\ raised
  /\ raised' = FALSE
  /\ pc' = "failed"
  /\ UNCHANGED <<step, batch, swallowed, saved, actorVars, leaseVars>>

Driver ==
  \/ BeginWindow \/ NextCall \/ Ack \/ NoRoom \/ CleanUp \/ Release
  \/ \E g \in Shared : GrantTrainer(g) \/ GrantRollout(g)
  \/ Wake \/ EndWindow \/ (\E p \in Replicas : Activate(p)) \/ EndStep \/ Die

Actor(a) == Begin(a) \/ Succeed(a) \/ Fail(a)

Next == Driver \/ \E a \in Actors : Actor(a)

\* The driver goes on when it can, and every call returns or fails.
Fairness == WF_vars(Driver) /\ \A a \in Actors : WF_vars(Actor(a))

Spec == Init /\ [][Next]_vars /\ Fairness

-----------------------------------------------------------------------------
(***************************************************************************)
(* docs/plans/plan-design.md:261: on a shared GPU "only one role may be    *)
(* GPU-active at any time".  The rollout engine and the trainer are never  *)
(* on a GPU at once.                                                       *)
(***************************************************************************)
RolloutOn(g) == \E p \in Replicas : g \in GpusOf[p] /\ rollout[p].onGpu

OneRolePerGpu == \A g \in Shared : ~(RolloutOn(g) /\ trainer[g].onGpu)

(***************************************************************************)
(* What the driver does guarantee: unless the clean-up of a failed window  *)
(* itself failed and the error was swallowed, the roles are never on a GPU *)
(* together, although ray.get gives up on calls that are still running.    *)
(***************************************************************************)
OneRoleUnlessSwallowed == swallowed \/ OneRolePerGpu

(***************************************************************************)
(* Nor does any call, queued or running, outlive the lease it was sent     *)
(* under: the actors do not check the lease epoch, so the order of the     *)
(* driver's steps is all that keeps late work off a GPU that changed hands.*)
(***************************************************************************)
CallsUnderLease ==
  swallowed \/ \A a \in Actors : \A i \in DOMAIN mailbox[a] :
    \A t \in mailbox[a][i].under : Lease!AssertActive(t)

(***************************************************************************)
(* The ranks train together: a batch is acked only when every rank has     *)
(* made its step on it, and between train steps each rank has made as many *)
(* steps as there were batches, none lost in a restore from a saved state. *)
(***************************************************************************)
TrainedTogether ==
  /\ \A n \in 1..MaxSteps, g \in Shared : batch[n] = "acked" => trainer[g].steps >= n
  /\ pc \in {"idle", "done"} => \A g \in Shared : trainer[g].steps = step

(***************************************************************************)
(* The failure paths of a train step (docs/plans/plan-design.md:528): no   *)
(* GPU stays leased to the trainer, no batch stays reserved.               *)
(***************************************************************************)
GpusComeBack == \A g \in Shared : WithTrainer(g) ~> WithRollout(g)

BatchSettles ==
  \A n \in 1..MaxSteps : batch[n] = "reserved" ~> batch[n] \in {"acked", "released"}
=============================================================================
