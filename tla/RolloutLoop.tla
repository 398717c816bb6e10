---------------------------- MODULE RolloutLoop ----------------------------
(***************************************************************************)
(* The steps of a training run up to the reserved batch: the loop of       *)
(* RayTrainingLoop (src/nano_rl/runtime/ray/training.py) over the prompt   *)
(* batcher, the rollout manager (src/nano_rl/runtime/coordinators.py), the *)
(* replicas that generate, and the sample queue (SampleQueue).             *)
(*                                                                         *)
(* The driver is one thread that waits for each call, so a call is one of  *)
(* its steps.  Concurrent with it are the replicas, each of which returns  *)
(* a sample or an error some time after the dispatch, and the clock.  The  *)
(* train step itself is two steps here, the window that consumes the batch *)
(* or gives it back and the activation of the new weights, each of which   *)
(* may fail.  Any error ends the run.                                      *)
(***************************************************************************)
EXTENDS Naturals, Sequences, FiniteSets

CONSTANTS
  BatchSize,      \* trainer.global_batch_size: prompts and samples of a step
  MaxSteps,       \* algorithm.max_steps
  NumReplicas,    \* rollout replicas, in the order of the plan
  MaxInFlight,    \* max_in_flight_per_replica
  Samples,
  IdSchemes,      \* ways in which a data set may name the requests' samples
  NumTokens, MaxPolicyLag, SampleTtl, HighWatermark, NoBudget, MaxTime

Requests == 1..BatchSize * MaxSteps
Replicas == 1..NumReplicas

ASSUME LoopAssumption ==
  /\ BatchSize \in Nat \ {0} /\ MaxSteps \in Nat \ {0}
  /\ NumReplicas \in Nat \ {0} /\ MaxInFlight \in Nat \ {0}
  /\ IdSchemes \subseteq [Requests -> Samples]

VARIABLES
  pc,         \* where the driver is
  step,       \* steps begun
  accepted,   \* accepted_samples of this step
  wave,       \* the requests of the last dispatch still to be handed in, in order
  idOf,       \* idOf[k]: the id of the sample of request k, given by the data set
  created,    \* created[k]: when the sample of request k was generated, Never if not
  backlog,    \* _input_backlog
  inFlight,   \* _in_flight: request -> its replica, Nobody if it is not there
  cursor,     \* _replica_cycle: the replica its next() returns
  paused,     \* _paused_reason is set
  pending, reserved, acked, dropped, seen, nextBatch, now, policy   \* SampleQueue

Queue == INSTANCE SampleQueue WITH
  MaxSequences <- BatchSize, TokenBudgets <- {NoBudget},
  MaxPolicy <- MaxSteps, MaxBatches <- MaxSteps

\* The limits and the samples are those the sample queue works with.
ASSUME LoopQueueAssumption == Queue!QueueAssumption

driverVars  == <<pc, step, accepted, wave>>
managerVars == <<backlog, inFlight, cursor, paused>>
queueVars   == <<pending, reserved, acked, dropped, seen, nextBatch, now, policy>>
vars        == <<idOf, driverVars, created, managerVars, queueVars>>

Nobody == 0
Never  == MaxTime + 1

Stopped == {"done", "short", "empty", "failed"}

OnTheWay == {k \in Requests : inFlight[k] # Nobody}
Handed   == {wave[i] : i \in DOMAIN wave}

(***************************************************************************)
(* A request that is still to be handed in occupies its slot, and only     *)
(* while the driver waits for a wave or after an error are slots taken.    *)
(***************************************************************************)
TypeOK ==
  /\ pc \in Stopped \cup {"start", "rollout", "wave", "reserve", "window", "activate"}
  /\ step \in 0..MaxSteps /\ accepted \in 0..BatchSize
  /\ wave \in Seq(Requests)
  /\ idOf \in IdSchemes
  /\ created \in [Requests -> 0..Never]
  /\ backlog \in Seq(Requests)
  /\ inFlight \in [Requests -> Replicas \cup {Nobody}]
  /\ cursor \in Replicas /\ paused \in BOOLEAN
  /\ Queue!TypeOK
  /\ pc \notin {"failed"} => OnTheWay = Handed
  /\ pc \notin {"wave", "failed"} => wave = <<>>

-----------------------------------------------------------------------------
Init ==
  /\ pc = "start" /\ step = 0 /\ accepted = 0 /\ wave = <<>>
  /\ idOf \in IdSchemes
  /\ created = [k \in Requests |-> Never]
  /\ backlog = <<>>
  /\ inFlight = [k \in Requests |-> Nobody]
  /\ cursor = 1
  /\ paused = FALSE
  /\ Queue!Init

\* PromptBatcher.next_records and enqueue_prompts: the next BatchSize prompts.
StepPrompts(n) == [i \in 1..BatchSize |-> (n - 1) * BatchSize + i]

BeginStep ==
  /\ pc = "start"
  /\ step < MaxSteps
  /\ step' = step + 1
  /\ backlog' = backlog \o StepPrompts(step + 1)
  /\ accepted' = 0
  /\ pc' = "rollout"
  /\ UNCHANGED <<wave, created, inFlight, cursor, paused, queueVars>>

(***************************************************************************)
(* dispatch_from_backlog: as many requests as the output queue, the slots, *)
(* the backlog and the caller leave room for, each to the next replica of  *)
(* the cycle that has a free slot.                                         *)
(***************************************************************************)
Least(S) == CHOOSE x \in S : \A y \in S : x <= y

Monus(a, b) == IF a > b THEN a - b ELSE 0

Budget ==
  Least({Monus(HighWatermark, Queue!Depth),
         Monus(NumReplicas * MaxInFlight, Cardinality(OnTheWay)),
         Len(backlog), BatchSize - accepted})

Load(slots, r) == Cardinality({k \in Requests : slots[k] = r})

After(r, d) == ((r - 1 + d) % NumReplicas) + 1

Skipped(slots, r) ==
  Least({d \in 0..NumReplicas - 1 : Load(slots, After(r, d)) < MaxInFlight})

\* The manager's slots and cursor after request k is given its replica.
Grant(before, k) ==
  LET r == After(before.next, Skipped(before.slots, before.next))
  IN  [slots |-> [before.slots EXCEPT ![k] = r], next |-> After(r, 1)]

\* The same after the first n requests of a dispatch.
Granted[n \in 0..Budget] ==
  IF n = 0 THEN [slots |-> inFlight, next |-> cursor]
  ELSE Grant(Granted[n - 1], backlog[n])

Schedule == Granted[Budget]

Dispatch_retry ==
  /\ pc = "rollout" /\ ~paused /\ accepted < BatchSize
  /\ \/ /\ Budget > 0
        /\ inFlight' = Schedule.slots
        /\ cursor' = Schedule.next
        /\ wave' = SubSeq(backlog, 1, Budget)
        /\ backlog' = SubSeq(backlog, Budget + 1, Len(backlog))
        /\ pc' = "wave"
     \/ /\ Budget = 0
        /\ UNCHANGED <<pc, inFlight, cursor, wave, backlog>>
  /\ UNCHANGED <<step, accepted, created, paused, queueVars>>

Dispatch ==
  /\ pc = "rollout" /\ ~paused /\ accepted < BatchSize
  /\ \/ /\ Budget > 0
        /\ inFlight' = Schedule.slots
        /\ cursor' = Schedule.next
        /\ wave' = SubSeq(backlog, 1, Budget)
        /\ backlog' = SubSeq(backlog, Budget + 1, Len(backlog))
        /\ pc' = "wave"
     \/ /\ Budget = 0
        /\ pc' = "short"
        /\ UNCHANGED <<inFlight, cursor, wave, backlog>>
  /\ UNCHANGED <<step, accepted, created, paused, queueVars>>

RolloutComplete ==
  /\ pc = "rollout" /\ accepted = BatchSize
  /\ pc' = "reserve"
  /\ UNCHANGED <<step, accepted, wave, created, managerVars, queueVars>>

(***************************************************************************)
(* The replicas.  ray.get on the wave raises as soon as one generate has   *)
(* failed; the samples of the others are lost and the slots never freed.   *)
(***************************************************************************)
Waiting(k) == pc = "wave" /\ k \in Handed /\ created[k] = Never

Generate(k) ==
  /\ Waiting(k)
  /\ created' = [created EXCEPT ![k] = now]
  /\ UNCHANGED <<driverVars, managerVars, queueVars>>

GenerateFails(k) ==
  /\ Waiting(k)
  /\ pc' = "failed"
  /\ UNCHANGED <<step, accepted, wave, created, managerVars, queueVars>>

(***************************************************************************)
(* With every sample of the wave there, the driver hands them in one after *)
(* the other: complete_request, then submit_sample.                        *)
(***************************************************************************)
SampleRecord(k) == Queue!Record(idOf[k], policy, created[k])

CompleteRequest_late(k) == UNCHANGED inFlight
CompleteRequest(k) == inFlight' = [inFlight EXCEPT ![k] = Nobody]

HandIn ==
  LET k == Head(wave)  record == SampleRecord(k)
  IN  /\ pc = "wave"
      /\ \A j \in Handed : created[j] # Never
      /\ CompleteRequest(k)
      /\ \/ /\ Queue!SubmitRecord(record)
            /\ accepted' = accepted + IF Queue!Admissible(record) THEN 1 ELSE 0
         \/ /\ Queue!SubmitDuplicate(idOf[k])
            /\ UNCHANGED accepted
      /\ wave' = Tail(wave)
      /\ pc' = IF Len(wave) = 1 THEN "rollout" ELSE "wave"
      /\ UNCHANGED <<step, created, backlog, cursor, paused>>

(***************************************************************************)
(* The batch: reserved, then consumed by the train window, which acks or   *)
(* releases it, and which may still fail after the ack, when the GPUs go   *)
(* back to rollout; then the new weights are activated, the manager paused *)
(* meanwhile.  An activation that cannot begin leaves it paused.           *)
(***************************************************************************)
ReserveBatch ==
  /\ pc = "reserve"
  /\ Queue!Reserve(BatchSize, NoBudget)
  /\ pc' = IF nextBatch' = nextBatch THEN "empty" ELSE "window"
  /\ UNCHANGED <<step, accepted, wave, created, managerVars>>

Window_releases ==
  /\ pc = "window"
  /\ \/ Queue!Release(nextBatch - 1) /\ pc' = "activate" /\ paused' = TRUE
     \/ Queue!Release(nextBatch - 1) /\ pc' = "failed" /\ UNCHANGED paused
  /\ UNCHANGED <<step, accepted, wave, created, backlog, inFlight, cursor>>

Window ==
  LET batch == nextBatch - 1
  IN  /\ pc = "window"
      /\ \/ Queue!Ack(batch) /\ pc' = "activate" /\ paused' = TRUE
         \/ (Queue!Ack(batch) \/ Queue!Release(batch)) /\ pc' = "failed" /\ UNCHANGED paused
      /\ UNCHANGED <<step, accepted, wave, created, backlog, inFlight, cursor>>

Activate ==
  /\ pc = "activate"
  /\ \/ /\ Queue!AdvancePolicy
        /\ pc' = IF step = MaxSteps THEN "done" ELSE "start"
        /\ paused' = FALSE
     \/ UNCHANGED queueVars /\ pc' = "failed" /\ paused' \in BOOLEAN
  /\ UNCHANGED <<step, accepted, wave, created, backlog, inFlight, cursor>>

Tick == Queue!Tick /\ UNCHANGED <<idOf, driverVars, created, managerVars>>

Driver ==
  /\ \/ BeginStep \/ Dispatch \/ RolloutComplete \/ HandIn
     \/ ReserveBatch \/ Window \/ Activate
  /\ UNCHANGED idOf

Replica(k) == (Generate(k) \/ GenerateFails(k)) /\ UNCHANGED idOf

Next == Driver \/ (\E k \in Requests : Replica(k)) \/ Tick

\* The driver goes on when it can, and a replica answers what it was asked.
Fairness == WF_vars(Driver) /\ \A k \in Requests : WF_vars(Replica(k))

Spec == Init /\ [][Next]_vars /\ Fairness

-----------------------------------------------------------------------------

(***************************************************************************)
(* The run comes up short of samples only for a reason: a sample of this   *)
(* step expired or was a duplicate of an earlier one, or the watermark is  *)
(* below the batch size, which no configuration check excludes.            *)
(***************************************************************************)
StepSamples == {idOf[k] : k \in {StepPrompts(step)[i] : i \in 1..BatchSize}}

ShortForAReason ==
  pc = "short" =>
    \/ HighWatermark < BatchSize
    \/ StepSamples \cap dropped # {}
    \/ Cardinality(StepSamples) < BatchSize
    \/ \E k \in 1..(step - 1) * BatchSize : idOf[k] \in StepSamples

(***************************************************************************)
(* Training is on policy: a batch in the train window holds only samples   *)
(* of the weights that are being trained, all of them generated in this    *)
(* step; nothing is left in the queue for a later step to find.            *)
(***************************************************************************)
OnPolicy ==
  pc = "window" =>
    /\ \A i \in DOMAIN reserved[nextBatch - 1] :
         /\ reserved[nextBatch - 1][i].version = policy
         /\ reserved[nextBatch - 1][i].id \in StepSamples
    /\ pending = <<>>

(***************************************************************************)
(* No sample is trained twice, however often the data set repeats a prompt *)
(* that names its sample: what has been acked is not queued again.         *)
(***************************************************************************)
TrainedOnce ==
  acked \cap (Queue!Ids(pending) \cup Queue!ReservedIds) = {}

(***************************************************************************)
(* A run ends: the steps are done or something stopped it.                 *)
(***************************************************************************)
RunEnds == <>(pc \in Stopped)

(***************************************************************************)
(* training.py ends the run unless a whole batch of samples was accepted   *)
(* ("rollout did not produce enough accepted samples for a train batch"),  *)
(* so that every train step is on trainer.global_batch_size samples.       *)
(***************************************************************************)
FullBatches ==
  pc = "window" => Len(reserved[nextBatch - 1]) = BatchSize
=============================================================================
