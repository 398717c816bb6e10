-------------------------- MODULE RolloutLoopProofs --------------------------
(***************************************************************************)
(* Theorems about RolloutLoop for every batch size, every number of steps  *)
(* and of replicas, and every way a data set may name its samples.  What   *)
(* SampleQueueProofs shows of the queue is used here, not shown again.     *)
(***************************************************************************)
EXTENDS RolloutLoop, TLAPS, FiniteSetTheorems, FunctionTheorems, SequenceTheorems

Q == INSTANCE SampleQueueProofs WITH
  MaxSequences <- BatchSize, TokenBudgets <- {NoBudget},
  MaxPolicy <- MaxSteps, MaxBatches <- MaxSteps

-----------------------------------------------------------------------------
(***************************************************************************)
(* Queue, the instance the loop calls, and Q, the instance the theorems    *)
(* are about, are the same queue.                                          *)
(***************************************************************************)
LEMMA QueueLimits == Q!QueueAssumption
  BY LoopQueueAssumption DEF Queue!QueueAssumption, Q!QueueAssumption

LEMMA SameCount ==
  \A S : Queue!Cardinality(S) = Cardinality(S) /\ Q!Cardinality(S) = Cardinality(S)
  BY DEF Queue!Cardinality, Q!Cardinality, Cardinality

LEMMA SamePlaces ==
  /\ \A refs : Queue!Ids(refs) = Q!Ids(refs)
  /\ Queue!ReservedIds = Q!ReservedIds
  BY DEF Queue!Ids, Q!Ids, Queue!ReservedIds, Q!ReservedIds, Queue!Batches, Q!Batches

LEMMA SameStale == \A ref : Queue!Stale(ref) <=> Q!Stale(ref)
  BY DEF Queue!Stale, Q!Stale, Queue!Expired, Queue!Lagging, Q!Expired, Q!Lagging

LEMMA SameAdmissible == \A ref : Queue!Admissible(ref) <=> Q!Admissible(ref)
<1>1. {b \in Queue!Batches : Queue!Live(b)} = {b \in Q!Batches : Q!Live(b)}
  BY DEF Queue!Batches, Q!Batches, Queue!Live, Q!Live
<1>2. Queue!HeldSlots = Q!HeldSlots
  BY <1>1, SameCount DEF Queue!HeldSlots, Q!HeldSlots
<1> QED BY <1>2, SameStale DEF Queue!Admissible, Q!Admissible

LEMMA SameSubmit ==
  ASSUME NEW ref, Queue!SubmitRecord(ref)
  PROVE  Q!SubmitRecord(ref)
  BY SameAdmissible
     DEF Queue!SubmitRecord, Q!SubmitRecord, Queue!FirstSubmission, Q!FirstSubmission

LEMMA SameSubsequences == \A refs, P : Queue!Subsequences(refs, P) = Q!Subsequences(refs, P)
  BY SameCount DEF Queue!Subsequences, Q!Subsequences, Queue!InOrder, Q!InOrder

LEMMA SameLive == \A n : Queue!LiveBefore(n) = Q!LiveBefore(n)
  BY SameStale DEF Queue!LiveBefore, Q!LiveBefore

LEMMA SameReserve ==
  ASSUME NEW k, Queue!Reserve(k, NoBudget)
  PROVE  Q!Reserve(k, NoBudget)
<1>1. \A i : Queue!NoRoomFor(i, k, NoBudget) <=> Q!NoRoomFor(i, k, NoBudget)
  BY SameStale, SameLive, SameCount DEF Queue!NoRoomFor, Q!NoRoomFor
<1>2. \A n : Queue!ScansExactly(n, k, NoBudget) <=> Q!ScansExactly(n, k, NoBudget)
  BY <1>1 DEF Queue!ScansExactly, Q!ScansExactly
<1> QED BY <1>2, SameLive, SameSubsequences DEF Queue!Reserve, Q!Reserve, Queue!Batches, Q!Batches

LEMMA SameSettle ==
  ASSUME NEW b
  PROVE  /\ Queue!Ack(b) => Q!Ack(b)
         /\ Queue!Release(b) => Q!Release(b)
<1>1. Queue!Ack(b) => Q!Ack(b)
  BY SamePlaces DEF Queue!Ack, Q!Ack, Queue!Settle, Q!Settle, Queue!Live, Q!Live
<1>2. Queue!Release(b) => Q!Release(b)
  BY SameSubsequences
     DEF Queue!Release, Q!Release, Queue!Settle, Q!Settle, Queue!Live, Q!Live,
         Queue!Returnable, Q!Returnable
<1> QED BY <1>1, <1>2

-----------------------------------------------------------------------------
(***************************************************************************)
(* The inductive invariant: how far the driver is with the prompts of the  *)
(* step, and what the queue holds at each of its positions.                *)
(***************************************************************************)
Todo == Len(wave) + Len(backlog)   \* requests of this step not handed in yet
Last == step * BatchSize           \* the number of this step's last request

Serves  == pc \in {"rollout", "wave"}
Between == pc \in {"start", "reserve", "window", "activate"}

Types ==
  /\ pc \in Stopped \cup {"start", "rollout", "wave", "reserve", "window", "activate"}
  /\ step \in 0..MaxSteps /\ accepted \in 0..BatchSize
  /\ idOf \in [Requests -> Samples]
  /\ created \in [Requests -> 0..Never]
  /\ wave \in Seq(Requests) /\ backlog \in Seq(Requests)

Clock == now <= MaxTime /\ \A k \in Requests : created[k] # Never => created[k] <= now

\* The prompts of the step are served in order, none of an earlier step is left.
Serving ==
  /\ Serves =>
       /\ accepted + Todo <= BatchSize
       /\ \A i \in 1..Len(wave) : wave[i] = Last - Todo + i
       /\ \A i \in 1..Len(backlog) : backlog[i] = Last - Len(backlog) + i
  /\ pc = "wave" => wave # <<>>
  /\ Between \/ pc = "rollout" => wave = <<>>
  /\ Between => backlog = <<>>
  /\ Serves \/ pc \in {"reserve", "window", "activate"} => step >= 1

OfThisStep(refs) ==
  \A i \in DOMAIN refs : refs[i].version = policy /\ refs[i].id \in StepSamples

Contents ==
  /\ Serves \/ pc = "reserve" => Len(pending) <= accepted /\ OfThisStep(pending)
  /\ pc \in {"start", "window", "activate"} => pending = <<>>
  /\ Serves \/ pc \in {"start", "reserve", "activate"} =>
       \A b \in Q!Batches : reserved[b] = <<>>
  /\ pc = "window" =>
       /\ nextBatch - 1 \in Q!Batches
       /\ OfThisStep(reserved[nextBatch - 1])
       /\ \A b \in Q!Batches \ {nextBatch - 1} : reserved[b] = <<>>

Driving == Types /\ Clock /\ Serving /\ Contents

IInv == Q!IInv /\ Driving
-----------------------------------------------------------------------------
LEMMA Sizes ==
  /\ BatchSize \in Nat \ {0} /\ MaxSteps \in Nat \ {0} /\ MaxTime \in Nat
  /\ NumReplicas \in Nat \ {0} /\ MaxInFlight \in Nat \ {0}
  /\ HighWatermark \in Nat \ {0} /\ Never \in Nat
  BY LoopAssumption, QueueLimits DEF Q!QueueAssumption, Never

LEMMA QueueTypes ==
  ASSUME Q!IInv
  PROVE  /\ pending \in Seq(Q!SampleRef) /\ Len(pending) \in Nat
         /\ reserved \in [Q!Batches -> Seq(Q!SampleRef)]
         /\ nextBatch \in Nat /\ now \in Nat /\ policy \in Nat
<1>1. Q!TypeOK /\ MaxSteps \in Nat
  BY Sizes DEF Q!IInv
<1>2. pending \in Seq(Q!SampleRef) /\ reserved \in [Q!Batches -> Seq(Q!SampleRef)]
  BY <1>1 DEF Q!TypeOK
<1> QED BY <1>1, <1>2 DEF Q!TypeOK

LEMMA LastInStep ==
  ASSUME NEW n \in 1..MaxSteps
  PROVE  /\ n * BatchSize \in Nat /\ (n - 1) * BatchSize \in Nat
         /\ n * BatchSize = (n - 1) * BatchSize + BatchSize
         /\ n * BatchSize <= BatchSize * MaxSteps /\ BatchSize * MaxSteps \in Nat
<1>1. PICK r \in Nat : MaxSteps = n + r
  <2>1. MaxSteps - n \in Nat /\ MaxSteps = n + (MaxSteps - n)
    BY Sizes
  <2> QED BY <2>1
<1>2. PICK j \in Nat : n = j + 1
  <2>1. n - 1 \in Nat /\ n = (n - 1) + 1
    BY Sizes
  <2> QED BY <2>1
<1>3. BatchSize * MaxSteps = n * BatchSize + r * BatchSize /\ n * BatchSize = j * BatchSize + BatchSize
  BY <1>1, <1>2, Sizes
<1>4. r * BatchSize \in Nat /\ j * BatchSize \in Nat /\ n - 1 = j
  BY <1>1, <1>2, Sizes
<1> QED BY <1>3, <1>4, Sizes

\* The prompts of a step, by number.
LEMMA PromptsOfStep ==
  ASSUME NEW n \in 1..MaxSteps
  PROVE  /\ StepPrompts(n) \in Seq(Requests) /\ Len(StepPrompts(n)) = BatchSize
         /\ \A i \in 1..BatchSize : StepPrompts(n)[i] = n * BatchSize - BatchSize + i
<1> DEFINE m == n * BatchSize
<1>1. m \in Nat /\ (n - 1) * BatchSize = m - BatchSize /\ m - BatchSize \in Nat
      /\ m <= BatchSize * MaxSteps /\ BatchSize * MaxSteps \in Nat
  BY LastInStep, Sizes
<1> HIDE DEF m
<1>2. \A i \in 1..BatchSize : m - BatchSize + i \in Requests
  BY <1>1, Sizes DEF Requests
<1>3. StepPrompts(n) = [i \in 1..BatchSize |-> m - BatchSize + i]
  BY <1>1 DEF StepPrompts
<1>4. StepPrompts(n) \in [1..BatchSize -> Requests]
  BY <1>2, <1>3
<1>5. StepPrompts(n) \in Seq(Requests) /\ Len(StepPrompts(n)) = BatchSize
  BY <1>4, Sizes
<1>6. \A i \in 1..BatchSize : StepPrompts(n)[i] = m - BatchSize + i
  BY <1>3
<1> QED BY <1>5, <1>6 DEF m

LEMMA InitInv == Init => IInv
<1> SUFFICES ASSUME Init PROVE IInv
  OBVIOUS
<1>1. Q!Init
  BY DEF Init, Queue!Init, Q!Init, Queue!Batches, Q!Batches
<1>2. Q!IInv
  BY <1>1, QueueLimits, Q!InitIInv
<1>3. Types /\ Clock
  BY Sizes, LoopAssumption, <1>1 DEF Init, Types, Clock, Never, Q!Init
<1>4. Serving /\ Contents
  BY <1>1 DEF Init, Serving, Contents, Serves, Between, Q!Init
<1> QED BY <1>2, <1>3, <1>4 DEF IInv, Driving

-----------------------------------------------------------------------------
(***************************************************************************)
(* Every step of the loop is a call of the queue, or leaves it alone.      *)
(***************************************************************************)
LEMMA HandInSubmits ==
  ASSUME IInv, HandIn
  PROVE  /\ Head(wave) \in Requests /\ wave # <<>>
         /\ \/ /\ Q!SubmitRecord(Q!Record(idOf[Head(wave)], policy, created[Head(wave)]))
               /\ Q!Submit(idOf[Head(wave)])
               /\ accepted' = accepted + IF Q!Admissible(Q!Record(idOf[Head(wave)], policy,
                                                                  created[Head(wave)]))
                                         THEN 1 ELSE 0
            \/ /\ Q!SubmitDuplicate(idOf[Head(wave)])
               /\ accepted' = accepted
<1> DEFINE k == Head(wave)
<1>1. pc = "wave" /\ wave \in Seq(Requests) /\ wave # <<>>
  BY DEF HandIn, IInv, Driving, Types, Serving
<1>2. k \in Requests /\ k = wave[1] /\ 1 \in DOMAIN wave
  BY <1>1
<1>3. created[k] # Never /\ created[k] \in 0..now /\ policy \in 0..policy
  <2>1. created[k] # Never
    BY <1>2 DEF HandIn, Handed
  <2>2. created[k] \in 0..Never /\ created[k] <= now
    BY <1>2, <2>1 DEF IInv, Driving, Types, Clock
  <2> QED BY <2>1, <2>2, QueueTypes, Sizes DEF IInv
<1> DEFINE record == Q!Record(idOf[k], policy, created[k])
<1>4. SampleRecord(k) = record
  BY DEF SampleRecord, Queue!Record, Q!Record
<1>5. CASE /\ Queue!SubmitRecord(record)
           /\ accepted' = accepted + IF Queue!Admissible(record) THEN 1 ELSE 0
  <2>1. Q!SubmitRecord(record) /\ (Queue!Admissible(record) <=> Q!Admissible(record))
    BY <1>5, SameSubmit, SameAdmissible
  <2>2. Q!Submit(idOf[k])
    BY <1>3, <2>1 DEF Q!Submit
  <2> QED BY <1>1, <1>2, <1>5, <2>1, <2>2
<1>6. CASE Queue!SubmitDuplicate(idOf[k]) /\ UNCHANGED accepted
  <2>1. Q!SubmitDuplicate(idOf[k])
    BY <1>6 DEF Queue!SubmitDuplicate, Q!SubmitDuplicate, Queue!FirstSubmission,
                Q!FirstSubmission, Queue!vars, Q!vars
  <2> QED BY <1>1, <1>2, <1>6, <2>1
<1> QED BY <1>4, <1>5, <1>6 DEF HandIn

LEMMA QueueStep == IInv /\ [Next]_vars => [Q!Next]_(Q!vars)
<1> SUFFICES ASSUME IInv, [Next]_vars PROVE [Q!Next]_(Q!vars)
  OBVIOUS
<1>1. CASE UNCHANGED queueVars
  BY <1>1 DEF queueVars, Q!vars
<1>2. CASE HandIn
  <2>1. idOf[Head(wave)] \in Samples
    BY <1>2, HandInSubmits DEF IInv, Driving, Types
  <2> QED BY <1>2, <2>1, HandInSubmits DEF Q!Next
<1>3. CASE ReserveBatch
  <2>1. Q!Reserve(BatchSize, NoBudget)
    BY <1>3, SameReserve DEF ReserveBatch
  <2>2. BatchSize \in 0..BatchSize
    BY Sizes
  <2> QED BY <2>1, <2>2 DEF Q!Next
<1>4. CASE Window
  <2>1. nextBatch - 1 \in Q!Batches
    BY <1>4 DEF Window, IInv, Driving, Contents
  <2>2. Q!Ack(nextBatch - 1) \/ Q!Release(nextBatch - 1)
    BY <1>4, SameSettle DEF Window
  <2> QED BY <2>1, <2>2 DEF Q!Next
<1>5. CASE Activate
  <2>1. Queue!AdvancePolicy => Q!AdvancePolicy
    BY DEF Queue!AdvancePolicy, Q!AdvancePolicy
  <2> QED BY <1>1, <1>5, <2>1 DEF Activate, Q!Next
<1>6. CASE Tick
  <2>1. Q!Tick
    BY <1>6 DEF Tick, Queue!Tick, Q!Tick
  <2> QED BY <2>1 DEF Q!Next
<1>7. CASE BeginStep \/ Dispatch \/ RolloutComplete \/ \E k \in Requests : Replica(k)
  BY <1>1, <1>7 DEF BeginStep, Dispatch, RolloutComplete, Replica, Generate, GenerateFails
<1>8. CASE UNCHANGED vars
  BY <1>1, <1>8 DEF vars
<1> QED BY <1>2, <1>3, <1>4, <1>5, <1>6, <1>7, <1>8 DEF Next, Driver

LEMMA QueueInvStep == IInv /\ [Next]_vars => Q!IInv'
  BY QueueStep, QueueLimits, Q!NextIInv DEF IInv

-----------------------------------------------------------------------------
\* The driver's steps, one by one.
LEMMA StepBegins ==
  ASSUME IInv, BeginStep, UNCHANGED idOf
  PROVE  Driving'
<1>1. /\ pc = "start" /\ step < MaxSteps /\ step' = step + 1 /\ accepted' = 0
      /\ backlog' = backlog \o StepPrompts(step + 1) /\ pc' = "rollout"
      /\ UNCHANGED <<wave, created, pending, reserved, nextBatch, now, policy, idOf>>
  BY DEF BeginStep, queueVars
<1>2. /\ backlog = <<>> /\ wave = <<>> /\ pending = <<>>
      /\ \A b \in Q!Batches : reserved[b] = <<>>
  BY <1>1 DEF IInv, Driving, Serving, Contents, Between, Serves
<1>3. step + 1 \in 1..MaxSteps /\ step \in Nat
  BY <1>1, Sizes DEF IInv, Driving, Types
<1> DEFINE prompts == StepPrompts(step + 1)
<1>4. /\ prompts \in Seq(Requests) /\ Len(prompts) = BatchSize
      /\ \A i \in 1..BatchSize : prompts[i] = (step + 1) * BatchSize - BatchSize + i
  BY <1>3, PromptsOfStep
<1> HIDE DEF prompts
<1>5. backlog' = prompts
  BY <1>1, <1>2, <1>4 DEF prompts
<1>6. Last' = (step + 1) * BatchSize
  BY <1>1 DEF Last
<1>7. Types'
  <2>1. backlog' \in Seq(Requests) /\ wave' \in Seq(Requests)
    BY <1>1, <1>4, <1>5 DEF IInv, Driving, Types
  <2>2. step' \in 0..MaxSteps /\ accepted' \in 0..BatchSize
    BY <1>1, <1>3, Sizes
  <2> QED BY <1>1, <2>1, <2>2 DEF IInv, Driving, Types
<1>8. Clock'
  BY <1>1 DEF IInv, Driving, Clock
<1>9. Serving'
  <2>1. /\ Todo' = BatchSize /\ Len(backlog') = BatchSize /\ Len(wave') = 0
        /\ accepted' + Todo' <= BatchSize
    BY <1>1, <1>2, <1>4, <1>5, Sizes DEF Todo
  <2>2. \A i \in 1..Len(backlog') : backlog'[i] = Last' - Len(backlog') + i
    BY <1>4, <1>5, <1>6, <2>1
  <2>3. \A i \in 1..Len(wave') : wave'[i] = Last' - Todo' + i
    BY <2>1
  <2>4. wave' = <<>> /\ pc' = "rollout" /\ step' >= 1
    BY <1>1, <1>2, <1>3
  <2> QED BY <2>1, <2>2, <2>3, <2>4 DEF Serving, Serves, Between
<1>10. Contents'
  BY <1>1, <1>2 DEF Contents, Serves, OfThisStep
<1> QED BY <1>7, <1>8, <1>9, <1>10 DEF Driving

\* The least of a finite choice of numbers exists.
LEMMA LeastIs ==
  ASSUME NEW T \in SUBSET Nat, T # {}
  PROVE  Least(T) \in T /\ \A y \in T : Least(T) <= y
<1>1. \E x \in T : \A y \in T : x <= y
  BY QueueLimits, Q!LeastElement
<1> QED BY <1>1 DEF Least

LEMMA BudgetFits ==
  ASSUME IInv, pc = "rollout"
  PROVE  /\ Budget \in Nat /\ Budget <= Len(backlog)
         /\ Budget <= Monus(NumReplicas * MaxInFlight, Cardinality(OnTheWay))
         /\ Budget \in {Monus(HighWatermark, Len(pending)),
                        Monus(NumReplicas * MaxInFlight, Cardinality(OnTheWay)),
                        Len(backlog), BatchSize - accepted}
<1>1. Len(pending) \in Nat /\ Len(backlog) \in Nat /\ BatchSize - accepted \in Nat
  BY QueueTypes, Sizes DEF IInv, Driving, Types
<1>2. Queue!Depth = Len(pending)
  <2>1. \A b \in Queue!Batches : reserved[b] = <<>>
    BY DEF IInv, Driving, Contents, Serves, Queue!Batches, Q!Batches
  <2>2. Queue!ReservedIds = {}
    BY <2>1 DEF Queue!ReservedIds, Queue!Ids
  <2>3. Queue!Cardinality(Queue!ReservedIds) = 0
    BY <2>2, SameCount, FS_EmptySet
  <2> QED BY <1>1, <2>3 DEF Queue!Depth
<1>3. Cardinality(OnTheWay) \in Nat
  <2>1. OnTheWay \in SUBSET Requests /\ BatchSize * MaxSteps \in Nat
    BY Sizes DEF OnTheWay
  <2>2. IsFiniteSet(Requests)
    BY <2>1, FS_Interval DEF Requests
  <2> QED BY <2>1, <2>2, FS_Subset, FS_CardinalityType
<1>4. \A a, b \in Nat : Monus(a, b) \in Nat
  BY DEF Monus
<1> DEFINE T == {Monus(HighWatermark, Len(pending)),
                 Monus(NumReplicas * MaxInFlight, Cardinality(OnTheWay)),
                 Len(backlog), BatchSize - accepted}
<1>5. NumReplicas * MaxInFlight \in Nat /\ HighWatermark \in Nat
  BY Sizes
<1>6. /\ T \in SUBSET Nat /\ T # {} /\ Len(backlog) \in T
      /\ Monus(NumReplicas * MaxInFlight, Cardinality(OnTheWay)) \in T
  BY <1>1, <1>3, <1>4, <1>5
<1>7. Budget = Least(T)
  BY <1>2 DEF Budget
<1> HIDE DEF T
<1>8. /\ Budget \in T /\ Budget <= Len(backlog) /\ Budget \in Nat
      /\ Budget <= Monus(NumReplicas * MaxInFlight, Cardinality(OnTheWay))
  BY <1>6, <1>7, LeastIs
<1> QED BY <1>8 DEF T

LEMMA WaveDispatched ==
  ASSUME IInv, Dispatch, UNCHANGED idOf
  PROVE  Driving'
<1>1. /\ pc = "rollout"
      /\ UNCHANGED <<step, accepted, created, pending, reserved, nextBatch, now, policy, idOf>>
      /\ \/ /\ Budget > 0
            /\ wave' = SubSeq(backlog, 1, Budget)
            /\ backlog' = SubSeq(backlog, Budget + 1, Len(backlog))
            /\ pc' = "wave"
         \/ pc' = "short" /\ UNCHANGED <<wave, backlog>>
  BY DEF Dispatch, queueVars
<1>2. Last' = Last /\ (\A refs : OfThisStep(refs)' = OfThisStep(refs)) /\ Last \in Int
  <2>1. Last \in Int
    BY Sizes DEF Last, IInv, Driving, Types
  <2> QED BY <1>1, <2>1 DEF Last, OfThisStep, StepSamples
<1>3. Clock'
  BY <1>1 DEF IInv, Driving, Clock
<1>4. Contents'
  <2>1. /\ Len(pending) <= accepted /\ OfThisStep(pending)
        /\ \A b \in Q!Batches : reserved[b] = <<>>
    BY <1>1 DEF IInv, Driving, Contents, Serves
  <2>2. pc' \in {"wave", "short"} /\ OfThisStep(pending)'
    BY <1>1, <2>1 DEF OfThisStep, StepSamples
  <2> QED BY <1>1, <2>1, <2>2 DEF Contents, Serves
<1>5. /\ Types /\ wave = <<>> /\ step >= 1 /\ accepted + Todo <= BatchSize
      /\ \A i \in 1..Len(backlog) : backlog[i] = Last - Len(backlog) + i
  BY <1>1 DEF IInv, Driving, Serving, Serves, Between
<1>6. CASE pc' = "short" /\ UNCHANGED <<wave, backlog>>
  <2>1. Types'
    BY <1>1, <1>5, <1>6 DEF Types, Stopped
  <2>2. Serving'
    BY <1>1, <1>6 DEF Serving, Serves, Between
  <2> QED BY <1>3, <1>4, <2>1, <2>2 DEF Driving
<1>7. CASE /\ Budget > 0 /\ wave' = SubSeq(backlog, 1, Budget)
           /\ backlog' = SubSeq(backlog, Budget + 1, Len(backlog)) /\ pc' = "wave"
  <2>1. PICK n \in Nat : n = Budget /\ n > 0 /\ n <= Len(backlog)
    BY <1>1, <1>7, BudgetFits
  <2>2. backlog \in Seq(Requests) /\ Len(backlog) \in Nat
    BY <1>5 DEF Types
  <2>3. /\ wave' \in Seq(Requests) /\ Len(wave') = n
        /\ \A i \in 1..n : wave'[i] = backlog[i]
    BY <1>7, <2>1, <2>2
  <2>4. /\ backlog' \in Seq(Requests) /\ Len(backlog') = Len(backlog) - n
        /\ \A i \in 1..Len(backlog) - n : backlog'[i] = backlog[n + i]
    BY <1>7, <2>1, <2>2
  <2>5. Todo' = Len(backlog) /\ Todo = Len(backlog)
    BY <1>5, <2>1, <2>2, <2>3, <2>4 DEF Todo
  <2>6. Types'
    BY <1>1, <1>5, <1>7, <2>3, <2>4 DEF Types
  <2>7. \A i \in 1..Len(wave') : wave'[i] = Last - Len(backlog) + i
    BY <1>5, <2>1, <2>2, <2>3
  <2>8. \A i \in 1..Len(backlog') : backlog'[i] = Last - Len(backlog') + i
    <3> SUFFICES ASSUME NEW i \in 1..Len(backlog') PROVE backlog'[i] = Last - Len(backlog') + i
      OBVIOUS
    <3>1. n + i \in 1..Len(backlog) /\ backlog'[i] = backlog[n + i]
      BY <2>1, <2>2, <2>4
    <3> QED BY <1>2, <1>5, <2>1, <2>2, <2>4, <3>1
  <2>9. wave' # <<>>
    BY <2>1, <2>3
  <2>10. Serving'
    BY <1>1, <1>2, <1>5, <1>7, <2>5, <2>7, <2>8, <2>9 DEF Serving, Serves, Between
  <2> QED BY <1>3, <1>4, <2>6, <2>10 DEF Driving
<1> QED BY <1>1, <1>6, <1>7

LEMMA RolloutCompletes ==
  ASSUME IInv, RolloutComplete, UNCHANGED idOf
  PROVE  Driving'
<1>1. /\ pc = "rollout" /\ accepted = BatchSize /\ pc' = "reserve"
      /\ UNCHANGED <<step, accepted, wave, backlog, created, pending, reserved, nextBatch,
                     now, policy, idOf>>
  BY DEF RolloutComplete, queueVars, managerVars
<1>2. /\ Types /\ Clock /\ wave = <<>> /\ step >= 1 /\ accepted + Todo <= BatchSize
      /\ Len(pending) <= accepted /\ OfThisStep(pending)
      /\ \A b \in Q!Batches : reserved[b] = <<>>
  BY <1>1 DEF IInv, Driving, Serving, Contents, Serves, Between
<1>3. backlog = <<>>
  <2>1. Len(wave) = 0 /\ Len(backlog) \in Nat
    BY <1>2 DEF Types
  <2>2. Len(backlog) = 0
    BY <1>1, <1>2, <2>1, Sizes DEF Todo
  <2> QED BY <1>2, <2>2 DEF Types
<1>4. Types' /\ Clock'
  BY <1>1, <1>2 DEF Types, Clock
<1>5. Serving'
  BY <1>1, <1>2, <1>3 DEF Serving, Serves, Between
<1>6. OfThisStep(pending)'
  BY <1>1, <1>2 DEF OfThisStep, StepSamples
<1>7. Contents'
  BY <1>1, <1>2, <1>6 DEF Contents, Serves
<1> QED BY <1>4, <1>5, <1>7 DEF Driving

LEMMA ReplicaAnswers ==
  ASSUME IInv, NEW k \in Requests, Replica(k)
  PROVE  Driving'
<1>1. /\ pc = "wave" /\ pc' \in {"wave", "failed"}
      /\ UNCHANGED <<step, accepted, wave, backlog, pending, reserved, nextBatch, now, policy, idOf>>
      /\ created' = created \/ created' = [created EXCEPT ![k] = now]
  BY DEF Replica, Generate, GenerateFails, Waiting, driverVars, managerVars, queueVars
<1>2. Types /\ Clock /\ now \in 0..Never /\ now <= now
  BY QueueTypes, Sizes DEF IInv, Driving, Clock, Never
<1>3. Types'
  BY <1>1, <1>2 DEF Types, Stopped
<1>4. Clock'
  BY <1>1, <1>2 DEF Types, Clock
<1>5. Serving'
  BY <1>1 DEF IInv, Driving, Serving, Serves, Between, Todo, Last
<1>6. Contents'
  BY <1>1 DEF IInv, Driving, Contents, Serves, OfThisStep, StepSamples
<1> QED BY <1>3, <1>4, <1>5, <1>6 DEF Driving

\* The request handed in is the next of the step.
LEMMA NextPrompt ==
  ASSUME IInv, pc = "wave"
  PROVE  /\ wave # <<>> /\ Len(wave) \in Nat \ {0} /\ Todo \in 1..BatchSize /\ Last \in Nat
         /\ Head(wave) \in Requests /\ Head(wave) = Last - Todo + 1
         /\ BatchSize - Todo + 1 \in 1..BatchSize
         /\ Head(wave) = StepPrompts(step)[BatchSize - Todo + 1]
         /\ idOf[Head(wave)] \in StepSamples
<1>1. /\ wave \in Seq(Requests) /\ wave # <<>> /\ accepted \in Nat /\ accepted + Todo <= BatchSize
      /\ \A i \in 1..Len(wave) : wave[i] = Last - Todo + i
      /\ step \in 1..MaxSteps /\ backlog \in Seq(Requests)
  BY Sizes DEF IInv, Driving, Types, Serving, Serves
<1>2. Len(wave) \in Nat \ {0} /\ Head(wave) = wave[1] /\ 1 \in 1..Len(wave) /\ Head(wave) \in Requests
  BY <1>1
<1>3. Todo \in 1..BatchSize
  <2>1. Len(backlog) \in Nat
    BY <1>1
  <2> QED BY <1>1, <1>2, <2>1, Sizes DEF Todo
<1>4. Head(wave) = Last - Todo + 1
  BY <1>1, <1>2
<1>5. Last \in Nat
  BY <1>1, LastInStep DEF Last
<1>6. BatchSize - Todo + 1 \in 1..BatchSize
  BY <1>3, Sizes
<1>7. StepPrompts(step)[BatchSize - Todo + 1] = Last - BatchSize + (BatchSize - Todo + 1)
  BY <1>1, <1>6, PromptsOfStep DEF Last
<1>8. Head(wave) = StepPrompts(step)[BatchSize - Todo + 1]
  BY <1>3, <1>4, <1>5, <1>7, Sizes
<1>9. idOf[Head(wave)] \in StepSamples
  BY <1>6, <1>8 DEF StepSamples
<1> QED BY <1>1, <1>2, <1>3, <1>4, <1>5, <1>6, <1>8, <1>9

LEMMA SampleHandedIn ==
  ASSUME IInv, HandIn, UNCHANGED idOf
  PROVE  Driving'
<1> DEFINE k == Head(wave)
           record == Q!Record(idOf[k], policy, created[k])
<1>1. /\ pc = "wave" /\ wave' = Tail(wave)
      /\ pc' = IF Len(wave) = 1 THEN "rollout" ELSE "wave"
      /\ UNCHANGED <<step, created, backlog, idOf>>
  BY DEF HandIn
<1>2. /\ UNCHANGED <<reserved, nextBatch, now, policy>>
      /\ \/ accepted' = accepted + 1 /\ pending' = Append(pending, record)
         \/ accepted' = accepted /\ pending' = pending
  <2>1. CASE /\ Q!SubmitRecord(record)
             /\ accepted' = accepted + IF Q!Admissible(record) THEN 1 ELSE 0
    <3>1. accepted + 0 = accepted
      BY DEF IInv, Driving, Types
    <3> HIDE DEF record
    <3> QED BY <2>1, <3>1 DEF Q!SubmitRecord
  <2>2. CASE Q!SubmitDuplicate(idOf[k]) /\ accepted' = accepted
    BY <2>2 DEF Q!SubmitDuplicate, Q!vars
  <2> HIDE DEF record
  <2>3. \/ /\ Q!SubmitRecord(record)
           /\ accepted' = accepted + IF Q!Admissible(record) THEN 1 ELSE 0
        \/ Q!SubmitDuplicate(idOf[k]) /\ accepted' = accepted
    BY HandInSubmits DEF record
  <2> QED BY <2>1, <2>2, <2>3
<1>3. /\ Types /\ Clock /\ accepted + Todo <= BatchSize
      /\ \A i \in 1..Len(wave) : wave[i] = Last - Todo + i
      /\ \A i \in 1..Len(backlog) : backlog[i] = Last - Len(backlog) + i
      /\ step >= 1 /\ Len(pending) <= accepted /\ OfThisStep(pending)
      /\ \A b \in Q!Batches : reserved[b] = <<>>
  BY <1>1 DEF IInv, Driving, Serving, Contents, Serves
<1>4. /\ wave \in Seq(Requests) /\ wave # <<>> /\ Len(wave) \in Nat \ {0} /\ backlog \in Seq(Requests)
      /\ Len(backlog) \in Nat /\ accepted \in 0..BatchSize /\ Todo \in 1..BatchSize /\ Last \in Nat
  BY <1>1, <1>3, NextPrompt DEF Types
<1>5. /\ Tail(wave) \in Seq(Requests) /\ Len(Tail(wave)) = Len(wave) - 1
      /\ \A i \in 1..Len(wave) - 1 : Tail(wave)[i] = wave[i + 1]
  BY <1>4
<1>6. Todo' = Todo - 1 /\ Last' = Last
  BY <1>1, <1>4, <1>5 DEF Todo, Last
<1>7. accepted' \in 0..BatchSize /\ accepted' + Todo' <= BatchSize
  BY <1>2, <1>3, <1>4, <1>6, Sizes
<1>8. Types'
  BY <1>1, <1>3, <1>5, <1>7 DEF Types
<1>9. Clock'
  BY <1>1, <1>2, <1>3 DEF Clock
<1>10. Serving'
  <2>1. \A i \in 1..Len(wave') : wave'[i] = Last' - Todo' + i
    <3> SUFFICES ASSUME NEW i \in 1..Len(wave') PROVE wave'[i] = Last' - Todo' + i
      OBVIOUS
    <3>1. i \in 1..Len(wave) - 1 /\ i + 1 \in 1..Len(wave) /\ wave'[i] = wave[i + 1]
      BY <1>1, <1>4, <1>5
    <3> QED BY <1>3, <1>4, <1>6, <3>1
  <2>2. pc' = "wave" => wave' # <<>>
    BY <1>1, <1>4, <1>5
  <2>3. pc' = "rollout" => wave' = <<>>
    BY <1>1, <1>4, <1>5
  <2>4. \A i \in 1..Len(backlog') : backlog'[i] = Last' - Len(backlog') + i
    BY <1>1, <1>3, <1>6
  <2>5. pc' \in {"rollout", "wave"} /\ step' >= 1
    BY <1>1, <1>3
  <2> QED BY <1>7, <2>1, <2>2, <2>3, <2>4, <2>5 DEF Serving, Serves, Between
<1>11. Contents'
  <2>1. record.version = policy /\ record.id \in StepSamples /\ StepSamples' = StepSamples
    BY <1>1, NextPrompt DEF Q!Record, StepSamples
  <2> HIDE DEF record
  <2>2. pending \in Seq(Q!SampleRef) /\ Len(pending) \in Nat
    BY QueueTypes DEF IInv
  <2>3. Len(pending') <= accepted' /\ OfThisStep(pending)'
    <3>1. CASE accepted' = accepted + 1 /\ pending' = Append(pending, record)
      <4>1. /\ Len(pending') = Len(pending) + 1 /\ DOMAIN pending' = 1..Len(pending) + 1
            /\ \A i \in 1..Len(pending) : pending'[i] = pending[i]
            /\ pending'[Len(pending) + 1] = record
        BY <2>2, <3>1
      <4>2. \A i \in 1..Len(pending) : pending[i].version = policy /\ pending[i].id \in StepSamples
        BY <1>3, <2>2 DEF OfThisStep
      <4>3. \A i \in DOMAIN pending' : pending'[i].version = policy /\ pending'[i].id \in StepSamples
        BY <2>1, <2>2, <4>1, <4>2
      <4> QED BY <1>2, <1>3, <1>4, <2>1, <2>2, <3>1, <4>1, <4>3 DEF OfThisStep
    <3>2. CASE accepted' = accepted /\ pending' = pending
      BY <1>2, <1>3, <2>1, <3>2 DEF OfThisStep
    <3> QED BY <1>2, <3>1, <3>2
  <2>4. pc' \in {"rollout", "wave"} /\ reserved' = reserved
    BY <1>1, <1>2
  <2> QED BY <1>3, <2>3, <2>4 DEF Contents, Serves
<1> QED BY <1>8, <1>9, <1>10, <1>11 DEF Driving

\* With no more in the queue than the batch may hold, the scan takes it all.
LEMMA ScanTakesAll ==
  ASSUME Q!IInv, Len(pending) <= BatchSize,
         NEW n \in 0..Len(pending), Q!ScansExactly(n, BatchSize, NoBudget)
  PROVE  n = Len(pending)
<1> SUFFICES ASSUME n < Len(pending) PROVE FALSE
  BY QueueTypes
<1>1. Cardinality(Q!LiveBefore(n)) >= BatchSize
  BY SameCount DEF Q!ScansExactly, Q!NoRoomFor
<1>2. n \in Nat /\ n < BatchSize
  BY QueueTypes, Sizes
<1>3. Q!LiveBefore(n) \in SUBSET (1..n)
  BY DEF Q!LiveBefore
<1>4. IsFiniteSet(1..n) /\ Cardinality(1..n) = n
  <2>1. 1 \in Int /\ n \in Int
    BY <1>2
  <2>2. IsFiniteSet(1..n) /\ Cardinality(1..n) = IF 1 > n THEN 0 ELSE n - 1 + 1
    BY <2>1, FS_Interval, Zenon
  <2> QED BY <1>2, <2>2
<1>5. Cardinality(Q!LiveBefore(n)) <= n /\ Cardinality(Q!LiveBefore(n)) \in Nat
  BY <1>3, <1>4, SameCount, FS_Subset, FS_CardinalityType
<1> QED BY <1>1, <1>2, <1>5, Sizes

LEMMA BatchReserved ==
  ASSUME IInv, ReserveBatch, UNCHANGED idOf
  PROVE  Driving'
<1>1. /\ pc = "reserve" /\ Q!Reserve(BatchSize, NoBudget)
      /\ pc' = IF nextBatch' = nextBatch THEN "empty" ELSE "window"
      /\ UNCHANGED <<step, accepted, wave, backlog, created, idOf>>
  BY SameReserve DEF ReserveBatch, managerVars
<1>2. PICK n \in 0..Len(pending) :
        /\ Q!ScansExactly(n, BatchSize, NoBudget)
        /\ pending' = SubSeq(pending, n + 1, Len(pending))
        /\ \/ UNCHANGED <<reserved, nextBatch>>
           \/ /\ \E refs \in Q!Subsequences(pending, Q!LiveBefore(n)) :
                   reserved' = [reserved EXCEPT ![nextBatch] = refs]
              /\ nextBatch' = nextBatch + 1
  BY <1>1 DEF Q!Reserve
<1>3. nextBatch \in Q!Batches /\ UNCHANGED <<now, policy>>
  BY <1>1 DEF Q!Reserve
<1>4. /\ Types /\ Clock /\ wave = <<>> /\ backlog = <<>> /\ step >= 1
      /\ Len(pending) <= accepted /\ OfThisStep(pending)
      /\ \A b \in Q!Batches : reserved[b] = <<>>
  BY <1>1 DEF IInv, Driving, Serving, Contents, Serves, Between
<1>5. /\ pending \in Seq(Q!SampleRef) /\ Len(pending) \in Nat /\ nextBatch \in Nat
      /\ reserved \in [Q!Batches -> Seq(Q!SampleRef)]
  BY QueueTypes DEF IInv
<1>6. pending' = <<>>
  <2>1. Len(pending) <= BatchSize
    BY <1>4, <1>5, Sizes DEF Types
  <2>2. n = Len(pending)
    BY <1>2, <2>1, ScanTakesAll DEF IInv
  <2> QED BY <1>2, <1>5, <2>2
<1>7. Types' /\ Clock'
  BY <1>1, <1>3, <1>4 DEF Types, Clock, Stopped
<1>8. Serving'
  BY <1>1, <1>4 DEF Serving, Serves, Between
<1>9. CASE UNCHANGED <<reserved, nextBatch>>
  <2>1. pc' = "empty"
    BY <1>1, <1>9
  <2> QED BY <1>7, <1>8, <2>1 DEF Driving, Contents, Serves
<1>10. ASSUME NEW refs \in Q!Subsequences(pending, Q!LiveBefore(n)),
              reserved' = [reserved EXCEPT ![nextBatch] = refs],
              nextBatch' = nextBatch + 1
       PROVE  Driving'
  <2>1. pc' = "window" /\ nextBatch' - 1 = nextBatch
    BY <1>1, <1>5, <1>10
  <2>2. /\ reserved'[nextBatch] = refs
        /\ \A b \in Q!Batches : b # nextBatch => reserved'[b] = <<>>
    BY <1>3, <1>4, <1>5, <1>10
  <2>3. \A i \in DOMAIN refs : \E j \in DOMAIN pending : refs[i] = pending[j]
    <3>1. Q!LiveBefore(n) \in SUBSET DOMAIN pending
      BY <1>5 DEF Q!LiveBefore
    <3> QED BY <3>1 DEF Q!Subsequences, Q!InOrder
  <2>4. StepSamples' = StepSamples
    BY <1>1 DEF StepSamples
  <2>5. OfThisStep(reserved[nextBatch - 1])'
    <3>1. \A i \in DOMAIN refs : refs[i].version = policy /\ refs[i].id \in StepSamples
      BY <1>4, <2>3 DEF OfThisStep
    <3>2. (reserved[nextBatch - 1])' = refs
      BY <2>1, <2>2
    <3> HIDE DEF StepSamples
    <3> QED BY <1>3, <2>4, <3>1, <3>2 DEF OfThisStep
  <2>6. Contents'
    BY <1>3, <1>6, <2>1, <2>2, <2>5 DEF Contents, Serves
  <2> QED BY <1>7, <1>8, <2>6 DEF Driving
<1> QED BY <1>2, <1>9, <1>10

LEMMA WindowSettles ==
  ASSUME IInv, Window, UNCHANGED idOf
  PROVE  Driving'
<1> DEFINE b == nextBatch - 1
<1>1. /\ pc = "window" /\ pc' \in {"activate", "failed"}
      /\ Q!Settle(b) /\ (pc' = "activate" => pending' = pending)
      /\ UNCHANGED <<step, accepted, wave, backlog, created, idOf, nextBatch, now, policy>>
  BY SameSettle DEF Window, Q!Ack, Q!Release
<1>2. /\ Types /\ Clock /\ wave = <<>> /\ backlog = <<>> /\ step >= 1 /\ pending = <<>>
      /\ b \in Q!Batches /\ \A c \in Q!Batches \ {b} : reserved[c] = <<>>
  BY <1>1 DEF IInv, Driving, Serving, Contents, Serves, Between
<1>3. reserved \in [Q!Batches -> Seq(Q!SampleRef)]
  BY QueueTypes DEF IInv
<1> HIDE DEF b
<1>4. \A c \in Q!Batches : reserved'[c] = <<>>
  BY <1>1, <1>2, <1>3 DEF Q!Settle
<1>5. Types' /\ Clock'
  BY <1>1, <1>2 DEF Types, Clock, Stopped
<1>6. Serving'
  BY <1>1, <1>2 DEF Serving, Serves, Between
<1>7. Contents'
  BY <1>1, <1>2, <1>4 DEF Contents, Serves
<1> QED BY <1>5, <1>6, <1>7 DEF Driving

LEMMA WeightsActivated ==
  ASSUME IInv, Activate, UNCHANGED idOf
  PROVE  Driving'
<1>1. /\ pc = "activate" /\ pc' \in {"done", "start", "failed"}
      /\ UNCHANGED <<step, accepted, wave, backlog, created, idOf, pending, reserved, nextBatch, now>>
  BY DEF Activate, Queue!AdvancePolicy, queueVars
<1>2. /\ Types /\ Clock /\ wave = <<>> /\ backlog = <<>> /\ pending = <<>>
      /\ \A c \in Q!Batches : reserved[c] = <<>>
  BY <1>1 DEF IInv, Driving, Serving, Contents, Serves, Between
<1>3. Types' /\ Clock'
  BY <1>1, <1>2 DEF Types, Clock, Stopped
<1>4. Serving' /\ Contents'
  BY <1>1, <1>2 DEF Serving, Contents, Serves, Between
<1> QED BY <1>3, <1>4 DEF Driving

LEMMA TimePasses ==
  ASSUME IInv, Tick \/ UNCHANGED vars
  PROVE  Driving'
<1>1. /\ UNCHANGED <<pc, step, accepted, wave, backlog, created, idOf, pending, reserved,
                     nextBatch, policy>>
      /\ now' = now \/ (now' = now + 1 /\ now < MaxTime)
  <2>1. CASE Tick
    BY <2>1 DEF Tick, Queue!Tick, driverVars, managerVars
  <2>2. CASE UNCHANGED vars
    BY <2>2 DEF vars, driverVars, managerVars, queueVars
  <2> QED BY <2>1, <2>2
<1>2. Types /\ Clock /\ now \in Nat /\ MaxTime \in Nat
  BY QueueTypes, Sizes DEF IInv, Driving
<1>3. Types'
  BY <1>1, <1>2 DEF Types
<1>4. Clock'
  <2>1. now' <= MaxTime /\ now <= now' /\ now' \in Nat
    BY <1>1, <1>2 DEF Clock
  <2>2. \A k \in Requests : created[k] \in Nat
    BY <1>2, Sizes DEF Types
  <2> QED BY <1>1, <1>2, <2>1, <2>2 DEF Clock
<1>5. Serving'
  BY <1>1 DEF IInv, Driving, Serving, Serves, Between, Todo, Last
<1>6. Contents'
  BY <1>1 DEF IInv, Driving, Contents, Serves, OfThisStep, StepSamples
<1> QED BY <1>3, <1>4, <1>5, <1>6 DEF Driving

LEMMA NextInv == IInv /\ [Next]_vars => IInv'
<1> SUFFICES ASSUME IInv, [Next]_vars PROVE IInv'
  OBVIOUS
<1>1. Q!IInv'
  BY QueueInvStep
<1>2. Driving'
  BY StepBegins, WaveDispatched, RolloutCompletes, ReplicaAnswers, SampleHandedIn,
     BatchReserved, WindowSettles, WeightsActivated, TimePasses DEF Next, Driver
<1> QED BY <1>1, <1>2 DEF IInv

(***************************************************************************)
(* The inductive invariant: the queue's own, the driver's place among the  *)
(* prompts of its step, and what the queue holds there.  The places are    *)
(* needed because only the count of the accepted samples tells the driver  *)
(* that nothing of this step is left for the next.                         *)
(***************************************************************************)
THEOREM LoopInvariance == Spec => []IInv
<1>1. QED
  BY InitInv, NextInv, PTL DEF Spec

(***************************************************************************)
(* Training is on policy: a batch in the train window is made of samples   *)
(* of the current weights and of this step's prompts only, and the queue   *)
(* behind it is empty, for every batch size, watermark and lag allowed.    *)
(***************************************************************************)
THEOREM TrainsOnPolicy == Spec => []OnPolicy
<1>1. IInv => OnPolicy
  BY DEF IInv, Driving, Contents, OfThisStep, OnPolicy
<1>2. QED
  BY <1>1, LoopInvariance, PTL

(***************************************************************************)
(* The loop uses the queue as the queue is specified: each of its steps is *)
(* one call of the actor or none.  What is true of the queue under every   *)
(* caller is then true of the queue under this one.                        *)
(***************************************************************************)
THEOREM LoopDrivesQueue == Spec => Q!Spec
<1>1. Init => Q!Init
  BY DEF Init, Queue!Init, Q!Init, Queue!Batches, Q!Batches
<1>2. QED
  BY <1>1, QueueStep, LoopInvariance, PTL DEF Spec, Q!Spec

(***************************************************************************)
(* No sample is trained twice, however often a data set names it: what has *)
(* been acked is neither queued nor reserved again, ever.                  *)
(***************************************************************************)
THEOREM TrainsOnce == Spec => []TrainedOnce
<1>1. IInv => TrainedOnce
  BY SamePlaces DEF IInv, Q!IInv, Q!OnePlace, TrainedOnce
<1>2. QED
  BY <1>1, LoopInvariance, PTL

-----------------------------------------------------------------------------
(***************************************************************************)
(* What a dispatch does to the slots.  Granted is a recursive function;    *)
(* that it exists, and what its values are, is shown of the least number   *)
(* for which it would fail.                                                *)
(***************************************************************************)
LEMMA GrantedUnfolds ==
  ASSUME Budget \in Nat
  PROVE  /\ Granted[0] = [slots |-> inFlight, next |-> cursor]
         /\ \A n \in 1..Budget : Granted[n] = Grant(Granted[n - 1], backlog[n])
<1> DEFINE base == [slots |-> inFlight, next |-> cursor]
           Body(g, m) == [n \in 0..m |-> IF n = 0 THEN base ELSE Grant(g[n - 1], backlog[n])]
           Bad == {m \in 0..Budget : ~ \E g : g = Body(g, m)}
<1>1. Bad = {}
  <2> SUFFICES ASSUME Bad # {} PROVE FALSE
    OBVIOUS
  <2>1. PICK m \in Bad : \A j \in Bad : m <= j
    <3>1. Bad \in SUBSET Nat
      BY SMT
    <3> HIDE DEF Bad
    <3> QED BY <3>1, QueueLimits, Q!LeastElement
  <2>2. m \in 0..Budget /\ ~ \E g : g = Body(g, m)
    BY <2>1
  <2>3. CASE m = 0
    <3> DEFINE g == [n \in 0..0 |-> base]
    <3>1. g = Body(g, 0)
      BY SMT
    <3> QED BY <2>2, <2>3, <3>1
  <2>4. CASE m # 0
    <3>1. m - 1 \in 0..Budget /\ m - 1 \notin Bad
      BY <2>1, <2>2, <2>4
    <3>2. PICK g : g = Body(g, m - 1)
      BY <3>1
    <3> DEFINE h == [n \in 0..m |-> IF n = m THEN Grant(g[m - 1], backlog[m]) ELSE g[n]]
    <3>3. \A n \in 0..m - 1 : g[n] = IF n = 0 THEN base ELSE Grant(g[n - 1], backlog[n])
      BY <3>2
    <3>4. \A n \in 0..m : h[n] = IF n = m THEN Grant(g[m - 1], backlog[m]) ELSE g[n]
      OBVIOUS
    <3>5. ASSUME NEW n \in 0..m
          PROVE  h[n] = IF n = 0 THEN base ELSE Grant(h[n - 1], backlog[n])
      <4>1. CASE n = 0
        <5>1. h[n] = g[n] /\ n \in 0..m - 1
          BY <2>2, <2>4, <3>4, <4>1
        <5> QED BY <3>3, <4>1, <5>1
      <4>2. CASE n # 0
        <5>1. n - 1 \in 0..m - 1 /\ n - 1 \in 0..m /\ n - 1 # m
          BY <2>2, <4>2
        <5>2. h[n - 1] = g[n - 1]
          BY <3>4, <5>1
        <5>3. CASE n = m
          <6>1. h[n] = Grant(g[m - 1], backlog[m])
            BY <3>4, <5>3
          <6> HIDE DEF h
          <6> QED BY <4>2, <5>2, <5>3, <6>1
        <5>4. CASE n # m
          <6>1. n \in 0..m - 1 /\ h[n] = g[n]
            BY <2>2, <3>4, <5>4
          <6> HIDE DEF h
          <6> QED BY <3>3, <4>2, <5>2, <6>1
        <5> QED BY <5>3, <5>4
      <4> QED BY <4>1, <4>2
    <3>6. h = [n \in 0..m |-> h[n]]
      OBVIOUS
    <3> HIDE DEF h
    <3>7. h = Body(h, m)
      BY <3>5, <3>6
    <3> QED BY <2>2, <3>7
  <2> QED BY <2>3, <2>4
<1>2. Budget \notin Bad /\ Budget \in 0..Budget
  <2> HIDE DEF Bad
  <2> QED BY <1>1
<1>3. PICK g : g = Body(g, Budget)
  BY <1>2
<1>4. Granted = Body(Granted, Budget)
  BY <1>3 DEF Granted
<1> HIDE DEF base
<1>5. \A n \in 0..Budget : Granted[n] = IF n = 0 THEN base ELSE Grant(Granted[n - 1], backlog[n])
  BY <1>4
<1>6. Granted[0] = base
  BY <1>5
<1>7. \A n \in 1..Budget : Granted[n] = Grant(Granted[n - 1], backlog[n])
  <2> TAKE n \in 1..Budget
  <2>1. n \in 0..Budget /\ n # 0
    OBVIOUS
  <2> QED BY <1>5, <2>1
<1> QED BY <1>6, <1>7 DEF base

\* While there is room, some replica has a free slot.
LEMMA FreeSlot ==
  ASSUME NEW slots \in [Requests -> Replicas \cup {Nobody}],
         Cardinality({k \in Requests : slots[k] # Nobody}) < NumReplicas * MaxInFlight
  PROVE  \E r \in Replicas : Load(slots, r) < MaxInFlight
<1> DEFINE UpTo(q) == {k \in Requests : slots[k] \in 1..q}
           Bad == {q \in 0..NumReplicas : Cardinality(UpTo(q)) < q * MaxInFlight}
<1>1. IsFiniteSet(Requests)
  <2>1. BatchSize * MaxSteps \in Int /\ 1 \in Int
    BY Sizes
  <2> QED BY <2>1, FS_Interval, Zenon DEF Requests
<1>2. \A q : IsFiniteSet(UpTo(q)) /\ Cardinality(UpTo(q)) \in Nat
  BY <1>1, FS_Subset, FS_CardinalityType
<1>3. NumReplicas \in Bad
  <2>1. UpTo(NumReplicas) = {k \in Requests : slots[k] # Nobody}
    BY Sizes DEF Replicas, Nobody
  <2>2. NumReplicas \in 0..NumReplicas
    BY Sizes
  <2> QED BY <2>1, <2>2
<1>4. PICK q \in Bad : \A j \in Bad : q <= j
  <2>1. Bad \in SUBSET Nat
    BY SMT
  <2> HIDE DEF Bad
  <2> QED BY <1>3, <2>1, QueueLimits, Q!LeastElement
<1>5. q \in 0..NumReplicas /\ Cardinality(UpTo(q)) < q * MaxInFlight
  BY <1>4
<1>6. q # 0
  BY <1>2, <1>5, Sizes
<1>7. q \in Replicas /\ q - 1 \in 0..NumReplicas /\ q - 1 \notin Bad
  <2>1. q \in Replicas /\ q - 1 \in 0..NumReplicas /\ ~ (q <= q - 1)
    BY <1>5, <1>6, Sizes DEF Replicas
  <2> HIDE DEF Bad
  <2> QED BY <1>4, <2>1
<1>8. ~ (Cardinality(UpTo(q - 1)) < (q - 1) * MaxInFlight)
  BY <1>7
<1> DEFINE mine == {k \in Requests : slots[k] = q}
<1>9. UpTo(q) = UpTo(q - 1) \cup mine /\ UpTo(q - 1) \cap mine = {}
  <2>1. 1..q = (1..q - 1) \cup {q} /\ q \notin 1..q - 1
    BY <1>7, Sizes DEF Replicas
  <2> QED BY <2>1
<1>10. IsFiniteSet(mine) /\ Cardinality(mine) \in Nat
  BY <1>1, FS_Subset, FS_CardinalityType
<1> HIDE DEF mine, UpTo, Bad
<1>11. Cardinality(UpTo(q)) = Cardinality(UpTo(q - 1)) + Cardinality(mine)
  <2>1. /\ IsFiniteSet(UpTo(q - 1)) /\ Cardinality(UpTo(q - 1)) \in Nat
        /\ Cardinality(UpTo(q - 1) \cap mine) = 0
    BY <1>2, <1>9, FS_EmptySet
  <2>2. Cardinality(UpTo(q - 1) \cup mine)
          = Cardinality(UpTo(q - 1)) + Cardinality(mine) - Cardinality(UpTo(q - 1) \cap mine)
    BY <1>10, <2>1, FS_Union
  <2> QED BY <1>9, <1>10, <2>1, <2>2
<1>12. q * MaxInFlight = (q - 1) * MaxInFlight + MaxInFlight /\ (q - 1) * MaxInFlight \in Nat
  <2>1. PICK j \in Nat : q = j + 1
    <3>1. q - 1 \in Nat /\ q = (q - 1) + 1
      BY <1>7, Sizes DEF Replicas
    <3> QED BY <3>1
  <2> QED BY <2>1, Sizes
<1>13. Cardinality(mine) < MaxInFlight
  BY <1>2, <1>5, <1>8, <1>10, <1>11, <1>12, Sizes
<1> QED BY <1>7, <1>13 DEF Load, mine

\* From any place in the cycle every replica can be reached, and only those.
LEMMA CycleReaches ==
  ASSUME NEW c \in Replicas
  PROVE  /\ \A d \in Nat : After(c, d) \in Replicas
         /\ \A r \in Replicas : \E d \in 0..NumReplicas - 1 : After(c, d) = r
<1>1. NumReplicas \in Nat \ {0} /\ c - 1 \in Nat
  BY Sizes DEF Replicas
<1>2. ASSUME NEW d \in Nat PROVE After(c, d) \in Replicas
  <2>1. c - 1 + d \in Nat
    BY <1>1
  <2>2. (c - 1 + d) % NumReplicas \in 0..NumReplicas - 1
    BY <1>1, <2>1
  <2> QED BY <1>1, <2>2 DEF After, Replicas
<1>3. ASSUME NEW r \in Replicas PROVE \E d \in 0..NumReplicas - 1 : After(c, d) = r
  <2>1. r - 1 \in 0..NumReplicas - 1
    BY <1>1 DEF Replicas
  <2>2. CASE r >= c
    <3>1. r - c \in 0..NumReplicas - 1 /\ c - 1 + (r - c) = r - 1
      BY <1>1, <2>2 DEF Replicas
    <3>2. (r - 1) % NumReplicas = r - 1
      BY <1>1, <2>1
    <3>3. After(c, r - c) = r
      BY <1>1, <3>1, <3>2 DEF After, Replicas
    <3> QED BY <3>1, <3>3
  <2>3. CASE r < c
    <3>1. /\ r - c + NumReplicas \in 0..NumReplicas - 1
          /\ c - 1 + (r - c + NumReplicas) = (r - 1) + NumReplicas
      BY <1>1, <2>3 DEF Replicas
    <3>2. ((r - 1) + NumReplicas) % NumReplicas = r - 1
      BY <1>1, <2>1
    <3>3. After(c, r - c + NumReplicas) = r
      BY <1>1, <3>1, <3>2 DEF After, Replicas
    <3> QED BY <3>1, <3>3
  <2> QED BY <2>2, <2>3, <1>1 DEF Replicas
<1> QED BY <1>2, <1>3

SlotMaps == [Requests -> Replicas \cup {Nobody}]

LEMMA GrantsOne ==
  ASSUME NEW before, NEW k \in Requests,
         before.slots \in SlotMaps, before.next \in Replicas,
         Cardinality({j \in Requests : before.slots[j] # Nobody}) < NumReplicas * MaxInFlight
  PROVE  /\ Grant(before, k).slots \in SlotMaps /\ Grant(before, k).next \in Replicas
         /\ \A j \in Requests : Grant(before, k).slots[j] # Nobody
                                  <=> j = k \/ before.slots[j] # Nobody
<1> DEFINE c == before.next
           S == before.slots
           T == {d \in 0..NumReplicas - 1 : Load(S, After(c, d)) < MaxInFlight}
<1> HIDE DEF c, S
<1>1. c \in Replicas /\ S \in SlotMaps
      /\ Cardinality({j \in Requests : S[j] # Nobody}) < NumReplicas * MaxInFlight
  BY DEF c, S
<1>2. PICK r \in Replicas : Load(S, r) < MaxInFlight
  BY <1>1, FreeSlot DEF SlotMaps
<1>3. T # {}
  <2>1. PICK d \in 0..NumReplicas - 1 : After(c, d) = r
    BY <1>1, CycleReaches
  <2> QED BY <1>2, <2>1
<1>4. Skipped(S, c) \in 0..NumReplicas - 1
  <2>1. T \in SUBSET Nat
    BY Sizes
  <2>2. Skipped(S, c) = Least(T)
    BY DEF Skipped
  <2>3. Least(T) \in T
    <3> HIDE DEF T
    <3> QED BY <1>3, <2>1, LeastIs
  <2> QED BY <2>2, <2>3
<1> DEFINE g == After(c, Skipped(S, c))
<1>5. g \in Replicas
  BY <1>1, <1>4, Sizes, CycleReaches
<1> HIDE DEF g, T
<1>6. After(g, 1) \in Replicas /\ g # Nobody
  BY <1>5, CycleReaches DEF Replicas, Nobody
<1>7. Grant(before, k).slots = [S EXCEPT ![k] = g] /\ Grant(before, k).next = After(g, 1)
  BY DEF Grant, c, S, g
<1>8. [S EXCEPT ![k] = g] \in SlotMaps
      /\ \A j \in Requests : [S EXCEPT ![k] = g][j] = IF j = k THEN g ELSE S[j]
  BY <1>1, <1>5 DEF SlotMaps
<1>9. \A j \in Requests : [S EXCEPT ![k] = g][j] # Nobody <=> j = k \/ S[j] # Nobody
  BY <1>6, <1>8
<1> QED BY <1>6, <1>7, <1>8, <1>9 DEF S

\* A dispatch takes a slot for each request it sends, and for no other.
LEMMA ScheduleFills ==
  ASSUME IInv, pc = "rollout", inFlight \in SlotMaps, cursor \in Replicas, OnTheWay = {}
  PROVE  /\ Schedule.slots \in SlotMaps /\ Schedule.next \in Replicas
         /\ \A k \in Requests : Schedule.slots[k] # Nobody <=> \E i \in 1..Budget : backlog[i] = k
<1>1. /\ Budget \in Nat /\ Budget <= Len(backlog) /\ Budget <= NumReplicas * MaxInFlight
      /\ backlog \in Seq(Requests) /\ NumReplicas * MaxInFlight \in Nat
  <2>1. Cardinality(OnTheWay) = 0
    BY FS_EmptySet
  <2>2. NumReplicas * MaxInFlight \in Nat
    BY Sizes
  <2>3. Monus(NumReplicas * MaxInFlight, 0) = NumReplicas * MaxInFlight
    BY <2>2 DEF Monus
  <2> QED BY <2>1, <2>2, <2>3, BudgetFits DEF IInv, Driving, Types
<1> DEFINE Taken(n) == {backlog[i] : i \in 1..n}
           Good(n) == /\ Granted[n].slots \in SlotMaps /\ Granted[n].next \in Replicas
                      /\ \A k \in Requests : Granted[n].slots[k] # Nobody <=> k \in Taken(n)
           Bad == {n \in 0..Budget : ~Good(n)}
<1>2. /\ Granted[0] = [slots |-> inFlight, next |-> cursor]
      /\ \A n \in 1..Budget : Granted[n] = Grant(Granted[n - 1], backlog[n])
  BY <1>1, GrantedUnfolds
<1>3. Good(0)
  <2>1. Taken(0) = {}
    OBVIOUS
  <2>2. \A k \in Requests : inFlight[k] = Nobody
    BY DEF OnTheWay
  <2>3. Granted[0].slots = inFlight /\ Granted[0].next = cursor
    BY <1>2
  <2> HIDE DEF Taken
  <2> QED BY <2>1, <2>2, <2>3
<1>4. ASSUME NEW n \in 1..Budget, Good(n - 1) PROVE Good(n)
  <2> DEFINE before == Granted[n - 1]
  <2>1. backlog[n] \in Requests /\ Taken(n) = Taken(n - 1) \cup {backlog[n]}
    <3>1. n \in 1..Len(backlog) /\ 1..n = (1..n - 1) \cup {n}
      BY <1>1
    <3> QED BY <1>1, <3>1
  <2>2. {j \in Requests : before.slots[j] # Nobody} = Taken(n - 1)
    <3>1. Taken(n - 1) \subseteq Requests
      BY <1>1
    <3> HIDE DEF Taken
    <3> QED BY <1>4, <3>1
  <2>3. Cardinality(Taken(n - 1)) < NumReplicas * MaxInFlight
    <3>1. n - 1 \in Nat /\ n - 1 < NumReplicas * MaxInFlight
      BY <1>1
    <3>2. IsFiniteSet(1..n - 1) /\ Cardinality(1..n - 1) = n - 1
      <4>1. 1 \in Int /\ n - 1 \in Int
        BY <3>1
      <4>2. IsFiniteSet(1..n - 1)
             /\ Cardinality(1..n - 1) = IF 1 > n - 1 THEN 0 ELSE n - 1 - 1 + 1
        BY <4>1, FS_Interval, Zenon
      <4> QED BY <3>1, <4>2
    <3> DEFINE f == [i \in 1..n - 1 |-> backlog[i]]
    <3>3. f \in [1..n - 1 -> Taken(n - 1)] /\ \A x \in Taken(n - 1) : \E i \in 1..n - 1 : f[i] = x
      OBVIOUS
    <3> HIDE DEF f, Taken
    <3>4. f \in Surjection(1..n - 1, Taken(n - 1))
      BY <3>3, Fun_IsSurj
    <3>5. Cardinality(Taken(n - 1)) <= n - 1 /\ Cardinality(Taken(n - 1)) \in Nat
      BY <3>2, <3>4, FS_Surjection, FS_CardinalityType
    <3> QED BY <1>1, <3>1, <3>5
  <2>4. before.slots \in SlotMaps /\ before.next \in Replicas
    BY <1>4
  <2>5. Granted[n] = Grant(before, backlog[n])
    BY <1>2
  <2> HIDE DEF before, Taken
  <2>6. /\ Granted[n].slots \in SlotMaps /\ Granted[n].next \in Replicas
        /\ \A j \in Requests : Granted[n].slots[j] # Nobody
                                 <=> j = backlog[n] \/ before.slots[j] # Nobody
    BY <2>1, <2>2, <2>3, <2>4, <2>5, GrantsOne
  <2>7. \A j \in Requests : Granted[n].slots[j] # Nobody <=> j \in Taken(n)
    BY <2>1, <2>2, <2>6
  <2> QED BY <2>6, <2>7
<1> HIDE DEF Good
<1>5. Bad = {}
  <2> SUFFICES ASSUME Bad # {} PROVE FALSE
    OBVIOUS
  <2>1. Bad \in SUBSET Nat
    BY SMT
  <2>2. PICK m \in Bad : \A j \in Bad : m <= j
    <3> HIDE DEF Bad
    <3> QED BY <2>1, QueueLimits, Q!LeastElement
  <2>3. m \in 1..Budget /\ m - 1 \in 0..Budget /\ ~ (m <= m - 1)
    BY <1>1, <1>3, <2>2
  <2>4. Good(m - 1)
    BY <2>2, <2>3
  <2> QED BY <1>4, <2>2, <2>3, <2>4
<1>6. Good(Budget)
  <2>1. Budget \in 0..Budget
    BY <1>1
  <2> QED BY <1>5, <2>1
<1> QED BY <1>6 DEF Good, Schedule

-----------------------------------------------------------------------------
(***************************************************************************)
(* The manager's slots: taken by the requests the driver waits for, and by *)
(* no other, until an error ends the run.                                  *)
(***************************************************************************)
Slots ==
  /\ inFlight \in SlotMaps /\ cursor \in Replicas
  /\ pc # "failed" => OnTheWay = Handed

LEMMA InitSlots == Init => Slots
<1> SUFFICES ASSUME Init PROVE Slots
  OBVIOUS
<1>1. inFlight \in SlotMaps /\ cursor \in Replicas
  BY Sizes DEF Init, SlotMaps, Replicas
<1>2. OnTheWay = {} /\ Handed = {}
  BY DEF Init, OnTheWay, Handed
<1> QED BY <1>1, <1>2 DEF Slots

LEMMA DispatchSlots ==
  ASSUME IInv, Slots, Dispatch
  PROVE  Slots'
<1>1. pc = "rollout" /\ wave = <<>> /\ pc # "failed"
  BY DEF Dispatch, IInv, Driving, Serving
<1>2. OnTheWay = {}
  BY <1>1 DEF Slots, Handed
<1>3. CASE Budget = 0
  <2>1. pc' = "short" /\ UNCHANGED <<inFlight, cursor, wave>>
    BY <1>3 DEF Dispatch
  <2> QED BY <1>1, <2>1 DEF Slots, OnTheWay, Handed
<1>4. CASE Budget # 0
  <2>1. /\ inFlight' = Schedule.slots /\ cursor' = Schedule.next
        /\ wave' = SubSeq(backlog, 1, Budget)
    BY <1>4 DEF Dispatch
  <2>2. /\ Schedule.slots \in SlotMaps /\ Schedule.next \in Replicas
        /\ \A k \in Requests : Schedule.slots[k] # Nobody <=> \E i \in 1..Budget : backlog[i] = k
    BY <1>1, <1>2, ScheduleFills DEF Slots
  <2>3. backlog \in Seq(Requests) /\ Budget \in Nat /\ Budget <= Len(backlog)
    BY <1>1, BudgetFits DEF IInv, Driving, Types
  <2>4. DOMAIN wave' = 1..Budget /\ \A i \in 1..Budget : wave'[i] = backlog[i] /\ backlog[i] \in Requests
    <3> DEFINE n == Budget
    <3>1. n \in Nat /\ n <= Len(backlog) /\ wave' = SubSeq(backlog, 1, n)
      BY <2>1, <2>3
    <3> HIDE DEF n
    <3>2. DOMAIN wave' = 1..n /\ \A i \in 1..n : wave'[i] = backlog[i] /\ backlog[i] \in Requests
      BY <2>3, <3>1
    <3> QED BY <3>2 DEF n
  <2>5. OnTheWay' = Handed'
    <3>1. \A k \in Requests : inFlight'[k] # Nobody <=> \E i \in 1..Budget : backlog[i] = k
      BY <2>1, <2>2
    <3>2. OnTheWay' = {backlog[i] : i \in 1..Budget}
      BY <2>4, <3>1 DEF OnTheWay
    <3>3. Handed' = {backlog[i] : i \in 1..Budget}
      BY <2>4 DEF Handed
    <3> QED BY <3>2, <3>3
  <2> QED BY <2>1, <2>2, <2>5 DEF Slots
<1> QED BY <1>3, <1>4

LEMMA HandInSlots ==
  ASSUME IInv, Slots, HandIn
  PROVE  Slots'
<1> DEFINE k == Head(wave)
<1>1. /\ pc = "wave" /\ inFlight' = [inFlight EXCEPT ![k] = Nobody]
      /\ wave' = Tail(wave) /\ cursor' = cursor
  BY DEF HandIn, CompleteRequest
<1>2. /\ wave \in Seq(Requests) /\ wave # <<>> /\ k \in Requests
      /\ Last \in Nat /\ Todo \in Nat /\ Len(wave) \in Nat \ {0}
      /\ \A i \in 1..Len(wave) : wave[i] = Last - Todo + i
  BY <1>1, NextPrompt DEF IInv, Driving, Types, Serving, Serves
<1>3. /\ k = wave[1]
      /\ DOMAIN Tail(wave) = 1..Len(wave) - 1
      /\ \A i \in 1..Len(wave) - 1 : Tail(wave)[i] = wave[i + 1]
  BY <1>2
<1>4. Handed' = Handed \ {k}
  <2>1. ASSUME NEW i \in DOMAIN Tail(wave) PROVE Tail(wave)[i] \in Handed /\ Tail(wave)[i] # k
    <3>1. i + 1 \in 1..Len(wave) /\ Tail(wave)[i] = wave[i + 1] /\ 1 \in 1..Len(wave) /\ i # 0
      BY <1>2, <1>3
    <3>2. wave[i + 1] # wave[1]
      BY <1>2, <3>1
    <3> QED BY <1>2, <1>3, <3>1, <3>2 DEF Handed
  <2>2. ASSUME NEW j \in DOMAIN wave, wave[j] # k
        PROVE  \E i \in DOMAIN Tail(wave) : Tail(wave)[i] = wave[j]
    <3>1. j - 1 \in 1..Len(wave) - 1 /\ (j - 1) + 1 = j
      BY <1>2, <1>3, <2>2
    <3> QED BY <1>3, <3>1
  <2> HIDE DEF k
  <2> QED BY <1>1, <2>1, <2>2 DEF Handed
<1> HIDE DEF k
<1>5. inFlight' \in SlotMaps /\ \A j \in Requests : inFlight'[j] = IF j = k THEN Nobody ELSE inFlight[j]
  BY <1>1, <1>2 DEF Slots, SlotMaps
<1>6. OnTheWay' = OnTheWay \ {k}
  BY <1>5 DEF OnTheWay
<1> QED BY <1>1, <1>4, <1>5, <1>6 DEF Slots

LEMMA NextSlots == IInv /\ Slots /\ [Next]_vars => Slots'
<1> SUFFICES ASSUME IInv, Slots, [Next]_vars PROVE Slots'
  OBVIOUS
<1>1. CASE UNCHANGED <<inFlight, cursor, wave>> /\ (pc = "failed" => pc' = "failed")
  BY <1>1 DEF Slots, OnTheWay, Handed
<1>2. CASE BeginStep \/ RolloutComplete \/ \E k \in Requests : Replica(k)
  BY <1>1, <1>2 DEF BeginStep, RolloutComplete, Replica, Generate, GenerateFails, Waiting,
                    driverVars, managerVars
<1>3. CASE ReserveBatch \/ Window \/ Activate
  BY <1>1, <1>3 DEF ReserveBatch, Window, Activate, managerVars
<1>4. CASE Tick
  BY <1>1, <1>4 DEF Tick, driverVars, managerVars
<1>5. CASE UNCHANGED vars
  BY <1>1, <1>5 DEF vars, driverVars, managerVars
<1> QED BY <1>2, <1>3, <1>4, <1>5, DispatchSlots, HandInSlots DEF Next, Driver

-----------------------------------------------------------------------------
(***************************************************************************)
(* Why a step may come up short.  Until there is an excuse, every prompt   *)
(* of the step is accepted or still to come; and what the queue has seen   *)
(* are samples of requests handed in.                                      *)
(***************************************************************************)
Excused ==
  \/ StepSamples \cap dropped # {}
  \/ Cardinality(StepSamples) < BatchSize
  \/ \E k \in 1..(step - 1) * BatchSize : idOf[k] \in StepSamples

SeenUpTo(n) == \A s \in seen : \E k \in 1..n : idOf[k] = s

Counted ==
  /\ Serves => /\ Excused \/ accepted + Todo = BatchSize
               /\ SeenUpTo(Last - Todo)
  /\ Between => SeenUpTo(Last)
  /\ ShortForAReason

LEMMA InitCounted == Init => Counted
  BY DEF Init, Counted, Serves, Between, SeenUpTo, ShortForAReason, Queue!Init

LEMMA ExcuseKept ==
  ASSUME Excused, UNCHANGED <<step, idOf>>, dropped \subseteq dropped'
  PROVE  Excused'
<1>1. StepSamples' = StepSamples
  BY DEF StepSamples
<1>2. CASE StepSamples \cap dropped # {}
  BY <1>1, <1>2 DEF Excused
<1>3. CASE Cardinality(StepSamples) < BatchSize
  BY <1>1, <1>3 DEF Excused
<1>4. CASE \E k \in 1..(step - 1) * BatchSize : idOf[k] \in StepSamples
  <2>1. PICK k \in 1..(step - 1) * BatchSize : idOf[k] \in StepSamples
    BY <1>4
  <2>2. k \in 1..(step' - 1) * BatchSize /\ idOf'[k] \in StepSamples'
    BY <1>1, <2>1
  <2> QED BY <2>2 DEF Excused
<1> QED BY <1>2, <1>3, <1>4 DEF Excused

\* Two prompts of a step that name one sample leave fewer samples than prompts.
LEMMA RepeatedInStep ==
  ASSUME NEW i \in 1..BatchSize, NEW j \in 1..BatchSize, i # j,
         idOf[StepPrompts(step)[i]] = idOf[StepPrompts(step)[j]]
  PROVE  Cardinality(StepSamples) < BatchSize
<1> DEFINE f == [n \in 1..BatchSize |-> idOf[StepPrompts(step)[n]]]
<1>1. /\ f \in [1..BatchSize -> StepSamples]
      /\ \A x \in StepSamples : \E n \in 1..BatchSize : f[n] = x
  BY DEF StepSamples
<1>2. f[i] = f[j]
  OBVIOUS
<1> HIDE DEF f
<1>3. f \in Surjection(1..BatchSize, StepSamples) /\ f \notin Injection(1..BatchSize, StepSamples)
  <2>1. f \in Surjection(1..BatchSize, StepSamples)
    BY <1>1, Fun_IsSurj
  <2> QED BY <1>2, <2>1, Fun_InjectionProperties
<1>4. IsFiniteSet(1..BatchSize) /\ Cardinality(1..BatchSize) = BatchSize
  <2>1. 1 \in Int /\ BatchSize \in Int
    BY Sizes
  <2>2. IsFiniteSet(1..BatchSize)
         /\ Cardinality(1..BatchSize) = IF 1 > BatchSize THEN 0 ELSE BatchSize - 1 + 1
    BY <2>1, FS_Interval, Zenon
  <2> QED BY <2>2, Sizes
<1>5. /\ IsFiniteSet(StepSamples) /\ Cardinality(StepSamples) <= BatchSize
      /\ Cardinality(StepSamples) # BatchSize
  BY <1>3, <1>4, FS_Surjection
<1>6. Cardinality(StepSamples) \in Nat
  BY <1>5, FS_CardinalityType
<1> QED BY <1>5, <1>6, Sizes

LEMMA BeginCounted ==
  ASSUME IInv, Counted, BeginStep, UNCHANGED idOf
  PROVE  Counted'
<1>1. /\ pc = "start" /\ pc' = "rollout" /\ step < MaxSteps /\ step' = step + 1 /\ accepted' = 0
      /\ backlog' = backlog \o StepPrompts(step + 1) /\ wave' = wave /\ seen' = seen
  BY DEF BeginStep, queueVars
<1>2. /\ backlog = <<>> /\ wave = <<>> /\ step \in Nat /\ step + 1 \in 1..MaxSteps /\ SeenUpTo(Last)
  BY <1>1, Sizes DEF IInv, Driving, Types, Serving, Between, Counted
<1>3. Todo' = BatchSize
  <2>1. StepPrompts(step + 1) \in Seq(Requests) /\ Len(StepPrompts(step + 1)) = BatchSize
    BY <1>2, PromptsOfStep
  <2>2. Len(backlog') = BatchSize /\ Len(wave') = 0
    BY <1>1, <1>2, <2>1
  <2> QED BY <2>2, Sizes DEF Todo
<1>4. Last' - Todo' = Last
  <2>1. (step + 1) * BatchSize = step * BatchSize + BatchSize /\ step * BatchSize \in Nat
    <3>1. (step + 1) - 1 = step
      BY <1>2
    <3> QED BY <1>2, <3>1, LastInStep
  <2> QED BY <1>1, <1>3, <2>1, Sizes DEF Last
<1>5. SeenUpTo(Last - Todo)'
  BY <1>1, <1>2, <1>4 DEF SeenUpTo
<1>6. accepted' + Todo' = BatchSize
  BY <1>1, <1>3, Sizes
<1> QED BY <1>1, <1>5, <1>6 DEF Counted, Serves, Between, ShortForAReason

\* The driver gives up only when the backlog is empty, or the watermark too low.
LEMMA DispatchCounted ==
  ASSUME IInv, Slots, Counted, Dispatch, UNCHANGED idOf
  PROVE  Counted'
<1>1. /\ pc = "rollout" /\ accepted < BatchSize
      /\ UNCHANGED <<step, accepted, seen, dropped, idOf>>
  BY DEF Dispatch, queueVars
<1>2. /\ wave = <<>> /\ backlog \in Seq(Requests) /\ Len(pending) <= accepted
      /\ accepted \in Nat /\ Len(pending) \in Nat
      /\ Excused \/ accepted + Todo = BatchSize
      /\ SeenUpTo(Last - Todo)
  BY <1>1, QueueTypes, Sizes
     DEF IInv, Driving, Types, Serving, Contents, Counted, Serves, Between
<1>3. StepSamples' = StepSamples /\ Last' = Last /\ (Excused => Excused')
  BY <1>1, ExcuseKept DEF StepSamples, Last
<1>4. CASE Budget > 0
  <2>1. /\ wave' = SubSeq(backlog, 1, Budget) /\ pc' = "wave"
        /\ backlog' = SubSeq(backlog, Budget + 1, Len(backlog))
    BY <1>4 DEF Dispatch
  <2>2. PICK n \in Nat : n = Budget /\ n <= Len(backlog)
    BY <1>1, BudgetFits
  <2>3. Len(wave') = n /\ Len(backlog') = Len(backlog) - n
    BY <1>2, <2>1, <2>2
  <2>4. Todo' = Todo
    BY <1>2, <2>2, <2>3 DEF Todo
  <2>5. SeenUpTo(Last - Todo)' /\ accepted' + Todo' = accepted + Todo
    BY <1>1, <1>2, <1>3, <2>4 DEF SeenUpTo
  <2> QED BY <1>2, <1>3, <2>1, <2>5 DEF Counted, Serves, Between, ShortForAReason
<1>5. CASE ~ (Budget > 0)
  <2>1. pc' = "short" /\ Budget = 0
    <3>1. Budget \in Nat
      BY <1>1, BudgetFits
    <3> QED BY <1>5, <3>1 DEF Dispatch
  <2>2. HighWatermark < BatchSize \/ Excused
    <3> SUFFICES ASSUME ~ (HighWatermark < BatchSize), ~Excused PROVE FALSE
      OBVIOUS
    <3>1. Cardinality(OnTheWay) = 0
      <4>1. OnTheWay = {}
        BY <1>1, <1>2 DEF Slots, Handed
      <4> QED BY <4>1, FS_EmptySet
    <3>2. Len(backlog) > 0
      <4>1. accepted + Todo = BatchSize /\ Len(wave) = 0 /\ Len(backlog) \in Nat
        BY <1>2
      <4> QED BY <1>1, <1>2, <4>1, Sizes DEF Todo
    <3>3. Monus(HighWatermark, Len(pending)) > 0
      BY <1>1, <1>2, Sizes DEF Monus
    <3>4. Monus(NumReplicas * MaxInFlight, 0) > 0
      <4>1. PICK a \in Nat, b \in Nat : NumReplicas = a + 1 /\ MaxInFlight = b + 1
        <5>1. NumReplicas - 1 \in Nat /\ NumReplicas = (NumReplicas - 1) + 1
          BY Sizes
        <5>2. MaxInFlight - 1 \in Nat /\ MaxInFlight = (MaxInFlight - 1) + 1
          BY Sizes
        <5> QED BY <5>1, <5>2
      <4>2. NumReplicas * MaxInFlight = a * b + a + b + 1 /\ a * b \in Nat
        BY <4>1
      <4> QED BY <4>1, <4>2 DEF Monus
    <3>5. BatchSize - accepted > 0
      BY <1>1, <1>2, Sizes
    <3>6. Budget \in {Monus(HighWatermark, Len(pending)), Monus(NumReplicas * MaxInFlight, 0),
                      Len(backlog), BatchSize - accepted}
      BY <1>1, <3>1, BudgetFits
    <3> QED BY <2>1, <3>2, <3>3, <3>4, <3>5, <3>6
  <2>3. ShortForAReason'
    BY <1>3, <2>2 DEF ShortForAReason, Excused
  <2> QED BY <2>1, <2>3 DEF Counted, Serves, Between
<1> QED BY <1>4, <1>5

\* A sample that is not accepted is an excuse: it is dropped, or was seen before.
LEMMA HandInCounted ==
  ASSUME IInv, Counted, HandIn, UNCHANGED idOf
  PROVE  Counted'
<1> DEFINE k == Head(wave)
           record == Q!Record(idOf[k], policy, created[k])
<1>1. /\ pc = "wave" /\ pc' \in {"rollout", "wave"} /\ wave' = Tail(wave)
      /\ UNCHANGED <<step, backlog>>
  BY DEF HandIn
<1>2. /\ wave # <<>> /\ Todo \in 1..BatchSize /\ Last \in Nat
      /\ k \in Requests /\ k = Last - Todo + 1
      /\ BatchSize - Todo + 1 \in 1..BatchSize
      /\ k = StepPrompts(step)[BatchSize - Todo + 1]
      /\ idOf[k] \in StepSamples
  BY <1>1, NextPrompt
<1>3. /\ wave \in Seq(Requests) /\ backlog \in Seq(Requests) /\ accepted \in Nat
      /\ step \in 1..MaxSteps
      /\ Excused \/ accepted + Todo = BatchSize
      /\ SeenUpTo(Last - Todo)
  BY <1>1, Sizes DEF IInv, Driving, Types, Serving, Counted, Serves
<1>4. Todo' = Todo - 1 /\ Last' = Last /\ StepSamples' = StepSamples
  <2>1. Len(Tail(wave)) = Len(wave) - 1 /\ Len(wave) \in Nat /\ Len(backlog) \in Nat
    BY <1>2, <1>3
  <2> QED BY <1>1, <2>1 DEF Todo, Last, StepSamples
<1> HIDE DEF k
<1>5. CASE /\ Q!SubmitRecord(record)
           /\ accepted' = accepted + IF Q!Admissible(record) THEN 1 ELSE 0
  <2>1. record.id = idOf[k]
    BY DEF Q!Record
  <2> HIDE DEF record
  <2>2. /\ seen' = seen \cup {idOf[k]}
        /\ \/ accepted' = accepted + 1 /\ dropped' = dropped
           \/ accepted' = accepted + 0 /\ dropped' = dropped \cup {idOf[k]}
    BY <1>5, <2>1 DEF Q!SubmitRecord
  <2>3. SeenUpTo(Last - Todo)'
    <3> SUFFICES ASSUME NEW s \in seen' PROVE \E j \in 1..Last - Todo + 1 : idOf[j] = s
      BY <1>2, <1>4 DEF SeenUpTo
    <3>1. CASE s \in seen
      <4>1. PICK j \in 1..Last - Todo : idOf[j] = s
        BY <1>3, <3>1 DEF SeenUpTo
      <4>2. j \in 1..Last - Todo + 1
        BY <1>2, <4>1
      <4> QED BY <4>1, <4>2
    <3>2. CASE s = idOf[k]
      <4>1. k \in 1..Last - Todo + 1
        BY <1>2, <1>3, Sizes DEF Requests
      <4> QED BY <3>2, <4>1
    <3> QED BY <2>2, <3>1, <3>2
  <2>4. Excused' \/ accepted' + Todo' = BatchSize
    <3>1. CASE accepted' = accepted + 1 /\ dropped' = dropped
      <4>1. Excused => Excused'
        BY <1>1, <3>1, ExcuseKept
      <4>2. accepted' + Todo' = accepted + Todo
        BY <1>2, <1>3, <1>4, <3>1
      <4> QED BY <1>3, <4>1, <4>2
    <3>2. CASE dropped' = dropped \cup {idOf[k]}
      <4>1. StepSamples' \cap dropped' # {}
        BY <1>2, <1>4, <3>2
      <4> QED BY <4>1 DEF Excused
    <3> QED BY <2>2, <3>1, <3>2
  <2> QED BY <1>1, <2>3, <2>4 DEF Counted, Serves, Between, ShortForAReason
<1>6. CASE Q!SubmitDuplicate(idOf[k]) /\ accepted' = accepted
  <2>1. idOf[k] \in seen /\ seen' = seen /\ dropped' = dropped
    BY <1>6 DEF Q!SubmitDuplicate, Q!FirstSubmission, Q!vars
  <2>2. PICK j \in 1..Last - Todo : idOf[j] = idOf[k]
    BY <1>3, <2>1 DEF SeenUpTo
  <2>3. Last = (step - 1) * BatchSize + BatchSize /\ (step - 1) * BatchSize \in Nat
    BY <1>3, LastInStep DEF Last
  <2>4. Excused
    <3>1. CASE j <= (step - 1) * BatchSize
      <4>1. j \in 1..(step - 1) * BatchSize
        BY <2>3, <3>1, <1>2
      <4>2. idOf[j] \in StepSamples
        BY <1>2, <2>2
      <4> QED BY <4>1, <4>2 DEF Excused
    <3>2. CASE ~ (j <= (step - 1) * BatchSize)
      <4> DEFINE before == (step - 1) * BatchSize
                 i == j - before
      <4>1. before \in Nat /\ Last = before + BatchSize /\ j \in 1..Last - Todo /\ j > before
        BY <1>2, <2>3, <3>2
      <4> HIDE DEF before
      <4>2. i \in 1..BatchSize /\ i # BatchSize - Todo + 1 /\ j = Last - BatchSize + i
        BY <1>2, <4>1, Sizes
      <4>3. StepPrompts(step)[i] = j
        BY <1>3, <4>2, PromptsOfStep DEF Last
      <4>4. idOf[StepPrompts(step)[i]] = idOf[StepPrompts(step)[BatchSize - Todo + 1]]
        BY <1>2, <2>2, <4>3
      <4> HIDE DEF i
      <4>5. Cardinality(StepSamples) < BatchSize
        BY <1>2, <4>2, <4>4, RepeatedInStep
      <4> QED BY <4>5 DEF Excused
    <3> QED BY <3>1, <3>2
  <2>5. Excused'
    BY <1>1, <2>1, <2>4, ExcuseKept
  <2>6. SeenUpTo(Last - Todo)'
    <3> SUFFICES ASSUME NEW s \in seen PROVE \E i \in 1..Last - Todo + 1 : idOf[i] = s
      BY <1>2, <1>4, <2>1 DEF SeenUpTo
    <3>1. PICK i \in 1..Last - Todo : idOf[i] = s
      BY <1>3 DEF SeenUpTo
    <3>2. i \in 1..Last - Todo + 1
      BY <1>2, <3>1
    <3> QED BY <3>1, <3>2
  <2> QED BY <1>1, <2>5, <2>6 DEF Counted, Serves, Between, ShortForAReason
<1>7. \/ /\ Q!SubmitRecord(record)
         /\ accepted' = accepted + IF Q!Admissible(record) THEN 1 ELSE 0
      \/ Q!SubmitDuplicate(idOf[k]) /\ accepted' = accepted
  BY HandInSubmits DEF k
<1> HIDE DEF record
<1> QED BY <1>5, <1>6, <1>7

LEMMA NextCounted == IInv /\ Slots /\ Counted /\ [Next]_vars => Counted'
<1> SUFFICES ASSUME IInv, Slots, Counted, [Next]_vars PROVE Counted'
  OBVIOUS
<1>1. CASE UNCHANGED <<step, accepted, wave, backlog, idOf, seen, dropped>> /\ pc' = pc
  <2>1. Todo' = Todo /\ Last' = Last /\ (\A n : SeenUpTo(n)' = SeenUpTo(n))
    BY <1>1 DEF Todo, Last, SeenUpTo
  <2>2. Excused => Excused'
    BY <1>1, ExcuseKept
  <2>3. SeenUpTo(Last - Todo)' <=> SeenUpTo(Last - Todo)
    BY <1>1, <2>1 DEF SeenUpTo
  <2>4. SeenUpTo(Last)' <=> SeenUpTo(Last)
    BY <1>1, <2>1 DEF SeenUpTo
  <2>5. ShortForAReason'
    BY <1>1 DEF Counted, ShortForAReason, StepSamples
  <2> QED BY <1>1, <2>1, <2>2, <2>3, <2>4, <2>5 DEF Counted, Serves, Between
<1>2. CASE (\E k \in Requests : Replica(k)) \/ Tick \/ UNCHANGED vars
  <2>1. UNCHANGED <<step, accepted, wave, backlog, idOf, seen, dropped>>
    <3>1. CASE \E k \in Requests : Replica(k)
      BY <3>1 DEF Replica, Generate, GenerateFails, driverVars, managerVars, queueVars
    <3>2. CASE Tick
      BY <3>2 DEF Tick, Queue!Tick, driverVars, managerVars
    <3>3. CASE UNCHANGED vars
      BY <3>3 DEF vars, driverVars, managerVars, queueVars
    <3> QED BY <1>2, <3>1, <3>2, <3>3
  <2>2. pc' = pc \/ pc' = "failed"
    BY <1>2 DEF Replica, Generate, GenerateFails, Tick, vars, driverVars
  <2>3. CASE pc' = "failed"
    BY <2>3 DEF Counted, Serves, Between, ShortForAReason
  <2> QED BY <1>1, <2>1, <2>2, <2>3
<1>3. CASE (ReserveBatch \/ Window \/ Activate \/ RolloutComplete) /\ UNCHANGED idOf
  <2>1. /\ UNCHANGED <<step, accepted, wave, backlog, seen>>
        /\ pc' \in {"reserve", "window", "empty", "activate", "start", "done", "failed"}
    <3>1. CASE ReserveBatch
      BY <3>1, SameReserve DEF ReserveBatch, Q!Reserve, managerVars
    <3>2. CASE Window
      BY <3>2, SameSettle DEF Window, Q!Ack, Q!Release
    <3>3. CASE Activate
      BY <3>3 DEF Activate, Queue!AdvancePolicy, queueVars
    <3>4. CASE RolloutComplete
      BY <3>4 DEF RolloutComplete, managerVars, queueVars
    <3> QED BY <1>3, <3>1, <3>2, <3>3, <3>4
  <2>2. SeenUpTo(Last)
    <3>1. CASE pc \in {"reserve", "window", "activate"}
      BY <3>1 DEF Counted, Between
    <3>2. CASE RolloutComplete
      <4>1. /\ pc = "rollout" /\ accepted = BatchSize /\ accepted + Todo <= BatchSize
            /\ SeenUpTo(Last - Todo) /\ wave \in Seq(Requests) /\ backlog \in Seq(Requests)
            /\ step \in 1..MaxSteps
        BY <3>2, Sizes DEF RolloutComplete, IInv, Driving, Types, Serving, Counted, Serves
      <4>2. Todo = 0
        <5>1. Len(wave) \in Nat /\ Len(backlog) \in Nat
          BY <4>1
        <5> QED BY <4>1, <5>1, Sizes DEF Todo
      <4>3. Last - Todo = Last
        BY <4>1, <4>2, LastInStep DEF Last
      <4> QED BY <4>1, <4>3
    <3> QED BY <1>3, <3>1, <3>2 DEF ReserveBatch, Window, Activate
  <2>3. SeenUpTo(Last)'
    <3>1. Last' = Last
      BY <2>1 DEF Last
    <3> QED BY <1>3, <2>1, <2>2, <3>1 DEF SeenUpTo
  <2> QED BY <2>1, <2>3 DEF Counted, Serves, Between, ShortForAReason
<1> QED BY <1>2, <1>3, BeginCounted, DispatchCounted, HandInCounted DEF Next, Driver

(***************************************************************************)
(* The run comes up short of samples only for a reason.  The replicas'     *)
(* slots, the backlog and the number of samples the queue has room for are *)
(* never it, because a dispatch frees and fills exactly the slots of the   *)
(* requests it waits for, and every prompt of a step is dispatched.        *)
(***************************************************************************)
THEOREM ShortOnlyForAReason == Spec => []ShortForAReason
<1>1. Counted => ShortForAReason
  BY DEF Counted
<1>2. QED
  BY <1>1, InitSlots, InitCounted, NextSlots, NextCounted, LoopInvariance, PTL DEF Spec

-----------------------------------------------------------------------------
(***************************************************************************)
(* The types of the loop, with what they say of slots and waves, and when  *)
(* the manager is paused.                                                  *)
(***************************************************************************)
Standing ==
  /\ idOf \in IdSchemes
  /\ paused \in BOOLEAN /\ (paused => pc \in {"activate", "failed"})
  /\ pc \notin {"wave", "failed"} => wave = <<>>

LEMMA NextStanding == IInv /\ Standing /\ [Next]_vars => Standing'
<1> SUFFICES ASSUME IInv, Standing, [Next]_vars PROVE Standing'
  OBVIOUS
<1>1. CASE UNCHANGED <<idOf, paused, wave>> /\ (pc' = pc \/ pc' = "failed")
  BY <1>1 DEF Standing
<1>2. CASE (\E k \in Requests : Replica(k)) \/ Tick \/ UNCHANGED vars
  BY <1>1, <1>2 DEF Replica, Generate, GenerateFails, Tick, vars, driverVars, managerVars
<1>3. CASE (BeginStep \/ RolloutComplete \/ ReserveBatch) /\ UNCHANGED idOf
  <2>1. /\ UNCHANGED <<idOf, paused, wave>> /\ pc \in {"start", "rollout", "reserve"}
        /\ pc' \in {"rollout", "reserve", "empty", "window"}
    BY <1>3 DEF BeginStep, RolloutComplete, ReserveBatch, managerVars
  <2> QED BY <2>1 DEF Standing
<1>4. CASE Dispatch /\ UNCHANGED idOf
  <2>1. /\ UNCHANGED <<idOf, paused>> /\ pc = "rollout"
        /\ pc' = "wave" \/ (pc' = "short" /\ wave' = wave)
    BY <1>4 DEF Dispatch
  <2> QED BY <2>1 DEF Standing
<1>5. CASE HandIn /\ UNCHANGED idOf
  <2>1. /\ UNCHANGED <<idOf, paused>> /\ pc = "wave" /\ wave' = Tail(wave)
        /\ pc' = IF Len(wave) = 1 THEN "rollout" ELSE "wave"
    BY <1>5 DEF HandIn
  <2>2. wave \in Seq(Requests) /\ wave # <<>>
    BY <2>1 DEF IInv, Driving, Types, Serving
  <2>3. Len(wave) = 1 => Tail(wave) = <<>>
    <3> SUFFICES ASSUME Len(wave) = 1 PROVE Tail(wave) = <<>>
      OBVIOUS
    <3>1. Tail(wave) \in Seq(Requests) /\ Len(Tail(wave)) = 0
      BY <2>2, HeadTailProperties
    <3> QED BY <3>1, EmptySeq
  <2> QED BY <2>1, <2>3 DEF Standing
<1>6. CASE (Window \/ Activate) /\ UNCHANGED idOf
  <2>1. /\ UNCHANGED <<idOf, wave>> /\ pc \in {"window", "activate"}
        /\ paused' \in {paused, TRUE, FALSE} \cup BOOLEAN
        /\ pc' \in {"activate", "failed"} \/ (pc' \in {"done", "start"} /\ paused' = FALSE)
    BY <1>6 DEF Window, Activate
  <2> QED BY <2>1 DEF Standing
<1> QED BY <1>2, <1>3, <1>4, <1>5, <1>6 DEF Next, Driver

(***************************************************************************)
(* TypeOK: until an error ends the run, exactly the requests the driver    *)
(* waits for occupy slots, so that no slot is lost; and the driver never   *)
(* comes to a dispatch with the manager still paused, which would refuse   *)
(* it (coordinators.py dispatch_from_backlog, complete_request;            *)
(* ray/training.py _activate_weight_for_rollout).                          *)
(***************************************************************************)
DispatchesResumed == pc \in {"start", "rollout", "wave"} => ~paused

THEOREM LoopTypeCorrect == Spec => [](TypeOK /\ DispatchesResumed)
<1>1. IInv /\ Slots /\ Standing => TypeOK /\ DispatchesResumed
  <2> SUFFICES ASSUME IInv, Slots, Standing PROVE TypeOK /\ DispatchesResumed
    OBVIOUS
  <2>1. Q!TypeOK
    BY DEF IInv, Q!IInv
  <2>2. Queue!SampleRef = Q!SampleRef /\ Queue!Batches = Q!Batches
    BY DEF Queue!SampleRef, Q!SampleRef, Queue!Batches, Q!Batches
  <2>3. Queue!TypeOK
    BY <2>1, <2>2 DEF Queue!TypeOK, Q!TypeOK
  <2> QED BY <2>3 DEF TypeOK, DispatchesResumed, IInv, Driving, Types, Slots, SlotMaps, Standing
<1>2. Init => Standing
  BY DEF Init, Standing
<1> QED BY <1>1, <1>2, InitSlots, NextSlots, NextStanding, LoopInvariance, PTL DEF Spec
=============================================================================
