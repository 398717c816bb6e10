------------------------- MODULE ControlPlaneProofs -------------------------
(***************************************************************************)
(* Theorems about the control plane: what the driver may rely on when it   *)
(* has a valid configuration (Startup), and what the weight registry       *)
(* promises its callers (WeightRegistry), each for any values of the       *)
(* constants.                                                              *)
(***************************************************************************)
EXTENDS Startup, WeightRegistry, FiniteSetTheorems, SequenceTheorems, TLAPS

(***************************************************************************)
(* Division by the tensor parallel size, as far as the plan needs it.      *)
(***************************************************************************)
LEMMA QuotientOf ==
  ASSUME NEW t \in Nat, t > 0, NEW q \in Nat, NEW r \in 0..t - 1
  PROVE  (q * t + r) \div t = q
OBVIOUS

LEMMA GroupOf ==
  ASSUME NEW t \in Nat, t > 0, NEW x \in Nat
  PROVE  \E q \in Nat : q * t <= x /\ x < q * t + t
<1>1. (x \div t) * t <= x
  OBVIOUS
<1>2. x < (x \div t) * t + t
  OBVIOUS
<1>3. x \div t \in Nat
  OBVIOUS
<1> QED BY <1>1, <1>2, <1>3

LEMMA Divides ==
  ASSUME NEW t \in Nat, t > 0, NEW x \in Nat, x % t = 0
  PROVE  \E k \in Nat : x = k * t
OBVIOUS

LEMMA ProductsInOrder ==
  ASSUME NEW t \in Nat, NEW d \in Nat, NEW n \in Nat, d <= n
  PROVE  d * t \in Nat /\ d * t <= n * t
OBVIOUS

LEMMA PreviousProduct ==
  ASSUME NEW t \in Nat, NEW d \in Nat, d > 0
  PROVE  d * t = (d - 1) * t + t /\ (d - 1) * t \in Nat
OBVIOUS

LEMMA MinOfTwo ==
  ASSUME NEW a \in Int, NEW b \in Int, a <= b
  PROVE  Min({a, b}) = a
<1>1. /\ a \in {a, b}
      /\ \A y \in {a, b} : a <= y
      /\ \A x \in {a, b} : (\A y \in {a, b} : x <= y) => x = a
  OBVIOUS
<1> QED BY <1>1 DEF Min

(* t elements of a sequence, from the one after the first a.               *)
LEMMA MiddleOf ==
  ASSUME NEW s \in Seq(Int), NEW a \in Nat, NEW t \in Nat, a + t <= Len(s)
  PROVE  /\ SubSeq(s, a + 1, a + t) \in Seq(Int)
         /\ Len(SubSeq(s, a + 1, a + t)) = t
         /\ \A i \in 1..t : SubSeq(s, a + 1, a + t)[i] = s[a + i]
<1> DEFINE m == a + 1
           n == a + t
<1>1. m \in Int /\ n \in Int /\ \A i \in m..n : s[i] \in Int
  BY DEF m, n
<1>2. n - m + 1 = t /\ (m <= n <=> t > 0) /\ (\A i \in 1..t : m + i - 1 = a + i)
  OBVIOUS
<1> HIDE DEF m, n
<1>3. /\ SubSeq(s, m, n) \in Seq(Int)
      /\ Len(SubSeq(s, m, n)) = IF m <= n THEN n - m + 1 ELSE 0
      /\ \A i \in 1..n - m + 1 : SubSeq(s, m, n)[i] = s[m + i - 1]
  BY <1>1, SubSeqProperties
<1>4. Len(SubSeq(s, m, n)) = t
  BY <1>2, <1>3
<1> QED BY <1>2, <1>3, <1>4 DEF m, n

-----------------------------------------------------------------------------
(* The GPU plan of a valid configuration                                   *)

PlanInv == /\ counts \in Counts /\ ValidCounts(counts)
           /\ options \in Options /\ ValidOptions(counts, options)

(* What the checks leave of the counts: dp groups of tp GPUs each, of      *)
(* which the rollout-only GPUs are the first k.                            *)
LEMMA ValidSizes ==
  ASSUME PlanInv
  PROVE  /\ counts.tp \in Nat /\ counts.tp > 0
         /\ counts.dp \in Nat /\ counts.dp > 0
         /\ counts.shared \in Nat /\ counts.rolloutOnly \in Nat
         /\ counts.rolloutOnly + counts.shared = counts.dp * counts.tp
         /\ \E k \in Nat : counts.rolloutOnly = k * counts.tp
<1>1. /\ counts.tp \in Nat /\ counts.tp > 0
      /\ counts.dp \in Nat /\ counts.dp > 0
      /\ counts.shared \in Nat /\ counts.rolloutOnly \in Nat
  <2>1. /\ counts.tp \in Positive /\ counts.dp \in Positive
        /\ counts.shared \in Sizes /\ counts.rolloutOnly \in Sizes
    BY DEF PlanInv, Counts
  <2>2. Sizes \subseteq Nat
    BY SizesAreCounts
  <2>3. \A s \in Positive : s \in Nat /\ s > 0
    BY <2>2 DEF Positive
  <2> QED BY <2>1, <2>2, <2>3
<1>2. counts.rolloutOnly + counts.shared = counts.dp * counts.tp
  BY DEF PlanInv, ValidCounts
<1>3. counts.rolloutOnly % counts.tp = 0
  BY DEF PlanInv, ValidCounts, GroupsFit
<1>4. \E k \in Nat : counts.rolloutOnly = k * counts.tp
  BY <1>1, <1>3, Divides
<1> QED BY <1>1, <1>2, <1>4

LEMMA AsManyReplicas ==
  ASSUME PlanInv
  PROVE  /\ Len(RolloutGpus) = counts.dp * counts.tp
         /\ ReplicaCount = counts.dp
<1> DEFINE t == counts.tp
           n == counts.rolloutOnly + counts.shared
<1>1. /\ t \in Nat /\ t > 0 /\ counts.dp \in Nat /\ n \in Nat /\ n = counts.dp * t
  BY ValidSizes
<1>2. RolloutGpus \in Seq(Int) /\ Len(RolloutGpus) = n
  <2>1. RolloutGpus = [i \in 1..n |-> i - 1]
    BY DEF RolloutGpus
  <2> HIDE DEF n
  <2> QED BY <1>1, <2>1
<1>3. (counts.dp * t + (t - 1)) \div t = counts.dp
  <2>1. t - 1 \in 0..t - 1
    BY <1>1
  <2> QED BY <1>1, <2>1, QuotientOf
<1>4. Len(RolloutGpus) + t - 1 = counts.dp * t + (t - 1)
  BY <1>1, <1>2
<1> QED BY <1>1, <1>2, <1>3, <1>4 DEF ReplicaCount

(* Replica d has the GPUs (d - 1) * tp .. d * tp - 1, in order.            *)
FirstGpu(d) == (d - 1) * counts.tp

LEMMA GroupIsFull ==
  ASSUME PlanInv, NEW d \in 1..ReplicaCount
  PROVE  /\ FirstGpu(d) \in Nat
         /\ FirstGpu(d) + counts.tp <= Len(RolloutGpus)
         /\ ReplicaGpus(d) = [i \in 1..counts.tp |-> FirstGpu(d) + i - 1]
         /\ Len(ReplicaGpus(d)) = counts.tp
<1> DEFINE t == counts.tp
<1>1. /\ t \in Nat /\ t > 0 /\ counts.dp \in Nat
      /\ Len(RolloutGpus) = counts.dp * t /\ ReplicaCount = counts.dp
  BY ValidSizes, AsManyReplicas
<1>2. d \in Nat /\ d > 0 /\ d <= counts.dp
  BY <1>1
<1>3. d * t = FirstGpu(d) + t /\ FirstGpu(d) \in Nat
  BY <1>1, <1>2, PreviousProduct DEF FirstGpu
<1>4. d * t <= Len(RolloutGpus)
  BY <1>1, <1>2, ProductsInOrder
<1>5. Len(RolloutGpus) \in Nat /\ d * t \in Nat
  BY <1>1, <1>2, ProductsInOrder
<1>6. Min({d * t, Len(RolloutGpus)}) = FirstGpu(d) + t
  BY <1>3, <1>4, <1>5, MinOfTwo
<1>7. ReplicaGpus(d) = SubSeq(RolloutGpus, FirstGpu(d) + 1, FirstGpu(d) + t)
  BY <1>6 DEF ReplicaGpus, FirstGpu
<1> HIDE DEF FirstGpu
<1>8. /\ RolloutGpus \in Seq(Int)
      /\ \A i \in 1..Len(RolloutGpus) : RolloutGpus[i] = i - 1
  <2>1. counts.rolloutOnly + counts.shared \in Nat
    BY ValidSizes
  <2> QED BY <2>1 DEF RolloutGpus
<1>9. FirstGpu(d) + t <= Len(RolloutGpus)
  BY <1>3, <1>4
<1>10. /\ Len(ReplicaGpus(d)) = t
       /\ ReplicaGpus(d) \in Seq(Int)
       /\ \A i \in 1..t : ReplicaGpus(d)[i] = RolloutGpus[FirstGpu(d) + i]
  <2> HIDE DEF t
  <2>1. /\ SubSeq(RolloutGpus, FirstGpu(d) + 1, FirstGpu(d) + t) \in Seq(Int)
        /\ Len(SubSeq(RolloutGpus, FirstGpu(d) + 1, FirstGpu(d) + t)) = t
        /\ \A i \in 1..t : SubSeq(RolloutGpus, FirstGpu(d) + 1, FirstGpu(d) + t)[i]
                              = RolloutGpus[FirstGpu(d) + i]
    BY <1>1, <1>3, <1>8, <1>9, MiddleOf
  <2> QED BY <1>7, <2>1
<1>11. \A i \in 1..t : ReplicaGpus(d)[i] = FirstGpu(d) + i - 1
  <2> DEFINE a == FirstGpu(d)
             m == Len(RolloutGpus)
  <2>1. a \in Nat /\ m \in Nat /\ a + t <= m /\ t \in Nat /\ t > 0
    BY <1>1, <1>3, <1>5, <1>9
  <2> HIDE DEF a, m, t
  <2>2. \A i \in 1..t : a + i \in 1..m /\ (a + i) - 1 = a + i - 1
    BY <2>1
  <2> QED BY <1>8, <1>10, <2>2 DEF a, m
<1>12. DOMAIN ReplicaGpus(d) = 1..t
  BY <1>10
<1>13. ReplicaGpus(d) = [i \in 1..t |-> FirstGpu(d) + i - 1]
  BY <1>10, <1>11, <1>12
<1> QED BY <1>3, <1>9, <1>10, <1>13

LEMMA GroupElements ==
  ASSUME PlanInv, NEW d \in 1..ReplicaCount
  PROVE  ToSet(ReplicaGpus(d)) = FirstGpu(d)..FirstGpu(d) + counts.tp - 1
<1>1. /\ FirstGpu(d) \in Nat /\ counts.tp \in Nat
      /\ ReplicaGpus(d) = [i \in 1..counts.tp |-> FirstGpu(d) + i - 1]
  BY GroupIsFull, ValidSizes
<1>2. ToSet(ReplicaGpus(d)) = {FirstGpu(d) + i - 1 : i \in 1..counts.tp}
  BY <1>1 DEF ToSet
<1>3. ASSUME NEW g \in FirstGpu(d)..FirstGpu(d) + counts.tp - 1
      PROVE  \E i \in 1..counts.tp : g = FirstGpu(d) + i - 1
  <2>1. g - FirstGpu(d) + 1 \in 1..counts.tp /\ g = FirstGpu(d) + (g - FirstGpu(d) + 1) - 1
    BY <1>1
  <2> QED BY <2>1
<1>4. \A i \in 1..counts.tp : FirstGpu(d) + i - 1 \in FirstGpu(d)..FirstGpu(d) + counts.tp - 1
  BY <1>1
<1> HIDE DEF FirstGpu
<1> QED BY <1>2, <1>3, <1>4

LEMMA GroupInRollout ==
  ASSUME PlanInv, NEW d \in 1..ReplicaCount
  PROVE  ToSet(Replicas[d].gpus) \subseteq ToSet(RolloutGpus)
<1> DEFINE n == counts.rolloutOnly + counts.shared
           a == FirstGpu(d)
           t == counts.tp
<1>1. /\ n \in Nat /\ a \in Nat /\ t \in Nat /\ a + t <= n
      /\ RolloutGpus = [i \in 1..n |-> i - 1]
  <2>1. counts.rolloutOnly \in Nat /\ counts.shared \in Nat /\ t \in Nat
    BY ValidSizes
  <2>2. RolloutGpus = [i \in 1..n |-> i - 1]
    BY DEF RolloutGpus
  <2>3. Len(RolloutGpus) = n
    BY <2>1, <2>2
  <2> QED BY <2>1, <2>2, <2>3, GroupIsFull
<1>2. ToSet(Replicas[d].gpus) = a..a + t - 1
  BY GroupElements DEF Replicas
<1> HIDE DEF n, a, t
<1>3. ASSUME NEW g \in a..a + t - 1 PROVE g \in ToSet(RolloutGpus)
  <2>1. g + 1 \in 1..n /\ (g + 1) - 1 = g
    BY <1>1
  <2> QED BY <1>1, <2>1 DEF ToSet
<1> QED BY <1>2, <1>3

(* Each rollout GPU is in the group of its number, and in no other.         *)
LEMMA OneGroup ==
  ASSUME PlanInv, NEW g \in ToSet(RolloutGpus)
  PROVE  \E q \in 1..ReplicaCount :
           {d \in 1..ReplicaCount : g \in ToSet(Replicas[d].gpus)} = {q}
<1> DEFINE t == counts.tp
           n == Len(RolloutGpus)
<1>1. /\ t \in Nat /\ t > 0 /\ counts.dp \in Nat
      /\ n = counts.dp * t /\ n \in Nat /\ ReplicaCount = counts.dp
  BY ValidSizes, AsManyReplicas
<1>2. g \in Nat /\ g < n
  <2>1. counts.rolloutOnly + counts.shared \in Nat
    BY ValidSizes
  <2>2. ToSet(RolloutGpus) = {i - 1 : i \in 1..counts.rolloutOnly + counts.shared}
        /\ n = counts.rolloutOnly + counts.shared
    BY <2>1 DEF ToSet, RolloutGpus
  <2> QED BY <2>1, <2>2
<1>3. PICK q \in Nat : q * t <= g /\ g < q * t + t
  BY <1>1, <1>2, GroupOf
<1>4. q < counts.dp
  <2>1. CASE counts.dp <= q
    <3>1. counts.dp * t <= q * t /\ counts.dp * t \in Nat /\ q * t \in Nat
      BY <1>1, <2>1, ProductsInOrder
    <3> QED BY <1>1, <1>2, <1>3, <3>1
  <2> QED BY <1>1, <2>1
<1>5. \A d \in 1..ReplicaCount :
        /\ Replicas[d].gpus = ReplicaGpus(d)
        /\ ToSet(ReplicaGpus(d)) = FirstGpu(d)..FirstGpu(d) + t - 1
        /\ FirstGpu(d) \in Nat
  BY GroupElements, GroupIsFull DEF Replicas
<1>6. q + 1 \in 1..ReplicaCount /\ FirstGpu(q + 1) = q * t /\ q * t \in Nat
  <2>1. q + 1 \in 1..ReplicaCount /\ (q + 1) - 1 = q
    BY <1>1, <1>4
  <2> QED BY <1>5, <2>1 DEF FirstGpu
<1>7. g \in ToSet(Replicas[q + 1].gpus)
  BY <1>1, <1>2, <1>3, <1>5, <1>6
<1>8. ASSUME NEW d \in 1..ReplicaCount, g \in ToSet(Replicas[d].gpus)
      PROVE  d = q + 1
  <2>1. g \in FirstGpu(d)..FirstGpu(d) + t - 1 /\ FirstGpu(d) \in Nat
    BY <1>5, <1>8
  <2>2. d \in Nat /\ d > 0
    BY <1>1
  <2>3. FirstGpu(d) = (d - 1) * t
    BY DEF FirstGpu
  <2>4. CASE d - 1 < q
    <3>1. d * t <= q * t /\ d * t = (d - 1) * t + t /\ d * t \in Nat
      BY <1>1, <2>2, <2>4, ProductsInOrder, PreviousProduct
    <3>2. g < FirstGpu(d) + t
      BY <1>1, <1>2, <2>1
    <3> QED BY <1>2, <1>3, <1>6, <2>3, <3>1, <3>2
  <2>5. CASE q < d - 1
    <3>1. /\ (q + 1) * t <= (d - 1) * t
          /\ (q + 1) * t = ((q + 1) - 1) * t + t /\ (q + 1) * t \in Nat
      <4>1. q + 1 \in Nat /\ d - 1 \in Nat /\ q + 1 <= d - 1 /\ q + 1 > 0
        BY <2>2, <2>5
      <4> QED BY <1>1, <4>1, ProductsInOrder, PreviousProduct
    <3>2. (q + 1) * t = q * t + t
      <4>1. (q + 1) - 1 = q
        OBVIOUS
      <4> QED BY <3>1, <4>1
    <3>3. (d - 1) * t <= g
      BY <1>1, <1>2, <2>1, <2>3
    <3> QED BY <1>1, <1>2, <1>3, <1>6, <2>1, <2>3, <3>1, <3>2, <3>3
  <2> QED BY <2>2, <2>4, <2>5
<1> QED BY <1>6, <1>7, <1>8

(* The GPUs of a group are all shared or none of them is: the rollout-only *)
(* GPUs fill their groups.                                                 *)
LEMMA AllOrNone ==
  ASSUME PlanInv, NEW d \in 1..ReplicaCount
  PROVE  \/ ToSet(ReplicaGpus(d)) \subseteq Shared
         \/ /\ ToSet(ReplicaGpus(d)) \intersect Shared = {}
            /\ counts.rolloutOnly > 0
<1> DEFINE t == counts.tp
<1>1. /\ t \in Nat /\ t > 0 /\ counts.dp \in Nat
      /\ counts.shared \in Nat /\ counts.rolloutOnly \in Nat
      /\ Len(RolloutGpus) = counts.rolloutOnly + counts.shared
      /\ ReplicaCount = counts.dp
  BY ValidSizes, AsManyReplicas
<1>2. PICK k \in Nat : counts.rolloutOnly = k * t
  BY ValidSizes
<1>3. d \in Nat /\ d > 0 /\ d - 1 \in Nat
  BY <1>1
<1>4. /\ ToSet(ReplicaGpus(d)) = FirstGpu(d)..FirstGpu(d) + t - 1
      /\ FirstGpu(d) \in Nat /\ FirstGpu(d) + t <= Len(RolloutGpus)
  BY GroupElements, GroupIsFull
<1>5. FirstGpu(d) = (d - 1) * t
  BY DEF FirstGpu
<1>6. CASE d <= k
  <2>1. d * t <= k * t /\ d * t = (d - 1) * t + t
    BY <1>1, <1>3, <1>6, ProductsInOrder, PreviousProduct
  <2>2. FirstGpu(d) + t <= counts.rolloutOnly
    BY <1>2, <1>5, <2>1
  <2>3. ToSet(ReplicaGpus(d)) \intersect Shared = {}
    BY <1>1, <1>4, <2>2 DEF Shared
  <2> QED BY <1>1, <1>4, <2>2, <2>3
<1>7. CASE k < d
  <2>1. k * t <= (d - 1) * t
    BY <1>1, <1>3, <1>7, ProductsInOrder
  <2>2. counts.rolloutOnly <= FirstGpu(d)
    BY <1>2, <1>5, <2>1
  <2>3. ToSet(ReplicaGpus(d)) \subseteq Shared
    <3> DEFINE a == FirstGpu(d)
               ro == counts.rolloutOnly
               sh == counts.shared
    <3>1. /\ a \in Nat /\ ro \in Nat /\ sh \in Nat /\ t \in Nat
          /\ ro <= a /\ a + t <= ro + sh
      BY <1>1, <1>4, <2>2
    <3> HIDE DEF a, ro, sh, t
    <3>2. a..a + t - 1 \subseteq ro..ro + sh - 1
      BY <3>1
    <3> QED BY <1>4, <3>2 DEF Shared, a, ro, sh, t
  <2> QED BY <2>3
<1> QED BY <1>3, <1>6, <1>7

(* The planner finds all GPUs of a replica among the trainer's exactly     *)
(* when the plan says that the replica is shared.                          *)
LEMMA PlannerSeesTopology ==
  ASSUME PlanInv, NEW d \in 1..ReplicaCount
  PROVE  Cardinality(LocalRanks(Replicas[d].gpus)) = Len(Replicas[d].gpus)
           <=> Replicas[d].topology = "shared"
<1> DEFINE gpus == ReplicaGpus(d)
           all  == 1..counts.tp
<1>1. /\ Replicas[d].gpus = gpus
      /\ Replicas[d].topology = "shared" <=> ToSet(gpus) \subseteq Shared
  BY DEF Replicas
<1>2. counts.tp \in Nat /\ DOMAIN gpus = all /\ Len(gpus) = counts.tp
  BY GroupIsFull, ValidSizes
<1>3. IsFiniteSet(all) /\ Cardinality(all) = counts.tp
  BY <1>2, FS_Interval
<1>4. LocalRanks(gpus) = {i \in all : gpus[i] \in Shared}
  BY <1>2 DEF LocalRanks
<1>5. LocalRanks(gpus) = all <=> ToSet(gpus) \subseteq Shared
  BY <1>2, <1>4 DEF ToSet
<1>6. Cardinality(LocalRanks(gpus)) = Cardinality(all) <=> LocalRanks(gpus) = all
  <2>1. LocalRanks(gpus) \in SUBSET all
    BY <1>4
  <2> QED BY <1>3, <2>1, FS_Subset
<1> QED BY <1>1, <1>2, <1>3, <1>5, <1>6

LEMMA PlanFits == PlanInv => ReplicasFitTheGpus
<1> SUFFICES ASSUME PlanInv PROVE ReplicasFitTheGpus
  OBVIOUS
<1>1. ASSUME NEW g \in ToSet(RolloutGpus)
      PROVE  Cardinality({d \in 1..ReplicaCount : g \in ToSet(Replicas[d].gpus)}) = 1
  BY OneGroup, FS_Singleton
<1>2. ASSUME NEW d \in 1..ReplicaCount
      PROVE  /\ Len(Replicas[d].gpus) = counts.tp
             /\ Replicas[d].topology = "rollout_only" => ToSet(Replicas[d].gpus) \intersect Shared = {}
             /\ SourceKind(d) # "refused"
  <2>1. /\ Replicas[d].gpus = ReplicaGpus(d)
        /\ Replicas[d].topology = IF ToSet(ReplicaGpus(d)) \subseteq Shared
                                  THEN "shared" ELSE "rollout_only"
    BY DEF Replicas
  <2>2. Len(Replicas[d].gpus) = counts.tp
    BY <2>1, GroupIsFull
  <2>3. Replicas[d].topology = "rollout_only" => ToSet(Replicas[d].gpus) \intersect Shared = {}
    BY <2>1, AllOrNone
  <2>4. Replicas[d].topology # "shared" => counts.rolloutOnly > 0
    BY <2>1, AllOrNone
  <2>5. options.method \in {"locality_aware_checkpoint", "objectref"}
        /\ (options.method = "locality_aware_checkpoint" /\ counts.rolloutOnly > 0 => options.pull)
    BY DEF PlanInv, Options, ValidOptions
  <2>6. SourceKind(d) # "refused"
    BY <2>4, <2>5, PlannerSeesTopology DEF SourceKind
  <2> QED BY <2>2, <2>3, <2>6
<1>3. ReplicaCount = counts.dp
  BY AsManyReplicas
<1> QED BY <1>1, <1>2, <1>3 DEF ReplicasFitTheGpus

LEMMA PlanAgrees == PlanInv => TransportsAgree
<1> SUFFICES ASSUME PlanInv, NEW d \in 1..ReplicaCount, options.sync # "none"
             PROVE  EngineTransport(d) # SendTransport(d)
                      <=> /\ options.sync = "auto" /\ options.method = "objectref"
                          /\ Replicas[d].topology = "shared"
  BY DEF TransportsAgree
<1>1. options.sync \in {"auto", "ipc", "nccl"}
  BY DEF PlanInv, Options
<1>2. SourceKind(d) = "shared_gpu_reshard"
        <=> options.method # "objectref" /\ Replicas[d].topology = "shared"
  BY PlannerSeesTopology DEF SourceKind
<1> QED BY <1>1, <1>2 DEF EngineTransport, SendTransport

-----------------------------------------------------------------------------
(* The custom resources of the actors                                      *)

Resource == {"rollout_gpu", "train_gpu"} \X Int
AnyActor == [kind : {"core", "reward", "replica", "worker", "rank"},
             cpus : {0, 1, CpusPerRank}, memory : Nat, resources : SUBSET Resource]

Claimed(actors) == UNION {actors[i].resources : i \in DOMAIN actors}
Apart(actors) == \A i, j \in DOMAIN actors :
                   i # j => actors[i].resources \intersect actors[j].resources = {}

(* Two lists of actors that claim nothing in common, one after the other.  *)
LEMMA ApartTogether ==
  ASSUME NEW s \in Seq(AnyActor), NEW t \in Seq(AnyActor), Apart(s), Apart(t),
         Claimed(s) \intersect Claimed(t) = {}
  PROVE  /\ s \o t \in Seq(AnyActor)
         /\ Apart(s \o t)
         /\ Claimed(s \o t) = Claimed(s) \union Claimed(t)
<1> DEFINE m == Len(s)
           n == Len(t)
           st == s \o t
<1>1. /\ m \in Nat /\ n \in Nat /\ DOMAIN s = 1..m /\ DOMAIN t = 1..n
      /\ st \in Seq(AnyActor) /\ Len(st) = m + n /\ DOMAIN st = 1..m + n
      /\ \A i \in 1..m + n : st[i] = IF i <= m THEN s[i] ELSE t[i - m]
  BY ConcatProperties
<1> HIDE DEF m, n, st
<1>2. \A i \in 1..m : i \in 1..m + n /\ st[i] = s[i]
  BY <1>1
<1>3. \A i \in 1..n : m + i \in 1..m + n /\ st[m + i] = t[i]
  BY <1>1
<1>4. \A i \in 1..m + n : \/ i \in 1..m
                          \/ i - m \in 1..n /\ i = m + (i - m)
  BY <1>1
<1>5. Claimed(st) = Claimed(s) \union Claimed(t)
  <2>1. ASSUME NEW r \in Claimed(st) PROVE r \in Claimed(s) \union Claimed(t)
    <3>1. PICK i \in 1..m + n : r \in st[i].resources
      BY <1>1 DEF Claimed
    <3> QED BY <1>1, <1>2, <1>3, <1>4, <3>1 DEF Claimed
  <2>2. Claimed(s) \subseteq Claimed(st)
    BY <1>1, <1>2 DEF Claimed
  <2>3. Claimed(t) \subseteq Claimed(st)
    BY <1>1, <1>3 DEF Claimed
  <2> QED BY <2>1, <2>2, <2>3
<1>6. \A i \in 1..m, j \in 1..n : s[i].resources \intersect t[j].resources = {}
  <2> SUFFICES ASSUME NEW i \in 1..m, NEW j \in 1..n,
                      NEW r \in s[i].resources, r \in t[j].resources
               PROVE  FALSE
    OBVIOUS
  <2>1. r \in Claimed(s) /\ r \in Claimed(t)
    BY <1>1 DEF Claimed
  <2> QED BY <2>1
<1>7. Apart(st)
  <2> SUFFICES ASSUME NEW i \in 1..m + n, NEW j \in 1..m + n, i # j
               PROVE  st[i].resources \intersect st[j].resources = {}
    BY <1>1 DEF Apart
  <2>1. CASE i \in 1..m /\ j \in 1..m
    BY <1>1, <1>2, <2>1 DEF Apart
  <2>2. CASE i \in 1..m /\ j - m \in 1..n /\ j = m + (j - m)
    BY <1>2, <1>3, <1>6, <2>2
  <2>3. CASE j \in 1..m /\ i - m \in 1..n /\ i = m + (i - m)
    BY <1>2, <1>3, <1>6, <2>3
  <2>4. CASE /\ i - m \in 1..n /\ i = m + (i - m)
             /\ j - m \in 1..n /\ j = m + (j - m)
    <3>1. i - m # j - m
      BY <2>4
    <3>2. st[i] = t[i - m] /\ st[j] = t[j - m]
      BY <1>3, <2>4
    <3> QED BY <1>1, <2>4, <3>1, <3>2 DEF Apart
  <2> QED BY <1>4, <2>1, <2>2, <2>3, <2>4
<1> QED BY <1>1, <1>5, <1>7 DEF st

(* Actors that claim nothing: the cores, the rewards and the workers, whose *)
(* replica has claimed the GPUs.                                           *)
LEMMA Unclaimed ==
  ASSUME NEW n \in Nat, NEW actor \in AnyActor, actor.resources = {}
  PROVE  /\ [i \in 1..n |-> actor] \in Seq(AnyActor)
         /\ Apart([i \in 1..n |-> actor])
         /\ Claimed([i \in 1..n |-> actor]) = {}
<1>1. [i \in 1..n |-> actor] \in Seq(AnyActor)
  OBVIOUS
<1> QED BY <1>1 DEF Apart, Claimed

LEMMA ActorIsAny ==
  ASSUME PlanInv, NEW kind \in {"core", "reward", "replica", "worker", "rank"},
         NEW cpus \in {0, 1, CpusPerRank}, NEW resources \in SUBSET Resource
  PROVE  /\ Actor(kind, cpus, resources) \in AnyActor
         /\ Actor(kind, cpus, resources).resources = resources
<1>1. options.memory \in Nat
  BY SizesAreCounts DEF PlanInv, Options
<1>2. Actor(kind, cpus, resources) \in AnyActor
  BY <1>1 DEF AnyActor, Actor
<1>3. Actor(kind, cpus, resources).resources = resources
  BY DEF Actor
<1> QED BY <1>2, <1>3

(* A replica claims the GPUs of its group, which no other replica has.     *)
LEMMA ControlsApart ==
  ASSUME PlanInv
  PROVE  /\ Controls \in Seq(AnyActor)
         /\ Apart(Controls)
         /\ Claimed(Controls) \subseteq {"rollout_gpu"} \X Int
         /\ Claimed(Controls) \subseteq NodeResources
<1> DEFINE n == ReplicaCount
           of(d) == RolloutResources(ToSet(Replicas[d].gpus))
<1>1. n \in Nat
  BY AsManyReplicas, ValidSizes
<1>2. ASSUME NEW d \in 1..n
      PROVE  /\ of(d) \subseteq {"rollout_gpu"} \X Int
             /\ of(d) \in SUBSET Resource
  <2>1. ToSet(Replicas[d].gpus) = FirstGpu(d)..FirstGpu(d) + counts.tp - 1
    BY GroupElements DEF Replicas
  <2>2. ToSet(Replicas[d].gpus) \subseteq Int
    BY <2>1
  <2>3. of(d) \subseteq {"rollout_gpu"} \X Int
    BY <2>2 DEF RolloutResources
  <2> QED BY <2>3 DEF Resource
<1>3. ASSUME NEW d \in 1..n
      PROVE  /\ Actor("replica", 1, of(d)) \in AnyActor
             /\ Actor("replica", 1, of(d)).resources = of(d)
  BY <1>2, ActorIsAny
<1>4. Controls = [d \in 1..n |-> Actor("replica", 1, of(d))]
  BY DEF Controls
<1> HIDE DEF n, of
<1>5. Controls \in Seq(AnyActor) /\ DOMAIN Controls = 1..n
  BY <1>1, <1>3, <1>4
<1>6. \A d \in 1..n : Controls[d].resources = of(d)
  BY <1>3, <1>4
<1>7. ASSUME NEW d \in 1..n, NEW e \in 1..n, d # e
      PROVE  of(d) \intersect of(e) = {}
  <2> SUFFICES ASSUME NEW g \in ToSet(Replicas[d].gpus), g \in ToSet(Replicas[e].gpus)
               PROVE  FALSE
    BY DEF of, RolloutResources
  <2>1. g \in ToSet(RolloutGpus)
    BY GroupInRollout DEF n
  <2>2. PICK q \in 1..ReplicaCount :
          {c \in 1..ReplicaCount : g \in ToSet(Replicas[c].gpus)} = {q}
    BY <2>1, OneGroup
  <2> QED BY <1>7, <2>2 DEF n
<1>8. Apart(Controls)
  BY <1>5, <1>6, <1>7 DEF Apart
<1>9. Claimed(Controls) = UNION {of(d) : d \in 1..n}
  BY <1>5, <1>6 DEF Claimed
<1>10. UNION {of(d) : d \in 1..n} \subseteq NodeResources
  BY DEF NodeResources, n, of
<1> QED BY <1>2, <1>5, <1>8, <1>9, <1>10

(* A rank claims the train resource of its GPU.                            *)
LEMMA RanksApart ==
  ASSUME PlanInv
  PROVE  /\ Ranks \in Seq(AnyActor)
         /\ Apart(Ranks)
         /\ Claimed(Ranks) \subseteq {"train_gpu"} \X Int
         /\ Claimed(Ranks) \subseteq NodeResources
<1> DEFINE ro == counts.rolloutOnly
           n == counts.shared
           of(i) == {TrainResource(ro + i - 1)}
<1>1. n \in Nat /\ ro \in Nat
  BY ValidSizes
<1>2. ASSUME NEW i \in 1..n
      PROVE  /\ of(i) \subseteq {"train_gpu"} \X Int /\ of(i) \in SUBSET Resource
             /\ of(i) \subseteq NodeResources
  <2>1. ro + i - 1 \in Shared
    BY <1>1 DEF Shared
  <2>2. ro + i - 1 \in Int
    BY <1>1
  <2>3. TrainResource(ro + i - 1) \in {"train_gpu"} \X Int
    BY <2>2 DEF TrainResource
  <2>4. TrainResource(ro + i - 1) \in NodeResources
    BY <2>1 DEF NodeResources
  <2>5. {"train_gpu"} \X Int \subseteq Resource
    BY DEF Resource
  <2> HIDE DEF TrainResource
  <2> QED BY <2>3, <2>4, <2>5
<1>3. ASSUME NEW i \in 1..n
      PROVE  /\ Actor("rank", CpusPerRank, of(i)) \in AnyActor
             /\ Actor("rank", CpusPerRank, of(i)).resources = of(i)
  BY <1>2, ActorIsAny
<1>4. Ranks = [i \in 1..n |-> Actor("rank", CpusPerRank, of(i))]
  BY DEF Ranks
<1>5. ASSUME NEW i \in 1..n, NEW j \in 1..n, i # j
      PROVE  of(i) \intersect of(j) = {}
  <2>1. ro + i - 1 # ro + j - 1
    BY <1>1, <1>5
  <2> QED BY <2>1 DEF TrainResource
<1> HIDE DEF n, of
<1>6. Ranks \in Seq(AnyActor) /\ DOMAIN Ranks = 1..n
  BY <1>1, <1>3, <1>4
<1>7. \A i \in 1..n : Ranks[i].resources = of(i)
  BY <1>3, <1>4
<1>8. Apart(Ranks)
  BY <1>5, <1>6, <1>7 DEF Apart
<1>9. Claimed(Ranks) = UNION {of(i) : i \in 1..n}
  BY <1>6, <1>7 DEF Claimed
<1> QED BY <1>2, <1>6, <1>8, <1>9

(* The launch plan: no two actors claim a resource, each claims only what  *)
(* the node advertises.                                                    *)
LEMMA PlanIsSound ==
  ASSUME PlanInv
  PROVE  /\ UniqueResources
         /\ \A actor \in ToSet(Actors) : actor.resources \subseteq NodeResources
<1> DEFINE core == Actor("core", 1, {})
           reward == Actor("reward", 1, {})
           worker == Actor("worker", 0, {})
           a1 == Cores \o Rewards
           a2 == a1 \o Controls
           a3 == a2 \o RolloutWorkers
<1>1. /\ core \in AnyActor /\ core.resources = {}
      /\ reward \in AnyActor /\ reward.resources = {}
      /\ worker \in AnyActor /\ worker.resources = {}
  BY ActorIsAny
<1> HIDE DEF core, reward, worker
<1>2. Cores \in Seq(AnyActor) /\ Apart(Cores) /\ Claimed(Cores) = {}
  <2>1. Cores = [i \in 1..7 |-> core] /\ 7 \in Nat
    BY DEF Cores, core
  <2> QED BY <1>1, <2>1, Unclaimed
<1>3. Rewards \in Seq(AnyActor) /\ Apart(Rewards) /\ Claimed(Rewards) = {}
  BY <1>1, Unclaimed, SizesAreCounts DEF Rewards, reward
<1>4. RolloutWorkers \in Seq(AnyActor) /\ Apart(RolloutWorkers) /\ Claimed(RolloutWorkers) = {}
  <2>1. Len(RolloutGpus) \in Nat
    BY AsManyReplicas, ValidSizes, ProductsInOrder
  <2> QED BY <1>1, <2>1, Unclaimed DEF RolloutWorkers, worker
<1>5. a1 \in Seq(AnyActor) /\ Apart(a1) /\ Claimed(a1) = {}
  BY <1>2, <1>3, ApartTogether
<1> HIDE DEF a1
<1>6. a2 \in Seq(AnyActor) /\ Apart(a2) /\ Claimed(a2) = Claimed(Controls)
  <2>1. Claimed(a1) \intersect Claimed(Controls) = {}
        /\ Claimed(a1) \union Claimed(Controls) = Claimed(Controls)
    BY <1>5
  <2> QED BY <1>5, <2>1, ControlsApart, ApartTogether DEF a2
<1> HIDE DEF a2
<1>7. a3 \in Seq(AnyActor) /\ Apart(a3) /\ Claimed(a3) = Claimed(Controls)
  <2>1. Claimed(a2) \intersect Claimed(RolloutWorkers) = {}
        /\ Claimed(a2) \union Claimed(RolloutWorkers) = Claimed(Controls)
    BY <1>4, <1>6
  <2> QED BY <1>4, <1>6, <2>1, ApartTogether DEF a3
<1> HIDE DEF a3
<1>8. Claimed(Controls) \intersect Claimed(Ranks) = {}
  <2>1. ({"rollout_gpu"} \X Int) \intersect ({"train_gpu"} \X Int) = {}
    OBVIOUS
  <2> QED BY <2>1, ControlsApart, RanksApart
<1>9. a3 \o Ranks \in Seq(AnyActor) /\ Apart(a3 \o Ranks)
      /\ Claimed(a3 \o Ranks) = Claimed(Controls) \union Claimed(Ranks)
  BY <1>7, <1>8, RanksApart, ApartTogether
<1>10. Actors = a3 \o Ranks
  BY DEF Actors, a1, a2, a3
<1> HIDE DEF Actors
<1>11. UniqueResources
  BY <1>9, <1>10 DEF UniqueResources, Apart
<1>12. Claimed(Actors) \subseteq NodeResources
  BY <1>9, <1>10, ControlsApart, RanksApart
<1> QED BY <1>11, <1>12 DEF Claimed, ToSet

-----------------------------------------------------------------------------
(* RayDriver.train                                                         *)

(* The driver never touches the configuration; what it brings up, it has   *)
(* only between the cluster and the shutdown, and an error is on its way   *)
(* only into the finally clause or out.                                    *)
StageInv ==
  /\ stage \in {"artifacts", "plan", "cluster", "local", "actors", "loop",
                "shutdown", "returned", "raised"}
  /\ created \in Nat
  /\ stage \in {"artifacts", "plan", "cluster", "local", "returned", "raised"} =>
       ray \in {"down", "foreign"} /\ created = 0
  /\ stage \notin {"shutdown", "raised"} => failed = FALSE
  /\ stage = "raised" => failed = TRUE
  /\ failed \in BOOLEAN

StartupIInv == PlanInv /\ StageInv

LEMMA StartupInit == Init => StartupIInv
<1> SUFFICES ASSUME Init PROVE StartupIInv
  OBVIOUS
<1>1. PlanInv
  BY DEF Init, PlanInv
<1>2. /\ stage = "artifacts" /\ created = 0 /\ failed = FALSE
      /\ ray \in {"down", "foreign"}
  BY DEF Init
<1>3. StageInv
  BY <1>2 DEF StageInv
<1> QED BY <1>1, <1>3 DEF StartupIInv

LEMMA StartupNext == StartupIInv /\ [Next]_vars => StartupIInv'
<1> SUFFICES ASSUME StartupIInv, [Next]_vars PROVE StartupIInv'
  OBVIOUS
<1>1. CASE UNCHANGED vars
  BY <1>1 DEF vars, StartupIInv, PlanInv, StageInv
<1>2. PlanInv'
  <2>1. UNCHANGED <<counts, options>>
    BY DEF Next, Driver, Goto, ArtifactsValid, ArtifactsMissing, Plan, AlreadyUp, Connect,
                ConnectFails, CreateLocal, CreateLocalFails, CreateActor, CreateActorFails,
                StartLoop, LoopCompletes, LoopRaises, Shutdown, Ended, Waits, Escape, vars
  <2> QED BY <2>1 DEF StartupIInv, PlanInv
<1>3. CASE ArtifactsValid \/ ArtifactsMissing
  BY <1>2, <1>3 DEF ArtifactsValid, ArtifactsMissing, Goto, StartupIInv, StageInv
<1>4. CASE Plan
  <2>1. UniqueResources
    BY PlanIsSound DEF StartupIInv
  <2>2. failed' = FALSE /\ stage' \in {"returned", "cluster"}
    BY <1>4, <2>1 DEF Plan, Goto
  <2> QED BY <1>2, <1>4, <2>2 DEF Plan, Goto, StartupIInv, StageInv
<1>5. CASE AlreadyUp \/ Connect \/ ConnectFails
  BY <1>2, <1>5 DEF AlreadyUp, Connect, ConnectFails, Goto, Escape, StartupIInv, StageInv
<1>6. CASE CreateLocal \/ CreateLocalFails
  BY <1>2, <1>6 DEF CreateLocal, CreateLocalFails, CreatesLocal, Goto, Escape, StartupIInv, StageInv
<1>7. CASE CreateActor
  <2>1. /\ stage = "actors" /\ stage' = "actors" /\ created' = created + 1
        /\ ray' = ray /\ failed' = failed
    BY <1>7 DEF CreateActor, Goto
  <2>2. created \in Nat /\ failed = FALSE
    BY <2>1 DEF StartupIInv, StageInv
  <2>3. created' \in Nat
    BY <2>1, <2>2
  <2>4. StageInv'
    BY <2>1, <2>2, <2>3 DEF StageInv
  <2> QED BY <1>2, <2>4 DEF StartupIInv
<1>8. CASE CreateActorFails \/ LoopRaises
  <2>1. /\ stage' = "shutdown" /\ failed' = TRUE /\ created' = created
    BY <1>8 DEF CreateActorFails, LoopRaises, Escape, Goto
  <2>2. StageInv'
    BY <2>1 DEF StartupIInv, StageInv
  <2> QED BY <1>2, <2>2 DEF StartupIInv
<1>9. CASE StartLoop \/ LoopCompletes
  <2>1. /\ stage \in {"actors", "loop"} /\ stage' \in {"loop", "shutdown"}
        /\ created' = created /\ failed' = failed
    BY <1>9 DEF StartLoop, LoopCompletes, Goto
  <2>2. StageInv'
    BY <2>1 DEF StartupIInv, StageInv
  <2> QED BY <1>2, <2>2 DEF StartupIInv
<1>10. CASE Shutdown
  <2>1. /\ ray' = "down" /\ created' = 0 /\ failed' = failed
        /\ stage' = IF failed THEN "raised" ELSE "returned"
    BY <1>10 DEF Shutdown, Goto
  <2>2. failed = TRUE \/ failed = FALSE
    BY DEF StartupIInv, StageInv
  <2>3. StageInv'
    BY <2>1, <2>2 DEF StageInv
  <2> QED BY <1>2, <2>3 DEF StartupIInv
<1> QED BY <1>1, <1>3, <1>4, <1>5, <1>6, <1>7, <1>8, <1>9, <1>10 DEF Next, Driver, Ended, Waits

LEMMA StartupInvariance == Spec => []StartupIInv
BY StartupInit, StartupNext, PTL DEF Spec

(***************************************************************************)
(* Whatever sizes a configuration gets past the checks with, however many  *)
(* GPUs: each rollout GPU is in one replica, no replica mixes GPUs that    *)
(* the trainer shares with GPUs that it does not, and the planner never    *)
(* refuses one (config.py:515-605, 705-771).                               *)
(***************************************************************************)
THEOREM ReplicasFit == Spec => []ReplicasFitTheGpus
<1>1. StartupIInv => ReplicasFitTheGpus
  BY PlanFits DEF StartupIInv
<1> QED BY <1>1, StartupInvariance, PTL

(***************************************************************************)
(* The transport a replica's engine is set up for and the one the ranks    *)
(* send with differ only in the one case TransportsAgree names             *)
(* (placement.py:267-273, training.py:368-375).                            *)
(***************************************************************************)
THEOREM TransportsMatch == Spec => []TransportsAgree
<1>1. StartupIInv => TransportsAgree
  BY PlanAgrees DEF StartupIInv
<1> QED BY <1>1, StartupInvariance, PTL

(***************************************************************************)
(* The launch plan of a valid configuration never gives a custom resource  *)
(* to two actors, so planning never raises, and no actor asks for one that *)
(* the node does not advertise: in a local cluster an actor can wait for   *)
(* CPUs or for memory, for nothing else, and the loop hangs in the cases   *)
(* only that EndsWithoutRay names (placement.py:109-111, 179-215, 276-288, *)
(* cluster.py:143-168, launcher.py:169-180).                               *)
(***************************************************************************)
OnlyRoomCanBeMissing ==
  /\ UniqueResources
  /\ ray = "local" =>
       (Scheduled <=> /\ Demand("cpus") <= options.cpus
                      /\ Demand("memory") <= NodeMemory)
  /\ ~Scheduled <=> NoRoom

THEOREM PlanIsSchedulable == Spec => []OnlyRoomCanBeMissing
<1>1. StartupIInv => OnlyRoomCanBeMissing
  BY PlanIsSound DEF StartupIInv, OnlyRoomCanBeMissing, Scheduled, HasRoom, NoRoom
<1> QED BY <1>1, StartupInvariance, PTL

(***************************************************************************)
(* Wherever it failed, train ends with no actor handle and no Ray runtime  *)
(* that it brought up, and raises exactly if something failed: the safety  *)
(* half of EndsWithoutRay (driver.py:74-96, launcher.py:70-125).           *)
(***************************************************************************)
NothingLeftBehind ==
  stage \in {"returned", "raised"} =>
    /\ ray \notin {"joined", "local"} /\ created = 0
    /\ stage = "raised" <=> failed

THEOREM EndsClean == Spec => []NothingLeftBehind
<1>1. StartupIInv => NothingLeftBehind
  BY DEF StartupIInv, StageInv, NothingLeftBehind
<1> QED BY <1>1, StartupInvariance, PTL

-----------------------------------------------------------------------------
(***************************************************************************)
(* The weight registry.  The acks kept in the activation record are acks   *)
(* heard since that activation began; this, with the record always being   *)
(* of a version that is ACTIVATING, carries both theorems.                 *)
(***************************************************************************)
RecordIsHeard ==
  activation # NoActivation =>
    /\ activation.required # {}
    /\ activation.required = asked[activation.version]
    /\ activation.acked \subseteq heard[activation.version]

RegistryIInv == RegistryTypeOK /\ RecordIsHeard /\ CommittedByAll

LEMMA RegistryInitIInv == RegistryInit => RegistryIInv
<1> SUFFICES ASSUME RegistryInit PROVE RegistryIInv
  OBVIOUS
<1>1. RegistryTypeOK
  BY DEF RegistryInit, RegistryTypeOK
<1>2. RecordIsHeard /\ CommittedByAll
  BY DEF RegistryInit, RecordIsHeard, CommittedByAll
<1> QED BY <1>1, <1>2 DEF RegistryIInv

(* Registering a version touches no registered one.                        *)
LEMMA RegisterIInv ==
  ASSUME RegistryIInv, NEW v \in Versions, NEW c \in Checksums, Register(v, c)
  PROVE  RegistryIInv' /\ (\A u \in Versions : Registered(u) => status'[u] = status[u])
<1> USE DEF RegistryIInv
<1>1. CASE ~Registered(v)
  <2>1. /\ status' = [status EXCEPT ![v] = "REGISTERED"]
        /\ checksum' = [checksum EXCEPT ![v] = c]
        /\ latestRegistered' \in {v, latestRegistered}
        /\ UNCHANGED <<activation, latestActive, asked, heard>>
    BY <1>1 DEF Register
  <2>2. \A u \in Versions : Registered(u) => status'[u] = status[u]
    BY <1>1, <2>1 DEF RegistryTypeOK, Registered
  <2>3. /\ status' \in [Versions -> Status \cup {"absent"}]
        /\ checksum' \in [Versions -> Checksums \cup {"absent"}]
    BY <2>1 DEF RegistryTypeOK, Status
  <2>4. activation # NoActivation =>
          status'[activation.version] = status[activation.version]
    BY <2>2 DEF RegistryTypeOK, Activation, Registered
  <2>5. status'[v] = "REGISTERED"
    BY <2>1 DEF RegistryTypeOK
  <2>6. /\ latestRegistered' # NoVersion => Registered(latestRegistered)'
        /\ latestActive' # NoVersion => Registered(latestActive)'
    BY <2>1, <2>2, <2>5 DEF RegistryTypeOK, Registered
  <2>7. RegistryTypeOK'
    BY <2>1, <2>3, <2>4, <2>6 DEF RegistryTypeOK
  <2>8. RecordIsHeard'
    BY <2>1 DEF RecordIsHeard
  <2>9. CommittedByAll'
    BY <2>1 DEF CommittedByAll, RegistryTypeOK
  <2> QED BY <2>2, <2>7, <2>8, <2>9
<1>2. CASE UNCHANGED registryVars
  BY <1>2 DEF registryVars, RegistryTypeOK, RecordIsHeard, CommittedByAll, Registered
<1> QED BY <1>1, <1>2 DEF Register

(* A new activation starts with no acks, in the record and in history.     *)
LEMMA BeginIInv ==
  ASSUME RegistryIInv, NEW v \in Versions, NEW required \in SUBSET Workers,
         BeginActivation(v, required)
  PROVE  RegistryIInv'
<1> USE DEF RegistryIInv
<1> DEFINE new == [version |-> v, required |-> required, acked |-> {}]
<1>1. /\ status' \in [Versions -> Status \cup {"absent"}]
      /\ asked' \in [Versions -> SUBSET Workers]
      /\ heard' \in [Versions -> SUBSET Workers]
  BY DEF BeginActivation, RegistryTypeOK, Status
<1>2. new \in Activation
  BY DEF Activation
<1>3. /\ activation' = new /\ required # {}
      /\ status'[v] = "ACTIVATING"
      /\ asked'[v] = required /\ heard'[v] = {}
  BY DEF BeginActivation, RegistryTypeOK
<1>4. \A u \in Versions : u # v =>
        status'[u] = status[u] /\ asked'[u] = asked[u] /\ heard'[u] = heard[u]
  BY DEF BeginActivation, RegistryTypeOK
<1>5. /\ latestRegistered' # NoVersion => Registered(latestRegistered)'
      /\ latestActive' # NoVersion => Registered(latestActive)'
  BY <1>3, <1>4 DEF BeginActivation, RegistryTypeOK, Registered
<1>6. RegistryTypeOK'
  BY <1>1, <1>2, <1>3, <1>5 DEF BeginActivation, RegistryTypeOK
<1>7. RecordIsHeard'
  BY <1>3 DEF RecordIsHeard
<1>8. CommittedByAll'
  BY <1>3, <1>4 DEF CommittedByAll
<1> QED BY <1>6, <1>7, <1>8

(* An ack enters the record and history together; the last one commits.    *)
LEMMA AckIInv ==
  ASSUME RegistryIInv, NEW v \in Versions, NEW w \in Workers, Ack(v, w)
  PROVE  RegistryIInv' /\ (\A u \in Versions : u # v => status'[u] = status[u])
<1> USE DEF RegistryIInv
<1>1. /\ activation \in Activation /\ activation.version = v
      /\ activation # NoActivation /\ status[v] = "ACTIVATING"
      /\ w \in activation.required
      /\ activation.required = asked[v] /\ activation.required # {}
      /\ activation.acked \subseteq heard[v]
      /\ activation.acked \subseteq activation.required
  BY DEF Ack, Activating, RegistryTypeOK, RecordIsHeard
<1>2. /\ heard' = [heard EXCEPT ![v] = @ \cup {w}]
      /\ UNCHANGED <<checksum, latestRegistered, asked>>
  BY DEF Ack
<1>3. /\ heard' \in [Versions -> SUBSET Workers]
      /\ heard'[v] = heard[v] \cup {w}
      /\ \A u \in Versions : u # v => heard'[u] = heard[u]
  BY <1>2 DEF RegistryTypeOK
<1>4. CASE /\ Acked(w) = activation.required
           /\ status' = [status EXCEPT ![v] = "ACTIVE_GLOBAL"]
           /\ latestActive' = v
           /\ activation' = NoActivation
  <2>1. /\ status' \in [Versions -> Status \cup {"absent"}]
        /\ status'[v] = "ACTIVE_GLOBAL"
        /\ \A u \in Versions : u # v => status'[u] = status[u]
    BY <1>4 DEF RegistryTypeOK, Status
  <2>2. /\ latestRegistered' # NoVersion => Registered(latestRegistered)'
        /\ latestActive' # NoVersion => Registered(latestActive)'
    BY <1>2, <1>4, <2>1 DEF RegistryTypeOK, Registered
  <2>3. RegistryTypeOK'
    BY <1>2, <1>3, <1>4, <2>1, <2>2 DEF RegistryTypeOK
  <2>4. RecordIsHeard'
    BY <1>4 DEF RecordIsHeard
  <2>5. asked[v] \subseteq heard'[v]
    BY <1>1, <1>3, <1>4 DEF Acked
  <2>6. CommittedByAll'
    BY <1>1, <1>2, <1>3, <2>1, <2>5 DEF CommittedByAll
  <2> QED BY <2>1, <2>3, <2>4, <2>6
<1>5. CASE /\ Acked(w) # activation.required
           /\ activation' = [activation EXCEPT !.acked = Acked(w)]
           /\ UNCHANGED <<status, latestActive>>
  <2>1. /\ activation'.version = v /\ activation'.acked = Acked(w)
        /\ activation'.required = activation.required
        /\ activation' \in Activation
    BY <1>1, <1>5 DEF Activation, Acked
  <2>2. Acked(w) \subseteq activation.required /\ Acked(w) \subseteq heard'[v]
    BY <1>1, <1>3 DEF Acked
  <2>3. RegistryTypeOK'
    BY <1>1, <1>2, <1>3, <1>5, <2>1, <2>2 DEF RegistryTypeOK, Registered
  <2>4. RecordIsHeard'
    BY <1>1, <1>2, <2>1, <2>2 DEF RecordIsHeard
  <2>5. CommittedByAll'
    BY <1>1, <1>2, <1>3, <1>5 DEF CommittedByAll
  <2> QED BY <1>5, <2>3, <2>4, <2>5
<1> QED BY <1>4, <1>5 DEF Ack

(* A failure of the version under activation ends the activation.          *)
LEMMA MarkFailedIInv ==
  ASSUME RegistryIInv, NEW v \in Versions, MarkFailed(v)
  PROVE  RegistryIInv' /\ (\A u \in Versions :
                     status'[u] = "FAILED" \/ status'[u] = status[u])
<1> USE DEF RegistryIInv
<1>1. /\ status' \in [Versions -> Status \cup {"absent"}]
      /\ status'[v] = "FAILED"
      /\ \A u \in Versions : u # v => status'[u] = status[u]
  BY DEF MarkFailed, RegistryTypeOK, Status
<1>2. UNCHANGED <<checksum, latestRegistered, latestActive, asked, heard>>
  BY DEF MarkFailed
<1>3. /\ latestRegistered' # NoVersion => Registered(latestRegistered)'
      /\ latestActive' # NoVersion => Registered(latestActive)'
  BY <1>1, <1>2 DEF RegistryTypeOK, Registered
<1>4. CASE activation' = NoActivation
  <2>1. RegistryTypeOK'
    BY <1>1, <1>2, <1>3, <1>4 DEF RegistryTypeOK
  <2> QED BY <1>1, <1>2, <1>4, <2>1 DEF RecordIsHeard, CommittedByAll
<1>5. CASE ~Activating(v) /\ UNCHANGED activation
  <2>1. activation # NoActivation =>
          activation.version \in Versions /\ activation.version # v
    BY <1>5 DEF Activating, RegistryTypeOK, Activation
  <2>2. RegistryTypeOK'
    BY <1>1, <1>2, <1>3, <1>5, <2>1 DEF RegistryTypeOK
  <2> QED BY <1>1, <1>2, <1>5, <2>2 DEF RecordIsHeard, CommittedByAll
<1> QED BY <1>4, <1>5 DEF MarkFailed

LEMMA RegistryNextIInv == RegistryIInv /\ [RegistryNext]_registryVars => RegistryIInv'
<1> SUFFICES ASSUME RegistryIInv, [RegistryNext]_registryVars PROVE RegistryIInv'
  OBVIOUS
<1>1. CASE UNCHANGED registryVars
  BY <1>1 DEF registryVars, RegistryIInv, RegistryTypeOK, RecordIsHeard, CommittedByAll, Registered
<1>2. CASE RegistryNext
  <2>1. PICK v \in Versions :
          \/ \E c \in Checksums : Register(v, c)
          \/ \E required \in SUBSET Workers : BeginActivation(v, required)
          \/ \E w \in Workers : Ack(v, w)
          \/ MarkFailed(v)
    BY <1>2 DEF RegistryNext
  <2> QED BY <2>1, RegisterIInv, BeginIInv, AckIInv, MarkFailedIInv
<1> QED BY <1>1, <1>2

THEOREM RegistryInvariance == RegistrySpec => []RegistryIInv
<1> QED BY RegistryInitIInv, RegistryNextIInv, PTL DEF RegistrySpec

(***************************************************************************)
(* The registry's state is well formed: the activation under way is of an  *)
(* ACTIVATING version and incomplete, the latest pointers are registered.  *)
(***************************************************************************)
THEOREM RegistryTypeCorrect == RegistrySpec => []RegistryTypeOK
<1>1. RegistryIInv => RegistryTypeOK
  BY DEF RegistryIInv
<1> QED BY <1>1, RegistryInvariance, PTL

(***************************************************************************)
(* ack_activation commits a version only with an ack of every replica its  *)
(* activation asked for, heard since that activation began.                *)
(***************************************************************************)
THEOREM RegistryAgreement == RegistrySpec => []CommittedByAll
<1>1. RegistryIInv => CommittedByAll
  BY DEF RegistryIInv
<1> QED BY <1>1, RegistryInvariance, PTL

(***************************************************************************)
(* No call brings a failed version back: an ack cannot, because the record *)
(* of the activation is never of a failed version.                         *)
(***************************************************************************)
THEOREM FailureIsFinal == RegistrySpec => FailedForGood
<1>1. ASSUME RegistryIInv, [RegistryNext]_registryVars, NEW u \in Versions, status[u] = "FAILED"
      PROVE  status'[u] = "FAILED"
  <2>1. CASE UNCHANGED registryVars
    BY <1>1, <2>1 DEF registryVars
  <2>2. ASSUME NEW v \in Versions, NEW c \in Checksums, Register(v, c)
        PROVE  status'[u] = "FAILED"
    BY <1>1, <2>2, RegisterIInv DEF Registered
  <2>3. ASSUME NEW v \in Versions, NEW required \in SUBSET Workers,
               BeginActivation(v, required)
        PROVE  status'[u] = "FAILED"
    BY <1>1, <2>3 DEF BeginActivation, RegistryIInv, RegistryTypeOK
  <2>4. ASSUME NEW v \in Versions, NEW w \in Workers, Ack(v, w)
        PROVE  status'[u] = "FAILED"
    <3>1. u # v
      BY <1>1, <2>4 DEF Ack, Activating, RegistryIInv, RegistryTypeOK
    <3> QED BY <1>1, <2>4, <3>1, AckIInv
  <2>5. ASSUME NEW v \in Versions, MarkFailed(v)
        PROVE  status'[u] = "FAILED"
    BY <1>1, <2>5, MarkFailedIInv
  <2> QED BY <1>1, <2>1, <2>2, <2>3, <2>4, <2>5 DEF RegistryNext
<1>2. RegistryIInv /\ [RegistryNext]_registryVars
      => [\A v \in Versions : status[v] = "FAILED" => status'[v] = "FAILED"]_registryVars
  BY <1>1
<1> QED BY <1>2, RegistryInvariance, PTL DEF RegistrySpec, FailedForGood
=============================================================================
