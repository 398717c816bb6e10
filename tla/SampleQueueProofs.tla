-------------------------- MODULE SampleQueueProofs --------------------------
(***************************************************************************)
(* Theorems about SampleQueue for every set of samples, every limit and    *)
(* every length of run.                                                    *)
(***************************************************************************)
EXTENDS SampleQueue, TLAPS, FiniteSetTheorems, FunctionTheorems, SequenceTheorems,
        WellFoundedInduction

\* Batch numbers not handed out yet hold nothing.
FreshNumbers == \A b \in Batches : b >= nextBatch => reserved[b] = <<>>

IInv == TypeOK /\ OnePlace /\ FreshNumbers

-----------------------------------------------------------------------------
(***************************************************************************)
(* Picking positions P of a sequence of refs gives a sequence of refs,     *)
(* with exactly the ids found at P, distinct if those of the sequence are. *)
(***************************************************************************)
LEMMA SubsequenceFacts ==
  ASSUME NEW refs \in Seq(SampleRef), NEW P \in SUBSET DOMAIN refs,
         NEW sub \in Subsequences(refs, P)
  PROVE  /\ sub \in Seq(SampleRef)
         /\ Ids(sub) = {refs[i].id : i \in P}
         /\ Distinct(refs) => Distinct(sub)
<1>1. Cardinality(P) \in Nat
  <2>1. P \subseteq 1..Len(refs) /\ Len(refs) \in Nat
    OBVIOUS
  <2>2. IsFiniteSet(P)
    BY <2>1, FS_Interval, FS_Subset
  <2>3. QED
    BY <2>2, FS_CardinalityType
<1>2. PICK f \in InOrder(P) : sub = [i \in DOMAIN f |-> refs[f[i]]]
  BY DEF Subsequences
<1>3. /\ f \in [1..Cardinality(P) -> P]
      /\ \A i, j \in DOMAIN f : i < j => f[i] < f[j]
      /\ \A p \in P : \E i \in DOMAIN f : f[i] = p
  BY DEF InOrder
<1>4. sub \in [1..Cardinality(P) -> SampleRef]
  BY <1>2, <1>3
<1>5. sub \in Seq(SampleRef) /\ DOMAIN sub = DOMAIN f
  BY <1>1, <1>3, <1>4
<1>6. Ids(sub) = {refs[i].id : i \in P}
  BY <1>2, <1>3, <1>5 DEF Ids
<1>7. ASSUME Distinct(refs) PROVE Distinct(sub)
  <2> SUFFICES ASSUME NEW i \in DOMAIN sub, NEW j \in DOMAIN sub,
                      sub[i].id = sub[j].id
               PROVE  i = j
    BY DEF Distinct
  <2>1. f[i] \in P /\ f[j] \in P /\ i \in DOMAIN f /\ j \in DOMAIN f
    BY <1>3, <1>5
  <2>2. refs[f[i]].id = refs[f[j]].id
    BY <1>2, <2>1
  <2>3. f[i] = f[j]
    BY <1>7, <2>1, <2>2 DEF Distinct
  <2>4. i \in Nat /\ j \in Nat /\ f[i] \in Nat
    BY <1>1, <1>3, <2>1
  <2>5. QED
    BY <1>3, <2>1, <2>3, <2>4
<1>8. QED
  BY <1>5, <1>6, <1>7

LEMMA IdsAreSamples ==
  ASSUME NEW refs \in Seq(SampleRef)
  PROVE  \A i \in DOMAIN refs : refs[i].id \in Samples
<1>1. \A i \in DOMAIN refs : refs[i] \in SampleRef
  OBVIOUS
<1>2. \A ref \in SampleRef : ref.id \in Samples
  BY DEF SampleRef
<1>3. QED
  BY <1>1, <1>2

\* Where the ids of a sequence end up when it is cut, extended or joined.
LEMMA AppendIds ==
  ASSUME NEW refs \in Seq(SampleRef), NEW ref \in SampleRef
  PROVE  /\ Append(refs, ref) \in Seq(SampleRef)
         /\ Ids(Append(refs, ref)) = Ids(refs) \cup {ref.id}
         /\ Distinct(refs) /\ ref.id \notin Ids(refs) => Distinct(Append(refs, ref))
<1> DEFINE longer == Append(refs, ref)
<1>1. /\ longer \in Seq(SampleRef)
      /\ Len(longer) = Len(refs) + 1
      /\ \A i \in 1..Len(refs) : longer[i] = refs[i]
      /\ longer[Len(refs) + 1] = ref
  BY AppendProperties
<1>2. /\ Len(refs) \in Nat /\ DOMAIN refs = 1..Len(refs)
      /\ DOMAIN longer = 1..Len(refs) + 1
  BY <1>1
<1> HIDE DEF longer
<1>3. Ids(longer) = Ids(refs) \cup {ref.id}
  BY <1>1, <1>2 DEF Ids
<1>4. ASSUME Distinct(refs), ref.id \notin Ids(refs) PROVE Distinct(longer)
  <2>1. \A i \in 1..Len(refs) : longer[i].id = refs[i].id /\ longer[i].id # ref.id
    BY <1>1, <1>2, <1>4 DEF Ids
  <2> QED BY <1>1, <1>2, <1>4, <2>1 DEF Distinct
<1>5. QED
  BY <1>1, <1>3, <1>4 DEF longer

LEMMA ConcatIds ==
  ASSUME NEW r1 \in Seq(SampleRef), NEW r2 \in Seq(SampleRef)
  PROVE  /\ r1 \o r2 \in Seq(SampleRef)
         /\ Ids(r1 \o r2) = Ids(r1) \cup Ids(r2)
         /\ Distinct(r1) /\ Distinct(r2) /\ Ids(r1) \cap Ids(r2) = {}
              => Distinct(r1 \o r2)
<1>1. /\ r1 \o r2 \in Seq(SampleRef)
      /\ Len(r1 \o r2) = Len(r1) + Len(r2)
      /\ \A i \in 1..Len(r1) + Len(r2) :
           (r1 \o r2)[i] = IF i <= Len(r1) THEN r1[i] ELSE r2[i - Len(r1)]
  OBVIOUS
<1>2. Ids(r1 \o r2) = Ids(r1) \cup Ids(r2)
  <2>1. ASSUME NEW i \in DOMAIN r2 PROVE r2[i].id \in Ids(r1 \o r2)
    <3>1. Len(r1) + i \in DOMAIN (r1 \o r2) /\ (r1 \o r2)[Len(r1) + i] = r2[i]
      BY <1>1
    <3>2. QED
      BY <3>1 DEF Ids
  <2>2. ASSUME NEW i \in DOMAIN r1 PROVE r1[i].id \in Ids(r1 \o r2)
    BY <1>1 DEF Ids
  <2>3. ASSUME NEW i \in DOMAIN (r1 \o r2)
        PROVE  (r1 \o r2)[i].id \in Ids(r1) \cup Ids(r2)
    BY <1>1 DEF Ids
  <2>4. QED
    BY <2>1, <2>2, <2>3 DEF Ids
<1>3. ASSUME Distinct(r1), Distinct(r2), Ids(r1) \cap Ids(r2) = {}
      PROVE  Distinct(r1 \o r2)
  <2> SUFFICES ASSUME NEW i \in DOMAIN (r1 \o r2), NEW j \in DOMAIN (r1 \o r2),
                      (r1 \o r2)[i].id = (r1 \o r2)[j].id
               PROVE  i = j
    BY DEF Distinct
  <2>1. CASE i <= Len(r1) /\ j <= Len(r1)
    BY <1>1, <1>3, <2>1 DEF Distinct
  <2>2. CASE i > Len(r1) /\ j > Len(r1)
    <3>1. i - Len(r1) \in DOMAIN r2 /\ j - Len(r1) \in DOMAIN r2
      BY <1>1, <2>2
    <3>2. i - Len(r1) = j - Len(r1)
      BY <1>1, <1>3, <2>2, <3>1 DEF Distinct
    <3>3. QED
      BY <1>1, <3>2
  <2>3. CASE i <= Len(r1) /\ j > Len(r1)
    <3>1. i \in DOMAIN r1 /\ j - Len(r1) \in DOMAIN r2
      BY <1>1, <2>3
    <3>2. r1[i].id = r2[j - Len(r1)].id
      BY <1>1, <2>3
    <3>3. QED
      BY <1>3, <3>1, <3>2 DEF Ids
  <2>4. CASE i > Len(r1) /\ j <= Len(r1)
    <3>1. j \in DOMAIN r1 /\ i - Len(r1) \in DOMAIN r2
      BY <1>1, <2>4
    <3>2. r1[j].id = r2[i - Len(r1)].id
      BY <1>1, <2>4
    <3>3. QED
      BY <1>3, <3>1, <3>2 DEF Ids
  <2>5. QED
    BY <1>1, <2>1, <2>2, <2>3, <2>4
<1>4. QED
  BY <1>1, <1>2, <1>3

LEMMA SuffixIds ==
  ASSUME NEW refs \in Seq(SampleRef), NEW n \in 0..Len(refs)
  PROVE  /\ SubSeq(refs, n + 1, Len(refs)) \in Seq(SampleRef)
         /\ Ids(SubSeq(refs, n + 1, Len(refs))) = {refs[i].id : i \in n+1..Len(refs)}
         /\ Distinct(refs) => Distinct(SubSeq(refs, n + 1, Len(refs)))
<1> DEFINE suf == SubSeq(refs, n + 1, Len(refs))
<1>1. /\ suf \in Seq(SampleRef)
      /\ Len(suf) = Len(refs) - n
      /\ \A i \in 1..Len(refs) - n : suf[i] = refs[n + i]
  BY SMTT(30)
<1>2. Ids(suf) = {refs[i].id : i \in n+1..Len(refs)}
  <2>1. ASSUME NEW i \in n+1..Len(refs) PROVE refs[i].id \in Ids(suf)
    <3>1. i - n \in DOMAIN suf /\ suf[i - n] = refs[i]
      BY <1>1
    <3>2. QED
      BY <3>1 DEF Ids
  <2>2. ASSUME NEW i \in DOMAIN suf
        PROVE  suf[i].id \in {refs[j].id : j \in n+1..Len(refs)}
    <3>1. n + i \in n+1..Len(refs) /\ suf[i] = refs[n + i]
      BY <1>1
    <3>2. QED
      BY <3>1
  <2>3. QED
    BY <2>1, <2>2 DEF Ids
<1>3. ASSUME Distinct(refs) PROVE Distinct(suf)
  <2> SUFFICES ASSUME NEW i \in DOMAIN suf, NEW j \in DOMAIN suf,
                      suf[i].id = suf[j].id
               PROVE  i = j
    BY DEF Distinct
  <2>1. n + i \in DOMAIN refs /\ n + j \in DOMAIN refs
    BY <1>1
  <2>2. n + i = n + j
    BY <1>1, <1>3, <2>1 DEF Distinct
  <2>3. QED
    BY <1>1, <2>2
<1>4. QED
  BY <1>1, <1>2, <1>3
-----------------------------------------------------------------------------
LEMMA InitIInv == Init => IInv
<1> SUFFICES ASSUME Init PROVE IInv
  OBVIOUS
<1> USE QueueAssumption DEF Init
<1>1. TypeOK
  BY DEF TypeOK, Batches
<1>2. Ids(pending) = {} /\ \A b \in Batches : Ids(reserved[b]) = {}
  BY DEF Ids
<1>3. ReservedIds = {}
  BY <1>2 DEF ReservedIds
<1>4. OnePlace
  BY <1>2, <1>3 DEF OnePlace, Distinct, Ids
<1>5. FreshNumbers
  BY DEF FreshNumbers
<1>6. QED
  BY <1>1, <1>4, <1>5 DEF IInv

\* submit_sample: the new id is nowhere yet, so it may join the queue or the dropped.
LEMMA SubmitIInv ==
  ASSUME IInv, NEW s \in Samples, Submit(s)
  PROVE  IInv'
<1>0. PICK version \in 0..policy, created \in 0..now :
        SubmitRecord(Record(s, version, created))
  BY DEF Submit
<1> DEFINE ref == Record(s, version, created)
<1>2. ref \in SampleRef /\ ref.id = s
  BY QueueAssumption DEF SampleRef, Record, IInv, TypeOK
<1>1. /\ FirstSubmission(s)
      /\ seen' = seen \cup {s}
      /\ \/ /\ Admissible(ref)
            /\ pending' = Append(pending, ref)
            /\ UNCHANGED dropped
         \/ /\ ~Admissible(ref)
            /\ dropped' = dropped \cup {s}
            /\ UNCHANGED pending
      /\ UNCHANGED <<reserved, acked, nextBatch, now, policy>>
  BY <1>0, <1>2 DEF SubmitRecord
<1>3. s \notin Ids(pending) /\ s \notin ReservedIds /\ s \notin acked /\ s \notin dropped
  BY <1>1 DEF FirstSubmission, IInv, OnePlace
<1>4. ReservedIds' = ReservedIds /\ \A b \in Batches : reserved'[b] = reserved[b]
  BY <1>1 DEF ReservedIds
<1>5. FreshNumbers'
  BY <1>1, <1>4 DEF FreshNumbers, IInv
<1> HIDE DEF ref
<1>6. CASE pending' = Append(pending, ref) /\ UNCHANGED dropped
  <2>1. /\ pending' \in Seq(SampleRef)
        /\ Ids(pending') = Ids(pending) \cup {s}
        /\ Distinct(pending')
    BY <1>2, <1>3, <1>6, AppendIds DEF IInv, TypeOK, OnePlace
  <2>2. TypeOK'
    BY <1>1, <1>6, <2>1 DEF IInv, TypeOK
  <2>3. OnePlace'
    <3>1. /\ Distinct(pending') /\ \A b \in Batches : Distinct(reserved'[b])
          /\ \A b, c \in Batches : b # c => Ids(reserved'[b]) \cap Ids(reserved'[c]) = {}
      BY <1>4, <2>1 DEF IInv, OnePlace
    <3>2. /\ Ids(pending') \cap ReservedIds' = {}
          /\ acked' \cap dropped' = {}
          /\ (acked' \cup dropped') \cap (Ids(pending') \cup ReservedIds') = {}
          /\ seen' = Ids(pending') \cup ReservedIds' \cup acked' \cup dropped'
      BY <1>1, <1>3, <1>4, <1>6, <2>1 DEF IInv, OnePlace
    <3>3. QED
      BY <3>1, <3>2 DEF OnePlace
  <2>4. QED
    BY <1>5, <2>2, <2>3 DEF IInv
<1>7. CASE dropped' = dropped \cup {s} /\ UNCHANGED pending
  <2>1. TypeOK'
    BY <1>1, <1>7 DEF IInv, TypeOK
  <2>2. OnePlace'
    <3>1. /\ Distinct(pending') /\ \A b \in Batches : Distinct(reserved'[b])
          /\ \A b, c \in Batches : b # c => Ids(reserved'[b]) \cap Ids(reserved'[c]) = {}
      BY <1>4, <1>7 DEF IInv, OnePlace
    <3>2. /\ Ids(pending') \cap ReservedIds' = {}
          /\ acked' \cap dropped' = {}
          /\ (acked' \cup dropped') \cap (Ids(pending') \cup ReservedIds') = {}
          /\ seen' = Ids(pending') \cup ReservedIds' \cup acked' \cup dropped'
      BY <1>1, <1>3, <1>4, <1>7 DEF IInv, OnePlace
    <3>3. QED
      BY <3>1, <3>2 DEF OnePlace
  <2>3. QED
    BY <1>5, <2>1, <2>2 DEF IInv
<1>8. QED
  BY <1>1, <1>6, <1>7 DEF ref

\* reserve_train_batch: the scanned front splits into the batch and the stale.
LEMMA ReserveIInv ==
  ASSUME IInv, NEW maxSequences, NEW maxTokens, Reserve(maxSequences, maxTokens)
  PROVE  IInv'
<1>1. PICK n \in 0..Len(pending) :
        /\ pending' = SubSeq(pending, n + 1, Len(pending))
        /\ dropped' = dropped \cup {pending[i].id : i \in (1..n) \ LiveBefore(n)}
        /\ \/ /\ LiveBefore(n) = {}
              /\ UNCHANGED <<reserved, nextBatch>>
           \/ /\ LiveBefore(n) # {}
              /\ \E refs \in Subsequences(pending, LiveBefore(n)) :
                   reserved' = [reserved EXCEPT ![nextBatch] = refs]
              /\ nextBatch' = nextBatch + 1
  BY DEF Reserve
<1>2. UNCHANGED <<acked, seen, now, policy>> /\ nextBatch \in Batches
  BY DEF Reserve
<1> DEFINE live     == LiveBefore(n)
           liveIds  == {pending[i].id : i \in live}
           staleIds == {pending[i].id : i \in (1..n) \ live}
<1>3. /\ pending \in Seq(SampleRef) /\ Distinct(pending)
      /\ Len(pending) \in Nat /\ DOMAIN pending = 1..Len(pending)
      /\ live \subseteq 1..n /\ 1..n \subseteq DOMAIN pending
  BY DEF IInv, TypeOK, OnePlace, LiveBefore
<1>4. /\ pending' \in Seq(SampleRef)
      /\ Ids(pending') = {pending[i].id : i \in n+1..Len(pending)}
      /\ Distinct(pending')
  BY <1>1, <1>3, SuffixIds
<1>5. Ids(pending) = Ids(pending') \cup liveIds \cup staleIds
  <2>1. DOMAIN pending = (n+1..Len(pending)) \cup live \cup ((1..n) \ live)
    BY <1>3
  <2>2. Ids(pending) = {pending[i].id : i \in n+1..Len(pending)} \cup liveIds \cup staleIds
    BY <2>1 DEF Ids
  <2>3. QED
    BY <1>4, <2>2
<1>6. liveIds \cap staleIds = {} /\ Ids(pending') \cap (liveIds \cup staleIds) = {}
  BY <1>3, <1>4 DEF Distinct
<1>7. liveIds \subseteq Samples /\ staleIds \subseteq Samples
  <2>1. \A i \in DOMAIN pending : pending[i].id \in Samples
    BY <1>3, IdsAreSamples
  <2>2. QED
    BY <1>3, <2>1
<1>8. dropped' = dropped \cup staleIds
  BY <1>1
<1> HIDE DEF live, liveIds, staleIds
<1>9. CASE live = {} /\ UNCHANGED <<reserved, nextBatch>>
  <2>1. liveIds = {}
    BY <1>9 DEF liveIds
  <2>2. ReservedIds' = ReservedIds /\ \A b \in Batches : reserved'[b] = reserved[b]
    BY <1>9 DEF ReservedIds
  <2>3. TypeOK'
    BY <1>2, <1>4, <1>7, <1>8, <1>9 DEF IInv, TypeOK
  <2>4. OnePlace'
    BY <1>2, <1>4, <1>5, <1>6, <1>8, <2>1, <2>2 DEF IInv, OnePlace
  <2>5. FreshNumbers'
    BY <1>9, <2>2 DEF IInv, FreshNumbers
  <2>6. QED
    BY <2>3, <2>4, <2>5 DEF IInv
<1>10. ASSUME NEW refs \in Subsequences(pending, live),
              reserved' = [reserved EXCEPT ![nextBatch] = refs],
              nextBatch' = nextBatch + 1
       PROVE  IInv'
  <2>1. refs \in Seq(SampleRef) /\ Ids(refs) = liveIds /\ Distinct(refs)
    BY <1>3, SubsequenceFacts DEF liveIds
  <2>2. reserved \in [Batches -> Seq(SampleRef)] /\ Ids(reserved[nextBatch]) = {}
    BY <1>2 DEF IInv, TypeOK, FreshNumbers, Ids, Batches
  <2>3. /\ reserved' \in [Batches -> Seq(SampleRef)]
        /\ reserved'[nextBatch] = refs
        /\ \A b \in Batches : b # nextBatch => reserved'[b] = reserved[b]
    BY <1>2, <1>10, <2>1, <2>2
  <2>4. ReservedIds' = ReservedIds \cup liveIds
    BY <1>2, <2>1, <2>2, <2>3 DEF ReservedIds
  <2>5. \A b \in Batches : Ids(reserved[b]) \subseteq ReservedIds
    BY DEF ReservedIds
  <2>6. ReservedIds \cap liveIds = {}
    BY <1>5 DEF IInv, OnePlace
  <2>7. TypeOK'
    <3>1. nextBatch' \in 1..MaxBatches + 1
      BY <1>2, <1>10, QueueAssumption DEF Batches
    <3>2. QED
      BY <1>2, <1>4, <1>7, <1>8, <2>3, <3>1 DEF IInv, TypeOK
  <2>8. \A b \in Batches : Distinct(reserved'[b])
    BY <2>1, <2>3 DEF IInv, OnePlace
  <2>9. \A b, c \in Batches : b # c => Ids(reserved'[b]) \cap Ids(reserved'[c]) = {}
    <3> SUFFICES ASSUME NEW b \in Batches, NEW c \in Batches, b # c
                 PROVE  Ids(reserved'[b]) \cap Ids(reserved'[c]) = {}
      OBVIOUS
    <3>1. CASE b # nextBatch /\ c # nextBatch
      BY <2>3, <3>1 DEF IInv, OnePlace
    <3>2. CASE b = nextBatch \/ c = nextBatch
      BY <2>1, <2>3, <2>5, <2>6, <3>2
    <3>3. QED
      BY <3>1, <3>2
  <2>10. /\ Ids(pending') \cap ReservedIds' = {}
         /\ acked' \cap dropped' = {}
         /\ (acked' \cup dropped') \cap (Ids(pending') \cup ReservedIds') = {}
         /\ seen' = Ids(pending') \cup ReservedIds' \cup acked' \cup dropped'
    BY <1>2, <1>5, <1>6, <1>8, <2>4 DEF IInv, OnePlace
  <2>11. OnePlace'
    BY <1>4, <2>8, <2>9, <2>10 DEF OnePlace
  <2>12. FreshNumbers'
    BY <1>2, <1>10, <2>3 DEF IInv, FreshNumbers, Batches
  <2>13. QED
    BY <2>7, <2>11, <2>12 DEF IInv
<1>11. QED
  BY <1>1, <1>9, <1>10 DEF live

\* What popping a batch from _reserved leaves behind.
LEMMA SettleFacts ==
  ASSUME IInv, NEW b \in Batches, Settle(b)
  PROVE  /\ reserved' \in [Batches -> Seq(SampleRef)]
         /\ \A c \in Batches : Ids(reserved'[c]) = IF c = b THEN {} ELSE Ids(reserved[c])
         /\ \A c \in Batches : Distinct(reserved'[c])
         /\ ReservedIds = ReservedIds' \cup Ids(reserved[b])
         /\ ReservedIds' \cap Ids(reserved[b]) = {}
         /\ Ids(reserved[b]) \subseteq Samples
         /\ reserved[b] \in Seq(SampleRef) /\ Distinct(reserved[b])
         /\ nextBatch' = nextBatch => FreshNumbers'
<1>1. /\ reserved \in [Batches -> Seq(SampleRef)]
      /\ \A c \in Batches : reserved'[c] = IF c = b THEN <<>> ELSE reserved[c]
  BY DEF IInv, TypeOK, Settle
<1>2. reserved' \in [Batches -> Seq(SampleRef)]
  BY <1>1 DEF Settle
<1>3. \A c \in Batches : Ids(reserved'[c]) = IF c = b THEN {} ELSE Ids(reserved[c])
  BY <1>1 DEF Ids
<1>4. \A c \in Batches : Distinct(reserved'[c])
  BY <1>1 DEF IInv, OnePlace, Distinct
<1>5. ReservedIds = ReservedIds' \cup Ids(reserved[b])
  BY <1>3 DEF ReservedIds
<1>6. ReservedIds' \cap Ids(reserved[b]) = {}
  BY <1>3 DEF ReservedIds, IInv, OnePlace
<1>7. reserved[b] \in Seq(SampleRef) /\ Distinct(reserved[b])
  BY <1>1 DEF IInv, OnePlace
<1>8. Ids(reserved[b]) \subseteq Samples
  BY <1>7, IdsAreSamples DEF Ids
<1>9. nextBatch' = nextBatch => FreshNumbers'
  BY <1>1 DEF IInv, FreshNumbers
<1>10. QED
  BY <1>2, <1>3, <1>4, <1>5, <1>6, <1>7, <1>8, <1>9

LEMMA AckIInv ==
  ASSUME IInv, NEW b \in Batches, Ack(b)
  PROVE  IInv'
<1>1. /\ Settle(b)
      /\ acked' = acked \cup Ids(reserved[b])
      /\ UNCHANGED <<pending, dropped, seen, nextBatch, now, policy>>
  BY DEF Ack
<1>2. TypeOK'
  BY <1>1, SettleFacts DEF IInv, TypeOK
<1>3. \A c, d \in Batches : c # d => Ids(reserved'[c]) \cap Ids(reserved'[d]) = {}
  BY <1>1, SettleFacts DEF IInv, OnePlace
<1>4. OnePlace'
  BY <1>1, <1>3, SettleFacts DEF IInv, OnePlace
<1>5. QED
  BY <1>1, <1>2, <1>4, SettleFacts DEF IInv

\* release_batch: no sample of a reserved batch is settled, so all of them return.
LEMMA ReleaseIInv ==
  ASSUME IInv, NEW b \in Batches, Release(b)
  PROVE  IInv'
<1>1. PICK refs \in Subsequences(reserved[b], Returnable(b)) :
        pending' = pending \o refs
  BY DEF Release
<1>2. Settle(b) /\ UNCHANGED <<acked, dropped, seen, nextBatch, now, policy>>
  BY DEF Release
<1>3. Ids(reserved[b]) \subseteq ReservedIds
  BY DEF ReservedIds
<1>4. Returnable(b) = DOMAIN reserved[b]
  BY <1>3 DEF Returnable, IInv, OnePlace, Ids
<1>5. refs \in Seq(SampleRef) /\ Ids(refs) = Ids(reserved[b]) /\ Distinct(refs)
  <2>1. reserved[b] \in Seq(SampleRef) /\ Distinct(reserved[b])
    BY <1>2, SettleFacts
  <2>2. refs \in Subsequences(reserved[b], DOMAIN reserved[b])
    BY <1>4
  <2>3. /\ refs \in Seq(SampleRef)
        /\ Ids(refs) = {reserved[b][i].id : i \in DOMAIN reserved[b]}
        /\ Distinct(reserved[b]) => Distinct(refs)
    BY <2>1, <2>2, SubsequenceFacts
  <2>4. QED
    BY <2>1, <2>3 DEF Ids
<1>6. Ids(pending) \cap Ids(refs) = {}
  BY <1>3, <1>5 DEF IInv, OnePlace
<1>7. /\ pending' \in Seq(SampleRef)
      /\ Ids(pending') = Ids(pending) \cup Ids(reserved[b])
      /\ Distinct(pending')
  BY <1>1, <1>5, <1>6, ConcatIds DEF IInv, TypeOK, OnePlace
<1>8. TypeOK'
  BY <1>2, <1>7, SettleFacts DEF IInv, TypeOK
<1>9. \A c, d \in Batches : c # d => Ids(reserved'[c]) \cap Ids(reserved'[d]) = {}
  BY <1>2, SettleFacts DEF IInv, OnePlace
<1>10. OnePlace'
  BY <1>2, <1>7, <1>9, SettleFacts DEF IInv, OnePlace
<1>11. QED
  BY <1>2, <1>8, <1>10, SettleFacts DEF IInv

\* Steps that leave the queue's own variables alone.
LEMMA IdleIInv ==
  ASSUME IInv, UNCHANGED <<pending, reserved, acked, dropped, seen, nextBatch>>,
         now' \in Nat, policy' \in Nat
  PROVE  IInv'
<1>1. TypeOK'
  BY DEF IInv, TypeOK
<1>2. OnePlace'
  BY DEF IInv, OnePlace, ReservedIds
<1>3. FreshNumbers'
  BY DEF IInv, FreshNumbers
<1>4. QED
  BY <1>1, <1>2, <1>3 DEF IInv

LEMMA NextIInv == IInv /\ [Next]_vars => IInv'
<1> SUFFICES ASSUME IInv, [Next]_vars PROVE IInv'
  OBVIOUS
<1>1. now \in Nat /\ policy \in Nat
  BY DEF IInv, TypeOK
<1>2. CASE \E s \in Samples : Submit(s)
  BY <1>2, SubmitIInv
<1>3. CASE \E maxSequences \in 0..MaxSequences, maxTokens \in TokenBudgets :
             Reserve(maxSequences, maxTokens)
  BY <1>3, ReserveIInv
<1>4. CASE \E b \in Batches : Ack(b) \/ Release(b)
  BY <1>4, AckIInv, ReleaseIInv
<1>5. CASE Tick \/ AdvancePolicy
  BY <1>1, <1>5, IdleIInv DEF Tick, AdvancePolicy
<1>6. CASE UNCHANGED vars \/ \E s \in Samples : SubmitDuplicate(s)
  BY <1>1, <1>6, IdleIInv DEF vars, SubmitDuplicate
<1>7. QED
  BY <1>2, <1>3, <1>4, <1>5, <1>6 DEF Next

(***************************************************************************)
(* The inductive invariant: the types, the partition of the seen samples,  *)
(* and the emptiness of batch numbers not yet handed out, without which a  *)
(* new batch could overwrite an old one.                                   *)
(***************************************************************************)
THEOREM Invariance == Spec => []IInv
<1>1. QED
  BY InitIInv, NextIInv, PTL DEF Spec

\* The variables keep their types, for any number of samples and any limits.
THEOREM TypeCorrect == Spec => []TypeOK
<1>1. IInv => TypeOK
  BY DEF IInv
<1>2. QED
  BY <1>1, Invariance, PTL

(***************************************************************************)
(* A sample the queue has seen is always in exactly one place, so no       *)
(* sample is trained twice and no accepted sample vanishes.                *)
(***************************************************************************)
THEOREM SingleOwner == Spec => []OnePlace
<1>1. IInv => OnePlace
  BY DEF IInv
<1>2. QED
  BY <1>1, Invariance, PTL

(***************************************************************************)
(* A batch is made of samples that were fresh when it was reserved, no     *)
(* matter under which clock and policy version they had been admitted.     *)
(***************************************************************************)
THEOREM BatchesAreFresh == Spec => FreshBatches
<1> DEFINE Fresh == \A b \in Batches :
             reserved'[b] # reserved[b] =>
               \A i \in DOMAIN reserved'[b] : ~Stale(reserved'[b][i])
<1>1. ASSUME IInv, [Next]_vars PROVE Fresh
  <2>1. reserved \in [Batches -> Seq(SampleRef)]
    BY <1>1 DEF IInv, TypeOK
  <2>2. ASSUME NEW b \in Batches, Settle(b) PROVE Fresh
    BY <2>1, <2>2 DEF Settle
  <2>3. ASSUME NEW k, NEW m, Reserve(k, m) PROVE Fresh
    <3>1. CASE UNCHANGED reserved
      BY <3>1
    <3>2. ASSUME NEW n \in 0..Len(pending),
                 NEW refs \in Subsequences(pending, LiveBefore(n)),
                 reserved' = [reserved EXCEPT ![nextBatch] = refs]
          PROVE  Fresh
      <4>1. PICK f \in InOrder(LiveBefore(n)) : refs = [i \in DOMAIN f |-> pending[f[i]]]
        BY DEF Subsequences
      <4>2. \A i \in DOMAIN refs : ~Stale(refs[i])
        BY <4>1 DEF InOrder, LiveBefore
      <4>3. \A b \in Batches : reserved'[b] # reserved[b] => reserved'[b] = refs
        BY <2>1, <3>2
      <4>4. QED
        BY <4>2, <4>3
    <3>3. QED
      BY <2>3, <3>1, <3>2 DEF Reserve
  <2>4. CASE UNCHANGED reserved
    BY <2>4
  <2>5. QED
    BY <1>1, <2>2, <2>3, <2>4
       DEF Next, vars, Submit, SubmitRecord, SubmitDuplicate, Ack, Release, Tick, AdvancePolicy
<1>2. QED
  BY <1>1, Invariance, PTL DEF FreshBatches, Spec
-----------------------------------------------------------------------------
(***************************************************************************)
(* Which ids each call moves, from where to where.                         *)
(***************************************************************************)
LEMMA SubmitMoves ==
  ASSUME IInv, NEW s \in Samples, Submit(s)
  PROVE  /\ s \notin seen /\ seen' = seen \cup {s} /\ acked' = acked /\ reserved' = reserved
         /\ \/ /\ Ids(pending') = Ids(pending) \cup {s} /\ dropped' = dropped
               /\ HeldSlots < HighWatermark
            \/ Ids(pending') = Ids(pending) /\ dropped' = dropped \cup {s}
<1>1. PICK version \in 0..policy, created \in 0..now :
        SubmitRecord(Record(s, version, created))
  BY DEF Submit
<1> DEFINE ref == Record(s, version, created)
<1>2. ref \in SampleRef /\ ref.id = s
  BY QueueAssumption DEF SampleRef, Record, IInv, TypeOK
<1> HIDE DEF ref
<1>3. /\ s \notin seen /\ seen' = seen \cup {s} /\ acked' = acked /\ reserved' = reserved
      /\ \/ Admissible(ref) /\ pending' = Append(pending, ref) /\ dropped' = dropped
         \/ dropped' = dropped \cup {s} /\ pending' = pending
  BY <1>1, <1>2 DEF SubmitRecord, FirstSubmission, ref
<1>4. Ids(Append(pending, ref)) = Ids(pending) \cup {s}
  BY <1>2, AppendIds DEF IInv, TypeOK
<1>5. CASE Admissible(ref) /\ pending' = Append(pending, ref) /\ dropped' = dropped
  BY <1>3, <1>4, <1>5 DEF Admissible
<1>6. CASE dropped' = dropped \cup {s} /\ pending' = pending
  BY <1>3, <1>6
<1> QED BY <1>3, <1>5, <1>6

LEMMA ReserveMoves ==
  ASSUME IInv, NEW maxSequences, NEW maxTokens, Reserve(maxSequences, maxTokens)
  PROVE  /\ nextBatch \in Batches /\ acked' = acked /\ seen' = seen
         /\ Ids(reserved[nextBatch]) = {}
         /\ \E take, stale \in SUBSET Ids(pending) :
              /\ take \cap stale = {}
              /\ Ids(pending') = Ids(pending) \ (take \cup stale)
              /\ dropped' = dropped \cup stale
              /\ \A b \in Batches :
                   Ids(reserved'[b]) = IF b = nextBatch THEN take ELSE Ids(reserved[b])
<1>1. PICK n \in 0..Len(pending) :
        /\ pending' = SubSeq(pending, n + 1, Len(pending))
        /\ dropped' = dropped \cup {pending[i].id : i \in (1..n) \ LiveBefore(n)}
        /\ \/ /\ LiveBefore(n) = {}
              /\ UNCHANGED <<reserved, nextBatch>>
           \/ /\ LiveBefore(n) # {}
              /\ \E refs \in Subsequences(pending, LiveBefore(n)) :
                   reserved' = [reserved EXCEPT ![nextBatch] = refs]
              /\ nextBatch' = nextBatch + 1
  BY DEF Reserve
<1> DEFINE live  == LiveBefore(n)
           take  == {pending[i].id : i \in live}
           stale == {pending[i].id : i \in (1..n) \ live}
<1>2. nextBatch \in Batches /\ acked' = acked /\ seen' = seen
  BY DEF Reserve
<1>3. /\ pending \in Seq(SampleRef) /\ Distinct(pending)
      /\ Len(pending) \in Nat /\ DOMAIN pending = 1..Len(pending)
      /\ live \subseteq 1..n /\ 1..n \subseteq DOMAIN pending
  BY DEF IInv, TypeOK, OnePlace, LiveBefore
<1>4. Ids(pending') = {pending[i].id : i \in n+1..Len(pending)}
  BY <1>1, <1>3, SuffixIds
<1>5. take \in SUBSET Ids(pending) /\ stale \in SUBSET Ids(pending) /\ take \cap stale = {}
  BY <1>3 DEF Ids, Distinct
<1>6. Ids(pending') = Ids(pending) \ (take \cup stale)
  <2>1. DOMAIN pending = (n+1..Len(pending)) \cup live \cup ((1..n) \ live)
    BY <1>3
  <2>2. Ids(pending) = Ids(pending') \cup take \cup stale
    BY <1>4, <2>1 DEF Ids
  <2>3. Ids(pending') \cap (take \cup stale) = {}
    BY <1>3, <1>4 DEF Distinct
  <2> QED BY <2>2, <2>3
<1>7. dropped' = dropped \cup stale
  BY <1>1
<1>8. Ids(reserved[nextBatch]) = {} /\ reserved \in [Batches -> Seq(SampleRef)]
  <2>1. reserved[nextBatch] = <<>> /\ reserved \in [Batches -> Seq(SampleRef)]
    BY <1>2 DEF IInv, TypeOK, FreshNumbers, Batches
  <2> QED BY <2>1 DEF Ids
<1>9. \A b \in Batches : Ids(reserved'[b]) = IF b = nextBatch THEN take ELSE Ids(reserved[b])
  <2>1. CASE live = {} /\ reserved' = reserved
    BY <1>8, <2>1
  <2>2. ASSUME NEW refs \in Subsequences(pending, live),
               reserved' = [reserved EXCEPT ![nextBatch] = refs]
        PROVE  \A b \in Batches :
                 Ids(reserved'[b]) = IF b = nextBatch THEN take ELSE Ids(reserved[b])
    <3>1. Ids(refs) = take
      BY <1>3, SubsequenceFacts
    <3>2. \A b \in Batches : reserved'[b] = IF b = nextBatch THEN refs ELSE reserved[b]
      BY <1>2, <1>8, <2>2
    <3> QED BY <3>1, <3>2
  <2> QED BY <1>1, <2>1, <2>2
<1> HIDE DEF take, stale
<1> QED BY <1>2, <1>5, <1>6, <1>7, <1>8, <1>9

LEMMA AckMoves ==
  ASSUME IInv, NEW b \in Batches, Ack(b)
  PROVE  /\ Ids(reserved[b]) # {}
         /\ Ids(pending') = Ids(pending) /\ dropped' = dropped /\ seen' = seen
         /\ acked' = acked \cup Ids(reserved[b])
         /\ \A c \in Batches : Ids(reserved'[c]) = IF c = b THEN {} ELSE Ids(reserved[c])
<1>1. reserved[b] \in Seq(SampleRef) /\ reserved[b] # <<>>
  BY DEF Ack, Settle, Live, IInv, TypeOK
<1>2. Ids(reserved[b]) # {}
  <2>1. 1 \in DOMAIN reserved[b]
    BY <1>1
  <2> QED BY <2>1 DEF Ids
<1> QED BY <1>2, SettleFacts DEF Ack

LEMMA ReleaseMoves ==
  ASSUME IInv, NEW b \in Batches, Release(b)
  PROVE  /\ Ids(reserved[b]) # {}
         /\ Ids(pending') = Ids(pending) \cup Ids(reserved[b])
         /\ acked' = acked /\ dropped' = dropped /\ seen' = seen
         /\ \A c \in Batches : Ids(reserved'[c]) = IF c = b THEN {} ELSE Ids(reserved[c])
<1>1. reserved[b] \in Seq(SampleRef) /\ reserved[b] # <<>> /\ Settle(b)
      /\ pending \in Seq(SampleRef)
  BY DEF Release, Settle, Live, IInv, TypeOK
<1>2. Ids(reserved[b]) # {}
  <2>1. 1 \in DOMAIN reserved[b]
    BY <1>1
  <2> QED BY <2>1 DEF Ids
<1>3. Ids(pending') = Ids(pending) \cup Ids(reserved[b])
  <2>1. PICK refs \in Subsequences(reserved[b], Returnable(b)) : pending' = pending \o refs
    BY DEF Release
  <2>2. Returnable(b) = DOMAIN reserved[b]
    BY DEF Returnable, IInv, OnePlace, ReservedIds, Ids
  <2>3. refs \in Seq(SampleRef) /\ Ids(refs) = Ids(reserved[b])
    <3>1. refs \in Subsequences(reserved[b], DOMAIN reserved[b])
      BY <2>2
    <3>2. refs \in Seq(SampleRef) /\ Ids(refs) = {reserved[b][i].id : i \in DOMAIN reserved[b]}
      BY <1>1, <3>1, SubsequenceFacts
    <3> QED BY <3>2 DEF Ids
  <2> QED BY <1>1, <2>1, <2>3, ConcatIds
<1> QED BY <1>1, <1>2, <1>3, SettleFacts DEF Release

-----------------------------------------------------------------------------
(***************************************************************************)
(* The queue implements the ledger.  A sample's place is where its id is;  *)
(* by OnePlace there is only one such place, so that BatchOf, a CHOOSE, is *)
(* determined.                                                             *)
(***************************************************************************)
Where(s, p) ==
  \/ p = <<"pending", 0>> /\ s \in Ids(pending)
  \/ \E b \in Batches : p = <<"batch", b>> /\ s \in Ids(reserved[b])
  \/ p = <<"acked", 0>> /\ s \in acked
  \/ p = <<"dropped", 0>> /\ s \in dropped
  \/ p = <<"new", 0>> /\ s \notin seen

LEMMA PlaceIsWhere ==
  ASSUME IInv, NEW s \in Samples
  PROVE  \A p : PlaceOf(s) = p <=> Where(s, p)
<1>1. /\ ReservedIds = UNION {Ids(reserved[b]) : b \in Batches}
      /\ \A b, c \in Batches : b # c => Ids(reserved[b]) \cap Ids(reserved[c]) = {}
      /\ Ids(pending) \cap ReservedIds = {} /\ acked \cap dropped = {}
      /\ (acked \cup dropped) \cap (Ids(pending) \cup ReservedIds) = {}
      /\ seen = Ids(pending) \cup ReservedIds \cup acked \cup dropped
  BY DEF IInv, OnePlace, ReservedIds
<1>2. CASE s \in Ids(pending)
  <2>1. /\ s \notin ReservedIds /\ s \notin acked /\ s \notin dropped /\ s \in seen
        /\ \A b \in Batches : s \notin Ids(reserved[b])
    BY <1>1, <1>2
  <2>2. PlaceOf(s) = <<"pending", 0>>
    BY <1>2, <2>1 DEF PlaceOf
  <2> QED BY <1>2, <2>1, <2>2 DEF Where
<1>3. CASE s \in ReservedIds
  <2>1. PICK b \in Batches : s \in Ids(reserved[b])
    BY <1>3 DEF ReservedIds
  <2>2. \A c \in Batches : s \in Ids(reserved[c]) => c = b
    BY <1>1, <2>1
  <2>3. BatchOf(s) = b
    BY <2>1, <2>2 DEF BatchOf
  <2>4. s \notin Ids(pending) /\ s \notin acked /\ s \notin dropped /\ s \in seen
    BY <1>1, <1>3
  <2>5. PlaceOf(s) = <<"batch", b>>
    BY <1>3, <2>3, <2>4 DEF PlaceOf
  <2> QED BY <2>1, <2>2, <2>4, <2>5 DEF Where
<1>4. CASE s \in acked
  <2>1. s \notin Ids(pending) /\ s \notin ReservedIds /\ s \notin dropped /\ s \in seen
    BY <1>1, <1>4
  <2>2. PlaceOf(s) = <<"acked", 0>>
    BY <1>4, <2>1 DEF PlaceOf
  <2> QED BY <1>1, <1>4, <2>1, <2>2 DEF Where
<1>5. CASE s \in dropped
  <2>1. s \notin Ids(pending) /\ s \notin ReservedIds /\ s \notin acked /\ s \in seen
    BY <1>1, <1>5
  <2>2. PlaceOf(s) = <<"dropped", 0>>
    BY <1>5, <2>1 DEF PlaceOf
  <2> QED BY <1>1, <1>5, <2>1, <2>2 DEF Where
<1>6. CASE s \notin seen
  <2>1. s \notin Ids(pending) /\ s \notin ReservedIds /\ s \notin acked /\ s \notin dropped
    BY <1>1, <1>6
  <2>2. PlaceOf(s) = <<"new", 0>>
    BY <2>1 DEF PlaceOf
  <2> QED BY <1>1, <1>6, <2>1, <2>2 DEF Where
<1> QED BY <1>1, <1>2, <1>3, <1>4, <1>5, <1>6

\* The same of the current and of the next state of a step.
LEMMA PlacesNow == IInv => \A s \in Samples : \A p : PlaceOf(s) = p <=> Where(s, p)
  BY PlaceIsWhere

LEMMA PlacesNext == IInv' => (\A s \in Samples : \A p : PlaceOf(s) = p <=> Where(s, p))'
  BY PlacesNow, PTL

LEMMA WhereEach ==
  ASSUME NEW s
  PROVE  /\ Where(s, Ledger!New) <=> s \notin seen
         /\ Where(s, Ledger!Pending) <=> s \in Ids(pending)
         /\ \A b \in Batches : Where(s, Ledger!Batch(b)) <=> s \in Ids(reserved[b])
<1>1. /\ Where(s, Ledger!New) <=> s \notin seen
      /\ Where(s, Ledger!Pending) <=> s \in Ids(pending)
  BY DEF Where, Ledger!New, Ledger!Pending
<1>2. ASSUME NEW b \in Batches
      PROVE  Where(s, Ledger!Batch(b)) <=> s \in Ids(reserved[b])
  BY DEF Where, Ledger!Batch
<1> QED BY <1>1, <1>2

\* The ledger's page of a place holds the samples found there.
LEMMA Pages ==
  ASSUME IInv
  PROVE  /\ \A s \in Samples : s \in Ledger!At(Ledger!New) <=> s \notin seen
         /\ Ledger!At(Ledger!Pending) = Ids(pending)
         /\ \A b \in Batches : Ledger!At(Ledger!Batch(b)) = Ids(reserved[b])
<1>1. \A s \in Samples : \A p : PlaceOf(s) = p <=> Where(s, p)
  BY PlacesNow
<1>2. /\ Ids(pending) \subseteq Samples
      /\ \A b \in Batches : Ids(reserved[b]) \subseteq Samples
  BY IdsAreSamples DEF IInv, TypeOK, Ids
<1>3. \A s \in Samples : s \in Ledger!At(Ledger!New) <=> s \notin seen
  BY <1>1, WhereEach DEF Ledger!At
<1>4. Ledger!At(Ledger!Pending) = Ids(pending)
  BY <1>1, <1>2, WhereEach DEF Ledger!At
<1>5. ASSUME NEW b \in Batches PROVE Ledger!At(Ledger!Batch(b)) = Ids(reserved[b])
  BY <1>1, <1>2, WhereEach DEF Ledger!At
<1> QED BY <1>3, <1>4, <1>5

LEMMA LedgerInit == Init => Ledger!Init
<1> SUFFICES ASSUME Init, NEW s \in Samples PROVE PlaceOf(s) = <<"new", 0>>
  BY DEF Ledger!Init, Ledger!New
<1>1. IInv /\ s \notin seen
  BY InitIInv DEF Init
<1> QED BY <1>1, PlacesNow DEF Where

\* A sample whose memberships a step leaves alone keeps its place.
LEMMA PlaceKept ==
  ASSUME IInv, IInv', NEW s \in Samples,
         s \in Ids(pending') <=> s \in Ids(pending),
         \A b \in Batches : s \in Ids(reserved'[b]) <=> s \in Ids(reserved[b]),
         s \in acked' <=> s \in acked,
         s \in dropped' <=> s \in dropped,
         s \in seen' <=> s \in seen
  PROVE  PlaceOf(s)' = PlaceOf(s)
<1>1. Where(s, PlaceOf(s))
  BY PlacesNow
<1>2. \A p : Where(s, p) => Where(s, p)'
  BY DEF Where
<1> QED BY <1>1, <1>2, PlacesNext

LEMMA LedgerSubmit ==
  ASSUME IInv, IInv', NEW s \in Samples, Submit(s)
  PROVE  Ledger!Judge(s)
<1>1. /\ s \notin seen /\ seen' = seen \cup {s} /\ acked' = acked /\ reserved' = reserved
      /\ \/ Ids(pending') = Ids(pending) \cup {s} /\ dropped' = dropped
         \/ Ids(pending') = Ids(pending) /\ dropped' = dropped \cup {s}
  BY SubmitMoves
<1>2. ASSUME NEW t \in Samples, t # s PROVE PlaceOf(t)' = PlaceOf(t)
  BY <1>1, <1>2, PlaceKept
<1>3. PICK verdict \in {Ledger!Pending, Ledger!Dropped} : PlaceOf(s)' = verdict
  <2>1. CASE s \in Ids(pending')
    <3>1. Where(s, Ledger!Pending)'
      BY <2>1 DEF Where, Ledger!Pending
    <3> QED BY <3>1, PlacesNext
  <2>2. CASE s \in dropped'
    <3>1. Where(s, Ledger!Dropped)'
      BY <2>2 DEF Where, Ledger!Dropped
    <3> QED BY <3>1, PlacesNext
  <2> QED BY <1>1, <2>1, <2>2
<1>4. Ledger!Move({s}, verdict)
  BY <1>2, <1>3 DEF Ledger!Move
<1>5. s \in Ledger!At(Ledger!New)
  BY <1>1, Pages
<1> QED BY <1>3, <1>4, <1>5 DEF Ledger!Judge

LEMMA LedgerReserve ==
  ASSUME IInv, IInv', NEW k, NEW m, Reserve(k, m)
  PROVE  \E b \in Batches : \E take, stale \in SUBSET Ledger!At(Ledger!Pending) :
           Ledger!Collect(b, take, stale)
<1>0. PICK b : b = nextBatch
  OBVIOUS
<1>1. /\ b \in Batches /\ acked' = acked /\ seen' = seen /\ Ids(reserved[b]) = {}
      /\ \E take, stale \in SUBSET Ids(pending) :
           /\ take \cap stale = {}
           /\ Ids(pending') = Ids(pending) \ (take \cup stale)
           /\ dropped' = dropped \cup stale
           /\ \A c \in Batches : Ids(reserved'[c]) = IF c = b THEN take ELSE Ids(reserved[c])
  BY <1>0, ReserveMoves
<1>2. PICK take \in SUBSET Ids(pending), stale \in SUBSET Ids(pending) :
           /\ take \cap stale = {}
           /\ Ids(pending') = Ids(pending) \ (take \cup stale)
           /\ dropped' = dropped \cup stale
           /\ \A c \in Batches : Ids(reserved'[c]) = IF c = b THEN take ELSE Ids(reserved[c])
  BY <1>1
<1>3. /\ Ledger!At(Ledger!Pending) = Ids(pending)
      /\ Ledger!At(Ledger!Batch(b)) = {}
  BY <1>1, Pages
<1>4. ASSUME NEW t \in take PROVE PlaceOf(t)' = Ledger!Batch(b)
  <2>1. t \in Samples
    BY IdsAreSamples DEF IInv, TypeOK, Ids
  <2>2. Where(t, Ledger!Batch(b))'
    BY <1>1, <1>2 DEF Where, Ledger!Batch
  <2> QED BY <2>1, <2>2, PlacesNext
<1>5. ASSUME NEW t \in stale PROVE PlaceOf(t)' = Ledger!Dropped
  <2>1. t \in Samples
    BY IdsAreSamples DEF IInv, TypeOK, Ids
  <2>2. Where(t, Ledger!Dropped)'
    BY <1>2 DEF Where, Ledger!Dropped
  <2> QED BY <2>1, <2>2, PlacesNext
<1>6. ASSUME NEW t \in Samples, t \notin take, t \notin stale
      PROVE  PlaceOf(t)' = PlaceOf(t)
  <2>1. /\ t \in Ids(pending') <=> t \in Ids(pending)
        /\ t \in dropped' <=> t \in dropped
        /\ \A c \in Batches : t \in Ids(reserved'[c]) <=> t \in Ids(reserved[c])
    BY <1>1, <1>2, <1>6
  <2> QED BY <1>1, <2>1, PlaceKept
<1>7. ASSUME NEW t \in Samples
      PROVE  PlaceOf(t)' = CASE t \in take  -> Ledger!Batch(b)
                             [] t \in stale -> Ledger!Dropped
                             [] OTHER       -> PlaceOf(t)
  <2>1. ~ (t \in take /\ t \in stale)
    BY <1>2
  <2> QED BY <1>4, <1>5, <1>6, <2>1
<1>8. Ledger!Collect(b, take, stale)
  BY <1>2, <1>3, <1>7 DEF Ledger!Collect
<1> QED BY <1>1, <1>3, <1>8

LEMMA LedgerAck ==
  ASSUME IInv, IInv', NEW b \in Batches, Ack(b)
  PROVE  Ledger!Consume(b)
<1>1. /\ Ids(reserved[b]) # {}
      /\ Ids(pending') = Ids(pending) /\ dropped' = dropped /\ seen' = seen
      /\ acked' = acked \cup Ids(reserved[b])
      /\ \A c \in Batches : Ids(reserved'[c]) = IF c = b THEN {} ELSE Ids(reserved[c])
  BY AckMoves
<1>2. Ledger!At(Ledger!Batch(b)) = Ids(reserved[b])
  BY Pages
<1>3. ASSUME NEW t \in Samples, t \in Ids(reserved[b]) PROVE PlaceOf(t)' = Ledger!Acked
  <2>1. Where(t, Ledger!Acked)'
    BY <1>1, <1>3 DEF Where, Ledger!Acked
  <2> QED BY <2>1, PlacesNext
<1>4. ASSUME NEW t \in Samples, t \notin Ids(reserved[b]) PROVE PlaceOf(t)' = PlaceOf(t)
  <2>1. \A c \in Batches : t \in Ids(reserved'[c]) <=> t \in Ids(reserved[c])
    BY <1>1, <1>4
  <2> QED BY <1>1, <1>4, <2>1, PlaceKept
<1>5. Ledger!Move(Ids(reserved[b]), Ledger!Acked)
  BY <1>3, <1>4 DEF Ledger!Move
<1> QED BY <1>1, <1>2, <1>5 DEF Ledger!Consume

LEMMA LedgerRelease ==
  ASSUME IInv, IInv', NEW b \in Batches, Release(b)
  PROVE  Ledger!HandBack(b)
<1>1. /\ Ids(reserved[b]) # {}
      /\ Ids(pending') = Ids(pending) \cup Ids(reserved[b])
      /\ acked' = acked /\ dropped' = dropped /\ seen' = seen
      /\ \A c \in Batches : Ids(reserved'[c]) = IF c = b THEN {} ELSE Ids(reserved[c])
  BY ReleaseMoves
<1>2. Ledger!At(Ledger!Batch(b)) = Ids(reserved[b])
  BY Pages
<1>3. ASSUME NEW t \in Samples, t \in Ids(reserved[b]) PROVE PlaceOf(t)' = Ledger!Pending
  <2>1. Where(t, Ledger!Pending)'
    BY <1>1, <1>3 DEF Where, Ledger!Pending
  <2> QED BY <2>1, PlacesNext
<1>4. ASSUME NEW t \in Samples, t \notin Ids(reserved[b]) PROVE PlaceOf(t)' = PlaceOf(t)
  <2>1. /\ t \in Ids(pending') <=> t \in Ids(pending)
        /\ \A c \in Batches : t \in Ids(reserved'[c]) <=> t \in Ids(reserved[c])
    BY <1>1, <1>4
  <2> QED BY <1>1, <1>4, <2>1, PlaceKept
<1>5. Ledger!Move(Ids(reserved[b]), Ledger!Pending)
  BY <1>3, <1>4 DEF Ledger!Move
<1> QED BY <1>1, <1>2, <1>5 DEF Ledger!HandBack

(***************************************************************************)
(* The queue, step by step, keeps the ledger of SampleLedger: a submission *)
(* is the ledger's Judge, a reservation its Collect, ack_batch its         *)
(* Consume, release_batch its HandBack, and every other step a stutter.    *)
(***************************************************************************)
THEOREM QueueKeepsLedger == Spec => ImplementsLedger
<1> DEFINE places == [s \in Samples |-> PlaceOf(s)]
<1>1. ASSUME IInv, IInv', [Next]_vars PROVE [Ledger!Next]_places
  <2>1. ASSUME NEW s \in Samples, Submit(s) PROVE Ledger!Next
    BY <1>1, <2>1, LedgerSubmit DEF Ledger!Next
  <2>2. ASSUME NEW k, NEW m, Reserve(k, m) PROVE Ledger!Next
    <3>1. \E b \in Batches : \E take, stale \in SUBSET Ledger!At(Ledger!Pending) :
            Ledger!Collect(b, take, stale)
      BY <1>1, <2>2, LedgerReserve
    <3> QED BY <3>1 DEF Ledger!Next, Ledger!Batches, Batches
  <2>3. ASSUME NEW b \in Batches, Ack(b) PROVE Ledger!Next
    <3>1. Ledger!Consume(b)
      BY <1>1, <2>3, LedgerAck
    <3> QED BY <3>1 DEF Ledger!Next, Ledger!Batches, Batches
  <2>4. ASSUME NEW b \in Batches, Release(b) PROVE Ledger!Next
    <3>1. Ledger!HandBack(b)
      BY <1>1, <2>4, LedgerRelease
    <3> QED BY <3>1 DEF Ledger!Next, Ledger!Batches, Batches
  <2>5. ASSUME UNCHANGED <<pending, reserved, acked, dropped, seen>> PROVE places' = places
    BY <1>1, <2>5, PlaceKept
  <2>6. CASE Tick \/ AdvancePolicy \/ UNCHANGED vars \/ \E s \in Samples : SubmitDuplicate(s)
    <3>1. UNCHANGED <<pending, reserved, acked, dropped, seen>>
      BY <2>6 DEF Tick, AdvancePolicy, SubmitDuplicate, vars
    <3> QED BY <2>5, <3>1
  <2> HIDE DEF places
  <2> QED BY <1>1, <2>1, <2>2, <2>3, <2>4, <2>6 DEF Next
<1>2. QED
  BY <1>1, LedgerInit, Invariance, PTL DEF ImplementsLedger, Ledger!Spec, Spec

-----------------------------------------------------------------------------
(***************************************************************************)
(* How many samples the queue holds.  A batch is no longer than its caller *)
(* asked for, and the scan that built it is an iteration: the argument     *)
(* takes the least prefix of the queue that holds the whole selection.     *)
(***************************************************************************)
LEMMA LeastElement ==
  ASSUME NEW T \in SUBSET Nat, T # {}
  PROVE  \E x \in T : \A y \in T : x <= y
<1> DEFINE R == {ss \in Nat \X Nat : ss[1] < ss[2]}
<1>1. IsWellFoundedOn(R, Nat)
  BY NatLessThanWellFounded DEF OpToRel
<1> HIDE DEF R
<1>2. PICK x \in T : \A y \in T : ~ (<<y, x>> \in R)
  BY <1>1, WFMin
<1>3. \A y \in T : ~ (y < x)
  BY <1>2 DEF R
<1> QED BY <1>3

LEMMA CountTo ==
  ASSUME NEW n \in Nat
  PROVE  IsFiniteSet(1..n) /\ Cardinality(1..n) = n
<1>1. 1 \in Int /\ n \in Int
  OBVIOUS
<1>2. IsFiniteSet(1..n) /\ Cardinality(1..n) = IF 1 > n THEN 0 ELSE n - 1 + 1
  BY <1>1, FS_Interval, Zenon
<1>3. (IF 1 > n THEN 0 ELSE n - 1 + 1) = n
  OBVIOUS
<1> QED BY <1>2, <1>3

\* What a scan selects never outgrows the caller's max_sequences.
LEMMA SelectionFits ==
  ASSUME NEW n \in Nat, NEW k \in Nat, NEW m, ScansExactly(n, k, m)
  PROVE  Cardinality(LiveBefore(n)) <= k
<1> DEFINE T == {i \in 0..n : LiveBefore(i) = LiveBefore(n)}
<1>1. PICK i \in T : \A j \in T : i <= j
  <2>1. n \in T /\ T \in SUBSET Nat
    OBVIOUS
  <2> HIDE DEF T
  <2> QED BY <2>1, LeastElement
<1>2. i \in 0..n /\ LiveBefore(i) = LiveBefore(n)
  BY <1>1
<1>3. CASE i = 0
  <2>1. LiveBefore(i) = {}
    BY <1>3 DEF LiveBefore
  <2> QED BY <1>2, <2>1, FS_EmptySet
<1>4. CASE i # 0
  <2>1. i - 1 \in 0..n /\ i \in 1..n /\ i - 1 \notin T
    BY <1>1, <1>2, <1>4
  <2>2. LiveBefore(i - 1) # LiveBefore(i)
    BY <1>2, <2>1
  <2> HIDE DEF T
  <2>3. 1..i = (1..i - 1) \cup {i}
    BY <2>1
  <2>4. LiveBefore(i) = LiveBefore(i - 1) \cup {i} /\ ~Stale(pending[i])
    BY <2>2, <2>3 DEF LiveBefore
  <2>5. i \notin LiveBefore(i - 1) /\ LiveBefore(i - 1) \in SUBSET (1..i - 1)
    BY <2>1 DEF LiveBefore
  <2>6. IsFiniteSet(LiveBefore(i - 1)) /\ Cardinality(LiveBefore(i - 1)) \in Nat
    <3>1. IsFiniteSet(1..i - 1)
      BY <2>1, FS_Interval
    <3> QED BY <2>5, <3>1, FS_Subset, FS_CardinalityType
  <2>7. Cardinality(LiveBefore(i)) = Cardinality(LiveBefore(i - 1)) + 1
    BY <2>4, <2>5, <2>6, FS_AddElement
  <2>8. ~ (Cardinality(LiveBefore(i - 1)) >= k)
    BY <2>1, <2>4 DEF ScansExactly, NoRoomFor
  <2> QED BY <1>2, <2>6, <2>7, <2>8
<1> QED BY <1>3, <1>4

LEMMA SubsequenceLength ==
  ASSUME NEW refs \in Seq(SampleRef), NEW P \in SUBSET DOMAIN refs,
         NEW sub \in Subsequences(refs, P)
  PROVE  Len(sub) = Cardinality(P)
<1>1. Cardinality(P) \in Nat
  <2>1. P \in SUBSET (1..Len(refs)) /\ Len(refs) \in Nat
    OBVIOUS
  <2>2. IsFiniteSet(1..Len(refs))
    BY <2>1, CountTo
  <2> QED BY <2>1, <2>2, FS_Subset, FS_CardinalityType
<1>2. PICK f \in [1..Cardinality(P) -> P] : sub = [i \in DOMAIN f |-> refs[f[i]]]
  BY DEF Subsequences, InOrder
<1>3. DOMAIN sub = 1..Cardinality(P)
  BY <1>2
<1>4. sub \in Seq(SampleRef)
  BY SubsequenceFacts
<1> QED BY <1>1, <1>3, <1>4, LenProperties

BatchesSmall == \A b \in Batches : Len(reserved[b]) <= MaxSequences

LEMMA ReserveSmall ==
  ASSUME IInv, BatchesSmall, NEW k \in 0..MaxSequences, NEW m, Reserve(k, m)
  PROVE  BatchesSmall'
<1>1. CASE UNCHANGED reserved
  BY <1>1 DEF BatchesSmall
<1>2. ASSUME NEW n \in 0..Len(pending), ScansExactly(n, k, m),
             NEW refs \in Subsequences(pending, LiveBefore(n)),
             reserved' = [reserved EXCEPT ![nextBatch] = refs]
      PROVE  BatchesSmall'
  <2>1. /\ pending \in Seq(SampleRef) /\ reserved \in [Batches -> Seq(SampleRef)]
        /\ n \in Nat /\ k \in Nat /\ MaxSequences \in Nat
    BY QueueAssumption DEF IInv, TypeOK
  <2>2. LiveBefore(n) \in SUBSET DOMAIN pending
    BY <2>1 DEF LiveBefore
  <2>3. Len(refs) = Cardinality(LiveBefore(n)) /\ refs \in Seq(SampleRef)
    BY <1>2, <2>1, <2>2, SubsequenceLength, SubsequenceFacts
  <2>4. Cardinality(LiveBefore(n)) <= k
    BY <1>2, <2>1, SelectionFits
  <2>5. Len(refs) <= MaxSequences
    BY <2>1, <2>3, <2>4
  <2>6. \A b \in Batches : reserved'[b] = IF b = nextBatch THEN refs ELSE reserved[b]
    BY <1>2, <2>1
  <2> QED BY <2>5, <2>6 DEF BatchesSmall
<1> QED BY <1>1, <1>2 DEF Reserve

LEMMA SettleSmall ==
  ASSUME IInv, BatchesSmall, NEW b \in Batches, Settle(b)
  PROVE  BatchesSmall'
<1>1. /\ \A c \in Batches : reserved'[c] = IF c = b THEN <<>> ELSE reserved[c]
      /\ MaxSequences \in Nat /\ 0 <= MaxSequences
  BY QueueAssumption DEF IInv, TypeOK, Settle
<1> QED BY <1>1 DEF BatchesSmall

\* Every batch counts for at most MaxSequences samples.
LEMMA Holdings ==
  ASSUME IInv, BatchesSmall
  PROVE  LET L == {b \in Batches : Live(b)}
         IN  /\ IsFiniteSet(Ids(pending) \cup ReservedIds)
             /\ Cardinality(L) \in Nat
             /\ Unsettled <= Len(pending) + Cardinality(L) * MaxSequences
<1> DEFINE L == {b \in Batches : Live(b)}
           D == {d \in L \X (1..MaxSequences) : d[2] \in DOMAIN reserved[d[1]]}
           g == [d \in D |-> reserved[d[1]][d[2]].id]
           q == [i \in 1..Len(pending) |-> pending[i].id]
<1>1. /\ pending \in Seq(SampleRef) /\ Len(pending) \in Nat
      /\ reserved \in [Batches -> Seq(SampleRef)]
      /\ MaxSequences \in Nat /\ MaxBatches \in Nat
  BY QueueAssumption DEF IInv, TypeOK
<1>2. IsFiniteSet(L) /\ Cardinality(L) \in Nat
  <2>1. IsFiniteSet(Batches) /\ L \in SUBSET Batches
    BY <1>1, FS_Interval DEF Batches
  <2> QED BY <2>1, FS_Subset, FS_CardinalityType
<1>3. /\ IsFiniteSet(L \X (1..MaxSequences))
      /\ Cardinality(L \X (1..MaxSequences)) = Cardinality(L) * MaxSequences
  <2>1. IsFiniteSet(1..MaxSequences) /\ Cardinality(1..MaxSequences) = MaxSequences
    BY <1>1, CountTo
  <2> HIDE DEF L
  <2> QED BY <1>2, <2>1, FS_Product
<1>4. /\ IsFiniteSet(D) /\ Cardinality(D) \in Nat
      /\ Cardinality(D) <= Cardinality(L) * MaxSequences
  <2>1. D \in SUBSET (L \X (1..MaxSequences))
    OBVIOUS
  <2> HIDE DEF D, L
  <2> QED BY <1>3, <2>1, FS_Subset, FS_CardinalityType
<1>5. /\ IsFiniteSet(ReservedIds) /\ Cardinality(ReservedIds) \in Nat
      /\ Cardinality(ReservedIds) <= Cardinality(D)
  <2>1. ASSUME NEW d \in D PROVE g[d] \in ReservedIds
    <3>1. d[1] \in Batches /\ d[2] \in DOMAIN reserved[d[1]] /\ g[d] = reserved[d[1]][d[2]].id
      OBVIOUS
    <3> QED BY <3>1 DEF ReservedIds, Ids
  <2>2. ASSUME NEW s \in ReservedIds PROVE \E d \in D : g[d] = s
    <3>1. PICK b \in Batches : s \in Ids(reserved[b])
      BY DEF ReservedIds
    <3>2. PICK i \in DOMAIN reserved[b] : reserved[b][i].id = s
      BY <3>1 DEF Ids
    <3>3. reserved[b] \in Seq(SampleRef) /\ reserved[b] # <<>> /\ Len(reserved[b]) <= MaxSequences
      BY <1>1, <3>2 DEF BatchesSmall
    <3>4. i \in 1..MaxSequences
      BY <1>1, <3>2, <3>3
    <3>5. <<b, i>> \in D
      BY <3>2, <3>3, <3>4 DEF Live
    <3>6. g[<<b, i>>] = s
      BY <3>2, <3>5
    <3> QED BY <3>5, <3>6
  <2>3. g \in [D -> ReservedIds]
    <3>1. g = [d \in D |-> g[d]]
      OBVIOUS
    <3> HIDE DEF g, D
    <3> QED BY <2>1, <3>1
  <2> HIDE DEF g, D
  <2>4. g \in Surjection(D, ReservedIds)
    BY <2>2, <2>3, Fun_IsSurj
  <2> QED BY <1>4, <2>4, FS_Surjection, FS_CardinalityType
<1>6. /\ IsFiniteSet(Ids(pending)) /\ Cardinality(Ids(pending)) \in Nat
      /\ Cardinality(Ids(pending)) <= Len(pending)
  <2>1. q \in [1..Len(pending) -> Ids(pending)]
    BY <1>1 DEF Ids
  <2>2. \A s \in Ids(pending) : \E i \in 1..Len(pending) : q[i] = s
    BY <1>1 DEF Ids
  <2>3. IsFiniteSet(1..Len(pending)) /\ Cardinality(1..Len(pending)) = Len(pending)
    BY <1>1, CountTo
  <2> HIDE DEF q
  <2>4. q \in Surjection(1..Len(pending), Ids(pending))
    BY <2>1, <2>2, Fun_IsSurj
  <2> QED BY <2>3, <2>4, FS_Surjection, FS_CardinalityType
<1>7. /\ IsFiniteSet(Ids(pending) \cup ReservedIds)
      /\ Unsettled <= Cardinality(Ids(pending)) + Cardinality(ReservedIds)
  <2>1. /\ IsFiniteSet(Ids(pending) \cup ReservedIds)
        /\ Unsettled = Cardinality(Ids(pending)) + Cardinality(ReservedIds)
                          - Cardinality(Ids(pending) \cap ReservedIds)
    BY <1>5, <1>6, FS_Union DEF Unsettled
  <2>2. Cardinality(Ids(pending) \cap ReservedIds) \in Nat
    BY <1>6, FS_Intersection, FS_CardinalityType
  <2> QED BY <1>5, <1>6, <2>1, <2>2
<1>8. Unsettled \in Nat /\ Cardinality(L) * MaxSequences \in Nat
  <2>1. Unsettled \in Nat
    BY <1>7, FS_CardinalityType DEF Unsettled
  <2> HIDE DEF L
  <2> QED BY <1>1, <1>2, <2>1
<1> HIDE DEF D
<1>9. Unsettled <= Len(pending) + Cardinality(L) * MaxSequences
  <2> HIDE DEF L
  <2> QED BY <1>1, <1>4, <1>5, <1>6, <1>7, <1>8
<1> QED BY <1>2, <1>7, <1>9

LEMMA SlotsBoundSamples ==
  ASSUME NEW p \in Nat, NEW l \in Nat, NEW k \in Nat \ {0}, NEW h \in Nat \ {0},
         p + l < h
  PROVE  p + l * k <= k * (h - 1)
<1>1. p + l <= h - 1 /\ p + l \in Nat /\ h - 1 \in Nat
  OBVIOUS
<1>2. PICK r \in Nat : h - 1 = p + l + r
  <2>1. (h - 1) - (p + l) \in Nat /\ h - 1 = p + l + ((h - 1) - (p + l))
    BY <1>1
  <2> QED BY <2>1
<1>3. PICK j \in Nat : k = j + 1
  <2>1. k - 1 \in Nat /\ k = (k - 1) + 1
    OBVIOUS
  <2> QED BY <2>1
<1>4. k * (p + l + r) = p + j * p + l * k + k * r
  BY <1>3
<1>5. j * p \in Nat /\ k * r \in Nat /\ l * k \in Nat
  BY <1>3
<1> QED BY <1>2, <1>4, <1>5

Bounded == BatchesSmall /\ UnsettledBounded

LEMMA InitBounded == Init => Bounded
<1> SUFFICES ASSUME Init PROVE Bounded
  OBVIOUS
<1>1. IInv /\ MaxSequences \in Nat \ {0} /\ HighWatermark \in Nat \ {0}
  BY InitIInv, QueueAssumption
<1>2. Ids(pending) \cup ReservedIds = {}
  BY DEF Init, Ids, ReservedIds
<1>3. Unsettled = 0
  BY <1>2, FS_EmptySet DEF Unsettled
<1>4. MaxSequences * (HighWatermark - 1) \in Nat
  BY <1>1
<1>5. BatchesSmall
  BY <1>1 DEF Init, BatchesSmall
<1> QED BY <1>3, <1>4, <1>5 DEF Bounded, UnsettledBounded

\* A step that takes no sample in cannot raise the number held.
LEMMA FewerHeld ==
  ASSUME IInv, Bounded,
         Ids(pending') \subseteq Ids(pending) \cup ReservedIds,
         \A b \in Batches : Ids(reserved'[b]) \subseteq Ids(pending) \cup ReservedIds
  PROVE  UnsettledBounded'
<1>1. IsFiniteSet(Ids(pending) \cup ReservedIds)
  BY Holdings DEF Bounded
<1>2. (Ids(pending) \cup ReservedIds)' \in SUBSET (Ids(pending) \cup ReservedIds)
  BY DEF ReservedIds
<1>3. /\ Unsettled' <= Unsettled /\ Unsettled' \in Nat /\ Unsettled \in Nat
  BY <1>1, <1>2, FS_Subset, FS_CardinalityType DEF Unsettled
<1>4. MaxSequences * (HighWatermark - 1) + 1 \in Nat
  BY QueueAssumption
<1> QED BY <1>3, <1>4 DEF Bounded, UnsettledBounded

LEMMA SubmitBounded ==
  ASSUME IInv, Bounded, NEW s \in Samples, Submit(s)
  PROVE  Bounded'
<1>1. /\ reserved' = reserved
      /\ \/ Ids(pending') = Ids(pending) \cup {s} /\ HeldSlots < HighWatermark
         \/ Ids(pending') = Ids(pending)
  BY SubmitMoves
<1>2. BatchesSmall'
  BY <1>1 DEF Bounded, BatchesSmall
<1>3. ReservedIds' = ReservedIds
  BY <1>1 DEF ReservedIds
<1>4. CASE Ids(pending') = Ids(pending)
  <2>1. UnsettledBounded'
    BY <1>3, <1>4 DEF Bounded, UnsettledBounded, Unsettled
  <2> QED BY <1>2, <2>1 DEF Bounded
<1>5. CASE Ids(pending') = Ids(pending) \cup {s} /\ HeldSlots < HighWatermark
  <2> DEFINE held == Ids(pending) \cup ReservedIds
             l == Cardinality({b \in Batches : Live(b)})
  <2>1. /\ IsFiniteSet(held) /\ l \in Nat
        /\ Unsettled <= Len(pending) + l * MaxSequences
    BY Holdings DEF Bounded
  <2>2. /\ Len(pending) \in Nat /\ Len(pending) + l < HighWatermark
        /\ MaxSequences \in Nat \ {0} /\ HighWatermark \in Nat \ {0}
    BY <1>5, QueueAssumption DEF HeldSlots, IInv, TypeOK
  <2>3. (Ids(pending) \cup ReservedIds)' = held \cup {s}
    BY <1>3, <1>5
  <2>a. Unsettled = Cardinality(held) /\ Unsettled' = Cardinality(held \cup {s})
    BY <2>3 DEF Unsettled
  <2> HIDE DEF held, l
  <2>b. /\ Cardinality(held) \in Nat
        /\ Cardinality(held \cup {s}) = Cardinality(held)
             \/ Cardinality(held \cup {s}) = Cardinality(held) + 1
    BY <2>1, FS_AddElement, FS_CardinalityType
  <2>4. Unsettled \in Nat /\ Unsettled' \in Nat /\ Unsettled' <= Unsettled + 1
    BY <2>a, <2>b
  <2>5. Len(pending) + l * MaxSequences <= MaxSequences * (HighWatermark - 1)
    BY <2>1, <2>2, SlotsBoundSamples
  <2>6. l * MaxSequences \in Nat /\ MaxSequences * (HighWatermark - 1) \in Nat
    BY <2>1, <2>2
  <2>7. UnsettledBounded'
    BY <2>1, <2>2, <2>4, <2>5, <2>6 DEF UnsettledBounded
  <2> QED BY <1>2, <2>7 DEF Bounded
<1> QED BY <1>1, <1>4, <1>5

LEMMA NextBounded == IInv /\ Bounded /\ [Next]_vars => Bounded'
<1> SUFFICES ASSUME IInv, Bounded, [Next]_vars PROVE Bounded'
  OBVIOUS
<1>1. BatchesSmall /\ \A b \in Batches : Ids(reserved[b]) \subseteq ReservedIds
  BY DEF Bounded, ReservedIds
<1>2. CASE \E s \in Samples : Submit(s)
  BY <1>2, SubmitBounded
<1>3. ASSUME NEW k \in 0..MaxSequences, NEW m, Reserve(k, m) PROVE Bounded'
  <2>1. PICK take \in SUBSET Ids(pending) :
          /\ Ids(pending') \subseteq Ids(pending)
          /\ \A b \in Batches :
               Ids(reserved'[b]) = IF b = nextBatch THEN take ELSE Ids(reserved[b])
    BY <1>3, ReserveMoves
  <2>2. \A b \in Batches : Ids(reserved'[b]) \subseteq Ids(pending) \cup ReservedIds
    BY <1>1, <2>1
  <2>3. UnsettledBounded'
    BY <2>1, <2>2, FewerHeld
  <2> QED BY <1>1, <1>3, <2>3, ReserveSmall DEF Bounded
<1>4. ASSUME NEW b \in Batches, Ack(b) \/ Release(b) PROVE Bounded'
  <2>1. /\ Settle(b)
        /\ Ids(pending') \subseteq Ids(pending) \cup Ids(reserved[b])
        /\ \A c \in Batches : Ids(reserved'[c]) \subseteq Ids(reserved[c])
    <3>1. CASE Ack(b)
      BY <3>1, AckMoves DEF Ack
    <3>2. CASE Release(b)
      BY <3>2, ReleaseMoves DEF Release
    <3> QED BY <1>4, <3>1, <3>2
  <2>2. UnsettledBounded'
    BY <1>1, <2>1, FewerHeld
  <2> QED BY <1>1, <2>1, <2>2, SettleSmall DEF Bounded
<1>5. CASE UNCHANGED <<pending, reserved>>
  BY <1>5 DEF Bounded, BatchesSmall, UnsettledBounded, Unsettled, ReservedIds
<1> QED BY <1>2, <1>3, <1>4, <1>5 DEF Next, Tick, AdvancePolicy, SubmitDuplicate, vars

(***************************************************************************)
(* The queue may pass its watermark, because a whole batch counts as one   *)
(* slot, but never by more than this: no run of the loop, whatever it      *)
(* submits, reserves and hands back, piles up samples without bound.       *)
(***************************************************************************)
THEOREM HoldsBoundedly == Spec => []UnsettledBounded
<1>1. Bounded => UnsettledBounded
  BY DEF Bounded
<1>2. QED
  BY <1>1, InitBounded, NextBounded, Invariance, PTL DEF Spec
=============================================================================
