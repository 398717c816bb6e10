----------------------------- MODULE SampleQueue -----------------------------
(***************************************************************************)
(* SampleQueueActorCore (src/nano_rl/runtime/sample_queue.py): the actor   *)
(* through which rollout samples reach the trainer.  submit_sample admits  *)
(* or drops a sample, reserve_train_batch moves the front of the queue     *)
(* into a train batch and drops what has become stale, ack_batch and       *)
(* release_batch settle a batch.  The actor is single-threaded, so a call  *)
(* is one action; the calls of the rollout side and of the trainer, the    *)
(* clock and the policy version interleave freely.                         *)
(*                                                                         *)
(* An operator Op_slip is Op with one plausible slip; no specification     *)
(* uses it, it is there to be put in the place of Op and be found out.     *)
(***************************************************************************)
EXTENDS Naturals, Sequences, FiniteSets, FiniteSetsExt

CONSTANTS
  Samples,         \* sample ids
  NumTokens,       \* NumTokens[s]: response tokens of sample s
  MaxPolicyLag,    \* control.max_policy_lag
  SampleTtl,       \* control.sample_ttl_sec
  HighWatermark,   \* control.queue_high_watermark
  MaxSequences,    \* the largest max_sequences a caller asks for
  TokenBudgets,    \* the max_tokens arguments of callers; NoBudget for None
  NoBudget,
  MaxTime,         \* bound: the clock runs over 0..MaxTime
  MaxPolicy,       \* bound: policy versions are 0..MaxPolicy
  MaxBatches       \* bound: batches are numbered 1..MaxBatches (fresh uuids)

ASSUME QueueAssumption ==
  /\ NumTokens \in [Samples -> Nat]
  /\ MaxPolicyLag \in Nat
  /\ SampleTtl \in Nat \ {0}
  /\ HighWatermark \in Nat \ {0}
  /\ MaxSequences \in Nat \ {0}
  /\ NoBudget \notin Nat
  /\ TokenBudgets \subseteq Nat \cup {NoBudget}
  /\ MaxTime \in Nat /\ MaxPolicy \in Nat /\ MaxBatches \in Nat

VARIABLES
  pending,    \* _pending: a dict in insertion order
  reserved,   \* _reserved: batch number -> its sample refs, <<>> if there is none
  acked,      \* _acked
  dropped,    \* the keys of _dropped
  seen,       \* _seen
  nextBatch,  \* the next unused batch number
  now,        \* the wall clock
  policy      \* the policy version callers pass as current_policy_version

vars == <<pending, reserved, acked, dropped, seen, nextBatch, now, policy>>

SampleRef == [id : Samples, version : Nat, expires : Nat, tokens : Nat]
Batches   == 1..MaxBatches

Ids(refs) == {refs[i].id : i \in DOMAIN refs}

Live(b)      == reserved[b] # <<>>
ReservedIds  == UNION {Ids(reserved[b]) : b \in Batches}

TypeOK ==
  /\ pending \in Seq(SampleRef)
  /\ reserved \in [Batches -> Seq(SampleRef)]
  /\ acked \subseteq Samples
  /\ dropped \subseteq Samples
  /\ seen \subseteq Samples
  /\ nextBatch \in 1..MaxBatches + 1
  /\ now \in Nat
  /\ policy \in Nat

-----------------------------------------------------------------------------
Expired(ref) == ref.expires <= now
Lagging(ref) == policy > ref.version + MaxPolicyLag
Stale(ref)   == Expired(ref) \/ Lagging(ref)

\* The queue's own measure of its depth: pending samples and reserved BATCHES.
HeldSlots == Len(pending) + Cardinality({b \in Batches : Live(b)})

\* The enumeration of a set of positions in increasing order (exactly one).
InOrder(P) ==
  {f \in [1..Cardinality(P) -> P] :
     /\ \A i, j \in DOMAIN f : i < j => f[i] < f[j]
     /\ \A p \in P : \E i \in DOMAIN f : f[i] = p}

\* The refs at positions P of refs, in order, as the only element of a set.
Subsequences(refs, P) == {[i \in DOMAIN f |-> refs[f[i]]] : f \in InOrder(P)}

-----------------------------------------------------------------------------
Init ==
  /\ pending = <<>>
  /\ reserved = [b \in Batches |-> <<>>]
  /\ acked = {}
  /\ dropped = {}
  /\ seen = {}
  /\ nextBatch = 1
  /\ now = 0
  /\ policy = 0

(***************************************************************************)
(* submit_sample: a known id is a DUPLICATE and changes nothing, whatever  *)
(* became of the sample.  An expired or lagging record, or one that finds  *)
(* the queue at its watermark, is dropped for good; any other is queued.   *)
(* The record was generated at some time up to now under some policy       *)
(* version up to the current one.                                          *)
(***************************************************************************)
FirstSubmission_notQueued(s) == s \notin Ids(pending) \cup ReservedIds
FirstSubmission(s) == s \notin seen

Admissible_pendingOnly(ref) == ~Stale(ref) /\ Len(pending) < HighWatermark
Admissible(ref) == ~Stale(ref) /\ HeldSlots < HighWatermark

Record(s, version, created) ==
  [id |-> s, version |-> version,
   expires |-> created + SampleTtl, tokens |-> NumTokens[s]]

SubmitRecord(ref) ==
  /\ FirstSubmission(ref.id)
  /\ seen' = seen \cup {ref.id}
  /\ \/ /\ Admissible(ref)
        /\ pending' = Append(pending, ref)
        /\ UNCHANGED dropped
     \/ /\ ~Admissible(ref)
        /\ dropped' = dropped \cup {ref.id}
        /\ UNCHANGED pending
  /\ UNCHANGED <<reserved, acked, nextBatch, now, policy>>

Submit(s) ==
  \E version \in 0..policy, created \in 0..now :
    SubmitRecord(Record(s, version, created))

SubmitDuplicate(s) == ~FirstSubmission(s) /\ UNCHANGED vars

(***************************************************************************)
(* reserve_train_batch scans the queue from the front.  Stale refs are     *)
(* dropped as they are met, live ones selected, until the first live ref   *)
(* the batch has no room for; refs behind that one are not looked at.  A   *)
(* caller without samples asks for none: only the stale front is dropped.  *)
(***************************************************************************)
LiveBefore_ttlOnly(n) == {i \in 1..n : ~Expired(pending[i])}
LiveBefore(n) == {i \in 1..n : ~Stale(pending[i])}
Tokens(P) == MapThenSumSet(LAMBDA i : pending[i].tokens, P)

NoRoomFor(i, maxSequences, maxTokens) ==
  LET selected == LiveBefore(i - 1)
  IN  /\ ~Stale(pending[i])
      /\ \/ Cardinality(selected) >= maxSequences
         \/ /\ maxTokens # NoBudget
            /\ selected # {}
            /\ Tokens(selected) + pending[i].tokens > maxTokens

ScansExactly(n, maxSequences, maxTokens) ==
  /\ \A i \in 1..n : ~NoRoomFor(i, maxSequences, maxTokens)
  /\ n < Len(pending) => NoRoomFor(n + 1, maxSequences, maxTokens)

Reserve(maxSequences, maxTokens) ==
  /\ nextBatch \in Batches
  /\ \E n \in 0..Len(pending) :
       /\ ScansExactly(n, maxSequences, maxTokens)
       /\ pending' = SubSeq(pending, n + 1, Len(pending))
       /\ dropped' = dropped \cup {pending[i].id : i \in (1..n) \ LiveBefore(n)}
       /\ \/ /\ LiveBefore(n) = {}
             /\ UNCHANGED <<reserved, nextBatch>>
          \/ /\ LiveBefore(n) # {}
             /\ \E refs \in Subsequences(pending, LiveBefore(n)) :
                  reserved' = [reserved EXCEPT ![nextBatch] = refs]
             /\ nextBatch' = nextBatch + 1
  /\ UNCHANGED <<acked, seen, now, policy>>

(***************************************************************************)
(* ack_batch and release_batch raise QueueError on a batch that is not     *)
(* reserved (never was, or already settled) and change nothing then.       *)
(* Neither looks at the batch's expires_at.  A released batch goes to the  *)
(* back of the queue, past the watermark if need be.                       *)
(***************************************************************************)
Settle_get(b) == Live(b) /\ UNCHANGED reserved
Settle(b) == Live(b) /\ reserved' = [reserved EXCEPT ![b] = <<>>]

Ack(b) ==
  /\ Settle(b)
  /\ acked' = acked \cup Ids(reserved[b])
  /\ UNCHANGED <<pending, dropped, seen, nextBatch, now, policy>>

Returnable(b) ==
  {i \in DOMAIN reserved[b] : reserved[b][i].id \notin acked \cup dropped}

Release_ids(b) ==
  /\ Settle(b)
  /\ \E refs \in Subsequences(reserved[b], Returnable(b)) :
       pending' = pending \o [i \in DOMAIN refs |-> refs[i].id]
  /\ UNCHANGED <<acked, dropped, seen, nextBatch, now, policy>>

Release(b) ==
  /\ Settle(b)
  /\ \E refs \in Subsequences(reserved[b], Returnable(b)) :
       pending' = pending \o refs
  /\ UNCHANGED <<acked, dropped, seen, nextBatch, now, policy>>

\* The environment: time passes; a trained policy version becomes current.
Tick ==
  /\ now < MaxTime
  /\ now' = now + 1
  /\ UNCHANGED <<pending, reserved, acked, dropped, seen, nextBatch, policy>>

AdvancePolicy ==
  /\ policy < MaxPolicy
  /\ policy' = policy + 1
  /\ UNCHANGED <<pending, reserved, acked, dropped, seen, nextBatch, now>>

Next ==
  \/ \E s \in Samples : Submit(s) \/ SubmitDuplicate(s)
  \/ \E maxSequences \in 0..MaxSequences, maxTokens \in TokenBudgets :
       Reserve(maxSequences, maxTokens)
  \/ \E b \in Batches : Ack(b) \/ Release(b)
  \/ Tick
  \/ AdvancePolicy

Spec == Init /\ [][Next]_vars

-----------------------------------------------------------------------------
(***************************************************************************)
(* Every sample the queue has seen is in exactly one place: once in the    *)
(* queue, or once in one batch, or acked, or dropped.  A release or a scan *)
(* that forgets a container would train a sample twice or lose it.         *)
(***************************************************************************)
Distinct(refs) ==
  \A i, j \in DOMAIN refs : refs[i].id = refs[j].id => i = j

OnePlace ==
  /\ Distinct(pending)
  /\ \A b \in Batches : Distinct(reserved[b])
  /\ \A b, c \in Batches : b # c => Ids(reserved[b]) \cap Ids(reserved[c]) = {}
  /\ Ids(pending) \cap ReservedIds = {}
  /\ acked \cap dropped = {}
  /\ (acked \cup dropped) \cap (Ids(pending) \cup ReservedIds) = {}
  /\ seen = Ids(pending) \cup ReservedIds \cup acked \cup dropped

(***************************************************************************)
(* The watermark is checked against HeldSlots only when a sample is        *)
(* submitted, and a whole batch counts as one slot, so the number of       *)
(* samples accepted and not settled may pass the watermark.  It is still   *)
(* bounded: a sample is admitted while at most HighWatermark - 1 slots are *)
(* held, each a sample or a batch of at most MaxSequences.                 *)
(***************************************************************************)
Unsettled == Cardinality(Ids(pending) \cup ReservedIds)

UnsettledBounded == Unsettled <= MaxSequences * (HighWatermark - 1) + 1

(***************************************************************************)
(* A batch handed to the trainer holds only samples that are fresh at that *)
(* moment, although each was admitted under an earlier clock and an        *)
(* earlier policy, and may have come back from a failed batch since.       *)
(***************************************************************************)
FreshBatches ==
  [][\A b \in Batches :
       reserved'[b] # reserved[b] =>
         \A i \in DOMAIN reserved'[b] : ~Stale(reserved'[b][i])]_vars

(***************************************************************************)
(* The queue implements the ledger: single owner, whole batches, finality. *)
(***************************************************************************)
BatchOf(s) == CHOOSE b \in Batches : s \in Ids(reserved[b])

PlaceOf(s) ==
  CASE s \in Ids(pending) -> <<"pending", 0>>
    [] s \in ReservedIds  -> <<"batch", BatchOf(s)>>
    [] s \in acked        -> <<"acked", 0>>
    [] s \in dropped      -> <<"dropped", 0>>
    [] OTHER              -> <<"new", 0>>

Ledger == INSTANCE SampleLedger WITH place <- [s \in Samples |-> PlaceOf(s)]

ImplementsLedger == Ledger!Spec

(***************************************************************************)
(* The depth the loops see, pending + reserved_samples of stats(): it      *)
(* counts the samples of a batch, where HeldSlots counts the batch.        *)
(***************************************************************************)
Depth == Len(pending) + Cardinality(ReservedIds)
=============================================================================
