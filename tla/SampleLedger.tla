---------------------------- MODULE SampleLedger ----------------------------
(***************************************************************************)
(* What the sample queue promises to the rollout side that submits samples *)
(* and to the trainer that consumes them, with no queue in sight: every    *)
(* sample is in one place at a time, a train batch moves as a whole, and   *)
(* "acked" and "dropped" are final.  SampleQueue implements this ledger.   *)
(***************************************************************************)
EXTENDS Naturals

CONSTANTS Samples,     \* the sample ids that may ever be submitted
          MaxBatches   \* train batches are numbered 1..MaxBatches

VARIABLE place         \* place[s]: where sample s is

Batches  == 1..MaxBatches
New      == <<"new", 0>>
Pending  == <<"pending", 0>>
Acked    == <<"acked", 0>>
Dropped  == <<"dropped", 0>>
Batch(b) == <<"batch", b>>

At(p) == {s \in Samples : place[s] = p}

Move(S, p) == place' = [s \in Samples |-> IF s \in S THEN p ELSE place[s]]

-----------------------------------------------------------------------------
Init == place = [s \in Samples |-> New]

\* A sample the queue sees for the first time is accepted or dropped.
Judge(s) ==
  /\ s \in At(New)
  /\ \E verdict \in {Pending, Dropped} : Move({s}, verdict)

\* Some pending samples form a new batch, some are found stale and dropped.
Collect(b, take, stale) ==
  /\ At(Batch(b)) = {}
  /\ take \cap stale = {}
  /\ place' = [s \in Samples |-> CASE s \in take  -> Batch(b)
                                   [] s \in stale -> Dropped
                                   [] OTHER       -> place[s]]

\* A batch is consumed, or handed back, as a whole.
Consume(b)  == At(Batch(b)) # {} /\ Move(At(Batch(b)), Acked)
HandBack(b) == At(Batch(b)) # {} /\ Move(At(Batch(b)), Pending)

Next ==
  \/ \E s \in Samples : Judge(s)
  \/ \E b \in Batches :
       \/ \E take, stale \in SUBSET At(Pending) : Collect(b, take, stale)
       \/ Consume(b)
       \/ HandBack(b)

Spec == Init /\ [][Next]_place
=============================================================================
