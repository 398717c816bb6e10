-------------------------- MODULE TrainWindowProofs --------------------------
(***************************************************************************)
(* The train window, for any GPUs, replicas, ranks and number of steps.    *)
(* The actors check no lease epoch, so that what is proved rests on the    *)
(* order of the driver's steps alone: it moves on to the other role only   *)
(* when the last call it has sent to every actor of this one has returned, *)
(* and an actor runs its calls in the order they were sent.                *)
(***************************************************************************)
EXTENDS TrainWindow, TLAPS, SequenceTheorems

\* The phases in which the trainer has the GPUs, and those in which the
\* driver waits for calls.
Working == Training \cup {"clean up"}
Waiting == Working \cup {"make room", "wake", "activate"}

Last(calls) == calls[Len(calls)]

RankState    == [initialized : BOOLEAN, hydrated : BOOLEAN, onGpu : BOOLEAN, steps : Nat]
ReplicaState == [offloaded : BOOLEAN, onGpu : BOOLEAN, version : 0..MaxSteps]

RankCalls    == Training
ReplicaCalls == {"leave", "wake", "activate"}

Shape ==
  /\ pc \in Phases /\ step \in 0..MaxSteps /\ (pc # "idle" => step # 0)
  /\ batch \in [1..MaxSteps -> {"none", "reserved", "acked", "released"}]
  /\ raised \in BOOLEAN /\ swallowed \in BOOLEAN
  /\ swallowed => pc \in {"give back", "wake", "failed"} /\ batch[step] = "released"
  /\ mailbox \in [Actors -> Seq(Call)]
  /\ \A g \in Shared : \A i \in DOMAIN mailbox[g] : mailbox[g][i].op \in RankCalls
  /\ \A p \in Replicas : \A i \in DOMAIN mailbox[p] : mailbox[p][i].op \in ReplicaCalls
  /\ saved \in [Shared -> Nat \cup {NoState}]
  /\ \A g \in Shared : \A i \in DOMAIN mailbox[g] :
       mailbox[g][i].op = "hydrate" => saved[g] \in Nat
  /\ busy \subseteq {a \in Actors : mailbox[a] # <<>>}
  /\ trainer \in [Shared -> RankState]
  /\ rollout \in [Replicas -> ReplicaState]
  /\ Lease!LeaseTypeOK

\* Who has no call, queued or running.
Quiet ==
  /\ pc \notin Working => \A g \in Shared : mailbox[g] = <<>>
  /\ pc \in Working \cup {"idle", "done"} => \A p \in Replicas : mailbox[p] = <<>>
  /\ pc \notin {"activate", "failed"} =>
       \A p \in Replicas \ SharedReplicas : mailbox[p] = <<>>

\* The last call in a mailbox is the one the driver waits for.
LastCalls ==
  \A a \in Actors : mailbox[a] # <<>> =>
    /\ ~raised /\ pc \in Waiting => Last(mailbox[a]).awaited
    /\ a \in Shared /\ pc \in {"leave", "clean up"} => Last(mailbox[a]).op = "leave"
    /\ a \in Replicas /\ pc = "make room" => Last(mailbox[a]).op = "leave"

LeasesFollow ==
  \A g \in Shared :
    /\ pc \in Working => WithTrainer(g)
    /\ pc \notin Working \cup {"make room", "give back"} => WithRollout(g)
    /\ WithTrainer(g) \/ WithRollout(g)

\* The tokens a call to a carries name leases that are held, those of a
\* replica its workers'.
TokenHolds(a, t) ==
  /\ t \in Lease!Token /\ Lease!AssertActive(t)
  /\ a \in Replicas => t.role = "rollout" /\ t.holder = FirstHolder[t.gpu]

TokensHold ==
  \A a \in Actors : \A i \in DOMAIN mailbox[a] :
    \A t \in mailbox[a][i].under : TokenHolds(a, t)

\* A role is off the GPU from the return of the call by which it leaves.
OffGpu ==
  /\ \A g \in Shared :
       pc \notin Working \/ (pc \in {"leave", "clean up"} /\ ~raised /\ mailbox[g] = <<>>)
         => ~trainer[g].onGpu
  /\ \A p \in SharedReplicas :
       pc \in Working \/ (pc = "make room" /\ ~raised /\ mailbox[p] = <<>>)
         => ~rollout[p].onGpu

Handover == Quiet /\ LastCalls /\ LeasesFollow /\ TokensHold /\ OffGpu

\* Once a failed clean-up has been swallowed, only the types are left.
IInv == Shape /\ (swallowed \/ Handover)

-----------------------------------------------------------------------------
(* The constants, and what posting and ending a call does to a mailbox. *)

LEMMA Plan ==
  /\ Shared \subseteq Gpus /\ SharedReplicas \subseteq Replicas
  /\ Actors = Shared \cup Replicas /\ Shared \cap Replicas = {}
  /\ Lease!Roles = {"rollout", "trainer"} /\ NoRole \notin {"rollout", "trainer"}
  /\ \A g \in Shared : /\ "trainer" \in Supported[g] /\ "rollout" \in Supported[g]
                       /\ RankHolder[g] \in Holders /\ FirstHolder[g] \in Holders
  /\ \A p \in Replicas : \A g \in GpusOf[p] : g \in Gpus /\ "rollout" \in Supported[g]
  /\ \A p \in SharedReplicas : GpusOf[p] \subseteq Shared
  /\ \A g \in Shared : \A p \in Replicas : g \in GpusOf[p] => p \in SharedReplicas
  /\ NoHolder \notin Holders /\ NoState \notin Nat /\ MaxSteps \in Nat \ {0}
BY WindowAssumption DEF Shared, SharedReplicas, Actors, Lease!LeaseAssumption, Lease!Roles

LEMMA StepNumbers == \A n : n \in 1..MaxSteps <=> n \in 0..MaxSteps /\ n # 0
BY WindowAssumption

LEMMA TailCalls ==
  ASSUME NEW s \in Seq(Call), s # <<>>
  PROVE  /\ Tail(s) \in Seq(Call)
         /\ \A i \in DOMAIN Tail(s) : i + 1 \in DOMAIN s /\ Tail(s)[i] = s[i + 1]
         /\ Tail(s) # <<>> => Last(Tail(s)) = Last(s)
         /\ Tail(s) = <<>> => Head(s) = Last(s)
         /\ Head(s) = s[1] /\ 1 \in DOMAIN s /\ Head(s) \in Call
<1>1. /\ Tail(s) \in Seq(Call) /\ Len(Tail(s)) = Len(s) - 1 /\ Len(s) \in Nat \ {0}
      /\ \A i \in 1..Len(s) - 1 : Tail(s)[i] = s[i + 1]
      /\ Head(s) = s[1] /\ s[1] \in Call /\ DOMAIN s = 1..Len(s)
  OBVIOUS
<1>2. ASSUME Tail(s) # <<>> PROVE Last(Tail(s)) = Last(s)
  <2>1. Len(s) - 1 \in 1..Len(s) - 1
    BY <1>1, <1>2
  <2> QED BY <1>1, <2>1 DEF Last
<1>3. ASSUME Tail(s) = <<>> PROVE Head(s) = Last(s)
  BY <1>1, <1>3 DEF Last
<1> QED BY <1>1, <1>2, <1>3

LEMMA ForgetCalls ==
  ASSUME NEW s \in Seq(Call)
  PROVE  /\ Forget(s) \in Seq(Call)
         /\ DOMAIN Forget(s) = DOMAIN s /\ Len(Forget(s)) = Len(s)
         /\ \A i \in DOMAIN s : Forget(s)[i].op = s[i].op /\ Forget(s)[i].under = s[i].under
         /\ Forget(s) = <<>> <=> s = <<>>
<1>1. \A i \in DOMAIN s : s[i] \in Call
  OBVIOUS
<1>2. \A c \in Call : /\ [c EXCEPT !.awaited = FALSE] \in Call
                      /\ [c EXCEPT !.awaited = FALSE].op = c.op
                      /\ [c EXCEPT !.awaited = FALSE].under = c.under
  BY DEF Call
<1>3. DOMAIN s = 1..Len(s) /\ Len(s) \in Nat
  OBVIOUS
<1>4. Forget(s) \in [1..Len(s) -> Call]
  BY <1>1, <1>2, <1>3 DEF Forget
<1>5. /\ Forget(s) \in Seq(Call) /\ Len(Forget(s)) = Len(s) /\ DOMAIN Forget(s) = 1..Len(s)
  BY <1>3, <1>4
<1>6. \A i \in DOMAIN s : Forget(s)[i].op = s[i].op /\ Forget(s)[i].under = s[i].under
  BY <1>1, <1>2 DEF Forget
<1> QED BY <1>3, <1>5, <1>6

\* A call ended: what is left are calls that were there, the last one last;
\* if the driver still waits for calls, it waits for the same.
LEMMA CallEnds ==
  ASSUME Shape, NEW a \in Actors, Succeed(a) \/ Fail(a)
  PROVE  /\ mailbox[a] # <<>> /\ Head(mailbox[a]) = mailbox[a][1] /\ 1 \in DOMAIN mailbox[a]
         /\ mailbox' \in [Actors -> Seq(Call)]
         /\ \A b \in Actors : \A i \in DOMAIN mailbox'[b] : \E j \in DOMAIN mailbox[b] :
              /\ mailbox'[b][i].op = mailbox[b][j].op
              /\ mailbox'[b][i].under = mailbox[b][j].under
         /\ \A b \in Actors : mailbox'[b] # <<>> =>
              /\ mailbox[b] # <<>> /\ Last(mailbox'[b]).op = Last(mailbox[b]).op
              /\ ~raised' => Last(mailbox'[b]).awaited = Last(mailbox[b]).awaited
         /\ \A b \in Actors : b # a /\ mailbox'[b] = <<>> => mailbox[b] = <<>>
         /\ mailbox'[a] = <<>> => Head(mailbox[a]) = Last(mailbox[a])
         /\ ~raised' => ~raised
         /\ Fail(a) /\ Head(mailbox[a]).awaited => raised'
         /\ busy' \subseteq {b \in Actors : mailbox'[b] # <<>>}
         /\ raised' \in BOOLEAN
<1>1. /\ mailbox \in [Actors -> Seq(Call)] /\ mailbox[a] # <<>> /\ a \in busy
      /\ busy \subseteq {b \in Actors : mailbox[b] # <<>>} /\ raised \in BOOLEAN
  BY DEF Shape, Succeed, Fail
<1> DEFINE rest == WithoutFirst(a)
<1>2. /\ rest \in [Actors -> Seq(Call)] /\ rest[a] = Tail(mailbox[a])
      /\ \A b \in Actors : b # a => rest[b] = mailbox[b]
  BY <1>1, TailCalls DEF WithoutFirst
<1>3. \A b \in Actors : \A i \in DOMAIN rest[b] : \E j \in DOMAIN mailbox[b] : rest[b][i] = mailbox[b][j]
  <2> SUFFICES ASSUME NEW b \in Actors, NEW i \in DOMAIN rest[b]
               PROVE  \E j \in DOMAIN mailbox[b] : rest[b][i] = mailbox[b][j]
    OBVIOUS
  <2>1. CASE b = a
    BY <1>1, <1>2, <2>1, TailCalls
  <2>2. CASE b # a
    BY <1>2, <2>2
  <2> QED BY <2>1, <2>2
<1>4. \A b \in Actors : rest[b] # <<>> => mailbox[b] # <<>> /\ Last(rest[b]) = Last(mailbox[b])
  BY <1>1, <1>2, TailCalls
<1>5. \A b \in Actors : b # a /\ rest[b] = <<>> => mailbox[b] = <<>>
  BY <1>2
<1>6. rest[a] = <<>> => Head(mailbox[a]) = Last(mailbox[a])
  BY <1>1, <1>2, TailCalls
<1>7. Head(mailbox[a]) = mailbox[a][1] /\ 1 \in DOMAIN mailbox[a]
  BY <1>1, TailCalls
<1>8. busy' = busy \ {a}
  BY DEF Succeed, Fail
<1> HIDE DEF rest
<1>9. CASE mailbox' = rest /\ UNCHANGED raised /\ ~(Fail(a) /\ Head(mailbox[a]).awaited)
  <2>1. \A b \in Actors : \A i \in DOMAIN mailbox'[b] : \E j \in DOMAIN mailbox[b] :
              /\ mailbox'[b][i].op = mailbox[b][j].op
              /\ mailbox'[b][i].under = mailbox[b][j].under
    BY <1>3, <1>9
  <2>2. \A b \in Actors : mailbox'[b] # <<>> =>
              /\ mailbox[b] # <<>> /\ Last(mailbox'[b]).op = Last(mailbox[b]).op
              /\ Last(mailbox'[b]).awaited = Last(mailbox[b]).awaited
    BY <1>4, <1>9
  <2>3. busy' \subseteq {b \in Actors : mailbox'[b] # <<>>}
    BY <1>1, <1>5, <1>8, <1>9
  <2> QED BY <1>1, <1>2, <1>5, <1>6, <1>7, <1>9, <2>1, <2>2, <2>3
<1>10. CASE mailbox' = [b \in Actors |-> Forget(rest[b])] /\ raised' = TRUE
  <2>1. \A b \in Actors : mailbox'[b] = Forget(rest[b])
    BY <1>10
  <2>2. mailbox' \in [Actors -> Seq(Call)]
    BY <1>2, <1>10, ForgetCalls
  <2>3. \A b \in Actors : mailbox'[b] = <<>> <=> rest[b] = <<>>
    BY <1>2, <2>1, ForgetCalls
  <2>4. \A b \in Actors : \A i \in DOMAIN mailbox'[b] :
          /\ i \in DOMAIN rest[b]
          /\ mailbox'[b][i].op = rest[b][i].op /\ mailbox'[b][i].under = rest[b][i].under
    BY <1>2, <2>1, ForgetCalls
  <2>5. \A b \in Actors : \A i \in DOMAIN mailbox'[b] : \E j \in DOMAIN mailbox[b] :
              /\ mailbox'[b][i].op = mailbox[b][j].op
              /\ mailbox'[b][i].under = mailbox[b][j].under
    BY <1>3, <2>4
  <2>6. \A b \in Actors : mailbox'[b] # <<>> =>
          mailbox[b] # <<>> /\ Last(mailbox'[b]).op = Last(mailbox[b]).op
    <3> SUFFICES ASSUME NEW b \in Actors, mailbox'[b] # <<>>
                 PROVE  mailbox[b] # <<>> /\ Last(mailbox'[b]).op = Last(mailbox[b]).op
      OBVIOUS
    <3>1. rest[b] \in Seq(Call) /\ rest[b] # <<>> /\ Len(mailbox'[b]) = Len(rest[b])
      BY <1>2, <2>1, <2>3, ForgetCalls
    <3>2. Len(rest[b]) \in DOMAIN rest[b]
      BY <3>1
    <3>3. Last(mailbox'[b]).op = Last(rest[b]).op
      BY <1>2, <2>1, <3>1, <3>2, ForgetCalls DEF Last
    <3> QED BY <1>4, <3>1, <3>3
  <2>7. busy' \subseteq {b \in Actors : mailbox'[b] # <<>>}
    BY <1>1, <1>5, <1>8, <2>3
  <2> QED BY <1>1, <1>5, <1>6, <1>7, <1>10, <2>2, <2>3, <2>5, <2>6, <2>7
<1>11. \/ mailbox' = rest /\ UNCHANGED raised /\ ~(Fail(a) /\ Head(mailbox[a]).awaited)
       \/ mailbox' = [b \in Actors |-> Forget(rest[b])] /\ raised' = TRUE
  <2>1. CASE Succeed(a) /\ ~Fail(a)
    BY <2>1 DEF Succeed, rest, driverVars
  <2>2. CASE Fail(a)
    BY <2>2, Zenon DEF Fail, rest
  <2> QED BY <2>1, <2>2
<1> QED BY <1>9, <1>10, <1>11

-----------------------------------------------------------------------------
(* The actors' steps. *)

LEMMA RankReturns ==
  ASSUME Shape, NEW g \in Shared, NEW op \in Training, op = "hydrate" => saved[g] \in Nat
  PROVE  /\ AfterCall(op, g) \in RankState
         /\ op = "leave" => AfterCall(op, g).onGpu = FALSE
         /\ AfterCall(op, g).steps = CASE op = "hydrate"  -> saved[g]
                                      [] op = "optimize" -> trainer[g].steps + 1
                                      [] OTHER           -> trainer[g].steps
<1> DEFINE t == trainer[g]
<1>1. t \in RankState
  BY DEF Shape
<1>2. \A onGpu \in BOOLEAN :
        /\ Resident(t, onGpu) \in RankState
        /\ Resident(t, onGpu).onGpu = onGpu /\ Resident(t, onGpu).steps = t.steps
  BY <1>1 DEF Resident, RankState
<1>3. CASE op = "initialize"
  <2>1. AfterCall(op, g) = [t EXCEPT !.initialized = TRUE, !.onGpu = FALSE]
    BY <1>3 DEF AfterCall
  <2> QED BY <1>1, <1>3, <2>1 DEF RankState
<1>4. CASE op = "hydrate"
  <2>1. AfterCall(op, g) = [Resident(t, TRUE) EXCEPT !.steps = saved[g]]
    BY <1>4 DEF AfterCall
  <2>2. saved[g] \in Nat /\ Resident(t, TRUE) \in RankState
    BY <1>2, <1>4
  <2> HIDE DEF t
  <2> QED BY <1>4, <2>1, <2>2 DEF RankState
<1>5. CASE op = "optimize"
  <2> DEFINE r == Resident(t, TRUE)
  <2>1. AfterCall(op, g) = [r EXCEPT !.steps = @ + 1]
    BY <1>5 DEF AfterCall
  <2>2. r \in RankState /\ r.steps = t.steps /\ t.steps \in Nat
    BY <1>1, <1>2 DEF RankState
  <2> HIDE DEF r, t
  <2>3. AfterCall(op, g) = [r EXCEPT !.steps = t.steps + 1]
    BY <2>1, <2>2 DEF RankState
  <2>4. AfterCall(op, g) \in RankState /\ AfterCall(op, g).steps = t.steps + 1
    BY <2>2, <2>3 DEF RankState
  <2> QED BY <1>5, <2>4 DEF t
<1>6. CASE op = "sync"
  <2>1. AfterCall(op, g) = Resident(t, TRUE)
    BY <1>6 DEF AfterCall
  <2> QED BY <1>2, <1>6, <2>1
<1>7. CASE op = "export"
  <2>1. AfterCall(op, g) = t
    BY <1>7 DEF AfterCall
  <2> QED BY <1>1, <1>7, <2>1
<1>8. CASE op = "leave"
  <2>1. AfterCall(op, g) = Resident(t, FALSE)
    BY <1>8 DEF AfterCall
  <2> QED BY <1>2, <1>8, <2>1
<1> QED BY <1>3, <1>4, <1>5, <1>6, <1>7, <1>8 DEF Training

\* A rank's step moves that rank only, and a leave that returns ends off the GPU.
LEMMA RankMoves ==
  ASSUME Shape, NEW a \in Shared, Actor(a)
  PROVE  /\ UNCHANGED <<pc, step, batch, swallowed, saved, lease, issued, rollout>>
         /\ trainer' \in [Shared -> RankState]
         /\ \A g \in Shared : g # a => trainer'[g] = trainer[g]
         /\ Succeed(a) /\ ~Fail(a) /\ Head(mailbox[a]).op = "leave" => ~trainer'[a].onGpu
<1> DEFINE op == Head(mailbox[a]).op
<1>1. a \notin Replicas /\ a \in Actors
  BY Plan
<1>2. mailbox[a] # <<>> /\ mailbox[a] \in Seq(Call)
  BY <1>1 DEF Shape, Actor, Begin, Succeed, Fail
<1>3. op \in Training /\ (op = "hydrate" => saved[a] \in Nat)
  <2>1. Head(mailbox[a]) = mailbox[a][1] /\ 1 \in DOMAIN mailbox[a]
    BY <1>2, TailCalls
  <2> QED BY <2>1 DEF Shape, RankCalls
<1>4. UNCHANGED <<pc, step, batch, swallowed, saved, lease, issued, rollout>>
  BY <1>1 DEF Actor, Begin, Succeed, Fail, driverVars, leaseVars
<1>5. trainer \in [Shared -> RankState] /\ trainer[a] \in RankState
  BY DEF Shape
<1> HIDE DEF op
<1>6. CASE Begin(a)
  <2>1. trainer' = [trainer EXCEPT ![a].onGpu = @ \/ Loads(op, a)]
    BY <1>1, <1>6 DEF Begin, RankBegins, op
  <2>2. (trainer[a].onGpu \/ Loads(op, a)) \in BOOLEAN
    OBVIOUS
  <2>3. PICK b \in BOOLEAN : trainer' = [trainer EXCEPT ![a].onGpu = b]
    BY <2>1, <2>2, Zenon
  <2>4. [trainer[a] EXCEPT !.onGpu = b] \in RankState
    BY <1>5 DEF RankState
  <2>5. ~Succeed(a)
    BY <1>6 DEF Begin, Succeed
  <2> QED BY <1>4, <1>5, <2>3, <2>4, <2>5
<1>7. CASE Fail(a)
  <2>1. PICK onGpu \in BOOLEAN, n \in Nat :
          trainer' = [trainer EXCEPT ![a].onGpu = onGpu, ![a].steps = n]
    <3>1. PICK onGpu \in BOOLEAN, stepped \in BOOLEAN :
            trainer' = [trainer EXCEPT ![a].onGpu = onGpu,
                                       ![a].steps = IF stepped THEN @ + 1 ELSE @]
      BY <1>1, <1>7 DEF Fail, RankFails
    <3>2. CASE stepped
      <4>1. trainer' = [trainer EXCEPT ![a].onGpu = onGpu, ![a].steps = trainer[a].steps + 1]
        BY <1>5, <3>1, <3>2 DEF RankState
      <4>2. trainer[a].steps + 1 \in Nat
        BY <1>5 DEF RankState
      <4> QED BY <4>1, <4>2, Zenon
    <3>3. CASE ~stepped
      <4>1. trainer' = [trainer EXCEPT ![a].onGpu = onGpu, ![a].steps = trainer[a].steps]
        BY <1>5, <3>1, <3>3 DEF RankState
      <4>2. trainer[a].steps \in Nat
        BY <1>5 DEF RankState
      <4> QED BY <4>1, <4>2, Zenon
    <3> QED BY <3>2, <3>3
  <2>2. [[trainer[a] EXCEPT !.onGpu = onGpu] EXCEPT !.steps = n] \in RankState
    BY <1>5 DEF RankState
  <2> QED BY <1>4, <1>5, <1>7, <2>1, <2>2
<1>8. CASE Succeed(a) /\ ~Fail(a)
  <2>1. trainer' = [trainer EXCEPT ![a] = AfterCall(op, a)]
    BY <1>1, <1>8 DEF Succeed, RankSucceeds, op
  <2>2. AfterCall(op, a) \in RankState /\ (op = "leave" => AfterCall(op, a).onGpu = FALSE)
    BY <1>3, RankReturns
  <2> QED BY <1>4, <1>5, <2>1, <2>2 DEF op
<1> QED BY <1>6, <1>7, <1>8 DEF Actor
\* A replica's step moves that replica only, and a leave puts its engine on no
\* GPU before it returns and leaves it on none when it does.
LEMMA ReplicaMoves ==
  ASSUME Shape, NEW a \in Replicas, Actor(a)
  PROVE  /\ UNCHANGED <<pc, step, batch, swallowed, saved, lease, issued, trainer>>
         /\ rollout' \in [Replicas -> ReplicaState]
         /\ \A p \in Replicas : p # a => rollout'[p] = rollout[p]
         /\ Succeed(a) /\ ~Fail(a) /\ Head(mailbox[a]).op = "leave" => ~rollout'[a].onGpu
<1> DEFINE op == Head(mailbox[a]).op
<1>1. a \notin Shared /\ a \in Actors
  BY Plan
<1>2. mailbox[a] # <<>> /\ mailbox[a] \in Seq(Call)
  BY <1>1 DEF Shape, Actor, Begin, Succeed, Fail
<1>3. op \in ReplicaCalls
  <2>1. Head(mailbox[a]) = mailbox[a][1] /\ 1 \in DOMAIN mailbox[a]
    BY <1>2, TailCalls
  <2> QED BY <2>1 DEF Shape
<1>4. UNCHANGED <<pc, step, batch, swallowed, saved, lease, issued, trainer>>
  BY <1>1 DEF Actor, Begin, Succeed, Fail, driverVars, leaseVars
<1>5. /\ rollout \in [Replicas -> ReplicaState] /\ rollout[a] \in ReplicaState
      /\ step \in 0..MaxSteps
  BY DEF Shape
<1> HIDE DEF op
<1>6. CASE Begin(a)
  <2>1. PICK b \in BOOLEAN : rollout' = [rollout EXCEPT ![a].onGpu = b]
    <3>1. rollout' = [rollout EXCEPT ![a].onGpu = @ \/ (op # "leave" /\ rollout[a].offloaded)]
      BY <1>1, <1>6 DEF Begin, ReplicaBegins, op
    <3>2. (rollout[a].onGpu \/ (op # "leave" /\ rollout[a].offloaded)) \in BOOLEAN
      OBVIOUS
    <3> QED BY <3>1, <3>2, Zenon
  <2>2. [rollout[a] EXCEPT !.onGpu = b] \in ReplicaState
    BY <1>5 DEF ReplicaState
  <2>3. ~Succeed(a)
    BY <1>6 DEF Begin, Succeed
  <2> QED BY <1>4, <1>5, <2>1, <2>2, <2>3
<1>7. CASE Fail(a)
  <2>1. PICK onGpu \in BOOLEAN, offloaded \in BOOLEAN :
          rollout' = [rollout EXCEPT ![a].onGpu = onGpu, ![a].offloaded = offloaded]
    BY <1>1, <1>7 DEF Fail, ReplicaFails
  <2>2. [[rollout[a] EXCEPT !.onGpu = onGpu] EXCEPT !.offloaded = offloaded] \in ReplicaState
    BY <1>5 DEF ReplicaState
  <2> QED BY <1>4, <1>5, <1>7, <2>1, <2>2
<1>8. CASE Succeed(a) /\ ~Fail(a)
  <2> DEFINE r == rollout[a]
             after == CASE op = "leave"    -> [r EXCEPT !.offloaded = TRUE, !.onGpu = FALSE]
                        [] op = "wake"     -> Awake(r)
                        [] op = "activate" -> [Awake(r) EXCEPT !.version = step]
  <2>1. rollout' = [rollout EXCEPT ![a] = after]
    BY <1>1, <1>5, <1>8 DEF Succeed, ReplicaSucceeds, op
  <2>2. Awake(r) \in ReplicaState
    <3>1. (r.onGpu \/ r.offloaded) \in BOOLEAN
      OBVIOUS
    <3>2. PICK b \in BOOLEAN : Awake(r) = [r EXCEPT !.offloaded = FALSE, !.onGpu = b]
      BY <3>1, Zenon DEF Awake
    <3> QED BY <1>5, <3>2 DEF ReplicaState
  <2>3. [Awake(r) EXCEPT !.version = step] \in ReplicaState
    <3> DEFINE w == Awake(r)
    <3> HIDE DEF w
    <3>1. w \in ReplicaState
      BY <2>2 DEF w
    <3>2. [w EXCEPT !.version = step] \in ReplicaState
      BY <1>5, <3>1 DEF ReplicaState
    <3> QED BY <3>2 DEF w
  <2>4. /\ [r EXCEPT !.offloaded = TRUE, !.onGpu = FALSE] \in ReplicaState
        /\ [r EXCEPT !.offloaded = TRUE, !.onGpu = FALSE].onGpu = FALSE
    BY <1>5 DEF ReplicaState
  <2>5. after \in ReplicaState /\ (op = "leave" => after.onGpu = FALSE)
    BY <1>3, <2>2, <2>3, <2>4 DEF ReplicaCalls
  <2> HIDE DEF after
  <2> QED BY <1>4, <1>5, <2>1, <2>5 DEF op
<1> QED BY <1>6, <1>7, <1>8 DEF Actor
-----------------------------------------------------------------------------
(* Leases, and the calls that are posted under them. *)

LEMMA TokenFacts ==
  ASSUME Shape, NEW g \in Gpus, NEW role \in Lease!Roles, NEW holder \in Holders,
         Leased(g, role, holder)
  PROVE  /\ Lease!TokenOf(g, lease[g]) =
              [gpu |-> g, role |-> role, holder |-> holder, epoch |-> lease[g].epoch]
         /\ Lease!TokenOf(g, lease[g]) \in Lease!Token
         /\ Lease!AssertActive(Lease!TokenOf(g, lease[g]))
<1>1. lease[g] \in Lease!LeaseState /\ lease[g].role = role /\ lease[g].holder = holder
  BY DEF Shape, Lease!LeaseTypeOK, Leased, Lease!Holds
<1>2. role \in Supported[g] /\ ~lease[g].failed
  BY <1>1, Plan DEF Shape, Lease!LeaseTypeOK
<1>3. Lease!TokenOf(g, lease[g]) =
        [gpu |-> g, role |-> role, holder |-> holder, epoch |-> lease[g].epoch]
  BY <1>1 DEF Lease!TokenOf
<1>4. lease[g].epoch \in Nat
  BY <1>1 DEF Lease!LeaseState
<1> QED BY <1>1, <1>2, <1>3, <1>4 DEF Lease!Token, Lease!AssertActive, Lease!Holds

LEMMA GrantFacts ==
  ASSUME Shape, NEW g \in Shared, NEW role \in {"rollout", "trainer"}, NEW holder \in Holders,
         ~Leased(g, role, holder), Lease!Grant(g, role, holder)
  PROVE  /\ Lease!LeaseTypeOK' /\ Leased(g, role, holder)'
         /\ \A h \in Gpus : h # g => lease'[h] = lease[h]
<1> DEFINE state == [role |-> role, holder |-> holder,
                     epoch |-> lease[g].epoch + 1, failed |-> FALSE]
<1>1. /\ lease' = [lease EXCEPT ![g] = state]
      /\ issued' = issued \cup {Lease!TokenOf(g, lease'[g])}
  BY DEF Lease!Grant, Leased, Lease!NextEpoch
<1>2. g \in Gpus /\ lease \in [Gpus -> Lease!LeaseState] /\ lease[g].epoch \in Nat
  BY Plan DEF Shape, Lease!LeaseTypeOK, Lease!LeaseState
<1>3. state \in Lease!LeaseState /\ state.role # NoRole /\ state.holder # NoHolder
  BY <1>2, Plan DEF Lease!LeaseState
<1>4. Lease!TokenOf(g, state) \in Lease!Token
  BY <1>2, Plan DEF Lease!TokenOf, Lease!Token
<1>5. role \in Supported[g] /\ ~state.failed /\ state.role = role /\ state.holder = holder
  BY Plan
<1> HIDE DEF state
<1>6. lease'[g] = state /\ \A h \in Gpus : h # g => lease'[h] = lease[h]
  BY <1>1, <1>2
<1>7. lease' \in [Gpus -> Lease!LeaseState]
  BY <1>1, <1>2, <1>3
<1>8. issued' \subseteq Lease!Token
  BY <1>1, <1>4, <1>6 DEF Shape, Lease!LeaseTypeOK
<1>9. \A h \in Gpus : /\ lease'[h].role # NoRole <=> lease'[h].holder # NoHolder
                      /\ lease'[h].role # NoRole => lease'[h].role \in Supported[h]
                      /\ lease'[h].failed => lease'[h].role = NoRole
  <2> TAKE h \in Gpus
  <2>1. CASE h = g
    BY <1>3, <1>5, <1>6, <2>1
  <2>2. CASE h # g
    BY <1>6, <2>2 DEF Shape, Lease!LeaseTypeOK
  <2> QED BY <2>1, <2>2
<1> QED BY <1>5, <1>6, <1>7, <1>8, <1>9 DEF Lease!LeaseTypeOK, Leased, Lease!Holds

\* The calls new are appended to the mailboxes of the actors P.
LEMMA Posted ==
  ASSUME Shape, NEW P \in SUBSET Actors, NEW new \in [P -> Call],
         mailbox' = [a \in Actors |-> IF a \in P THEN Append(mailbox[a], new[a]) ELSE mailbox[a]]
  PROVE  /\ mailbox' \in [Actors -> Seq(Call)]
         /\ \A a \in P : mailbox'[a] # <<>> /\ Last(mailbox'[a]) = new[a]
         /\ \A a \in Actors \ P : mailbox'[a] = mailbox[a]
         /\ \A a \in Actors : \A i \in DOMAIN mailbox'[a] :
              \/ a \in P /\ mailbox'[a][i] = new[a]
              \/ i \in DOMAIN mailbox[a] /\ mailbox'[a][i] = mailbox[a][i]
         /\ busy \subseteq {a \in Actors : mailbox'[a] # <<>>}
<1>1. mailbox \in [Actors -> Seq(Call)] /\ busy \subseteq {a \in Actors : mailbox[a] # <<>>}
  BY DEF Shape
<1>2. \A s \in Seq(Call), c \in Call :
        /\ Append(s, c) \in Seq(Call) /\ Append(s, c) # <<>> /\ Last(Append(s, c)) = c
        /\ \A i \in DOMAIN Append(s, c) :
             Append(s, c)[i] = c \/ (i \in DOMAIN s /\ Append(s, c)[i] = s[i])
  <2> SUFFICES ASSUME NEW s \in Seq(Call), NEW c \in Call
               PROVE  /\ Append(s, c) \in Seq(Call) /\ Append(s, c) # <<>> /\ Last(Append(s, c)) = c
                      /\ \A i \in DOMAIN Append(s, c) :
                           Append(s, c)[i] = c \/ (i \in DOMAIN s /\ Append(s, c)[i] = s[i])
    OBVIOUS
  <2>1. /\ Append(s, c) \in Seq(Call) /\ Len(Append(s, c)) = Len(s) + 1 /\ Len(s) \in Nat
        /\ Append(s, c)[Len(s) + 1] = c
        /\ \A i \in 1..Len(s) : Append(s, c)[i] = s[i]
        /\ DOMAIN s = 1..Len(s) /\ DOMAIN Append(s, c) = 1..Len(s) + 1
    OBVIOUS
  <2>2. Append(s, c) # <<>>
    BY <2>1
  <2> QED BY <2>1, <2>2 DEF Last
<1>3. mailbox' \in [Actors -> Seq(Call)]
  BY <1>1, <1>2
<1>4. \A a \in P : /\ mailbox'[a] = Append(mailbox[a], new[a])
                  /\ mailbox[a] \in Seq(Call) /\ new[a] \in Call
  BY <1>1
<1>5. \A a \in Actors \ P : mailbox'[a] = mailbox[a]
  OBVIOUS
<1>6. \A a \in P : mailbox'[a] # <<>> /\ Last(mailbox'[a]) = new[a]
  <2> TAKE a \in P
  <2>1. /\ Append(mailbox[a], new[a]) # <<>>
        /\ Last(Append(mailbox[a], new[a])) = new[a]
    BY <1>2, <1>4
  <2> QED BY <1>4, <2>1
<1>7. \A a \in Actors : \A i \in DOMAIN mailbox'[a] :
        \/ a \in P /\ mailbox'[a][i] = new[a]
        \/ i \in DOMAIN mailbox[a] /\ mailbox'[a][i] = mailbox[a][i]
  <2> TAKE a \in Actors
  <2>1. CASE a \in P
    BY <1>2, <1>4, <2>1
  <2>2. CASE a \notin P
    BY <1>5, <2>2
  <2> QED BY <2>1, <2>2
<1>8. busy \subseteq {a \in Actors : mailbox'[a] # <<>>}
  BY <1>1, <1>5, <1>6
<1> QED BY <1>3, <1>5, <1>6, <1>7, <1>8

\* The calls PostRanks(op) posts.
LEMMA PostedRanks ==
  ASSUME Shape, NEW op \in Training, \A g \in Shared : WithTrainer(g), PostRanks(op)
  PROVE  /\ mailbox' \in [Actors -> Seq(Call)]
         /\ \A a \in Takers(op) : mailbox'[a] # <<>> /\ Last(mailbox'[a]).op = op
                                  /\ Last(mailbox'[a]).awaited
         /\ \A a \in Actors \ Takers(op) : mailbox'[a] = mailbox[a]
         /\ \A a \in Actors : \A i \in DOMAIN mailbox'[a] :
              \/ /\ a \in Takers(op) /\ mailbox'[a][i].op = op
                 /\ \A t \in mailbox'[a][i].under : TokenHolds(a, t)
              \/ i \in DOMAIN mailbox[a] /\ mailbox'[a][i] = mailbox[a][i]
         /\ busy \subseteq {a \in Actors : mailbox'[a] # <<>>}
         /\ Takers(op) \subseteq Shared
<1> DEFINE new == [a \in Takers(op) |-> NewCall(op, {a})]
<1>1. Takers(op) \subseteq Shared /\ Takers(op) \in SUBSET Actors
  BY WindowAssumption, Plan DEF Takers
<1>2. \A g \in Shared : LET t == Lease!TokenOf(g, lease[g]) IN t \in Lease!Token /\ TokenHolds(g, t)
  BY Plan, TokenFacts DEF WithTrainer, TokenHolds
<1>3. \A g \in Shared : Tokens({g}) = {Lease!TokenOf(g, lease[g])}
  BY DEF Tokens
<1>4. \A g \in Shared : /\ NewCall(op, {g}) \in Call
                        /\ NewCall(op, {g}).op = op /\ NewCall(op, {g}).awaited = TRUE
                        /\ \A t \in NewCall(op, {g}).under : TokenHolds(g, t)
  BY <1>2, <1>3 DEF NewCall, Call
<1>5. new \in [Takers(op) -> Call] /\ \A a \in Takers(op) : new[a] = NewCall(op, {a})
  BY <1>1, <1>4
<1>6. mailbox' = [a \in Actors |->
        IF a \in Takers(op) THEN Append(mailbox[a], new[a]) ELSE mailbox[a]]
  BY DEF PostRanks
<1> HIDE DEF new
<1>7. /\ mailbox' \in [Actors -> Seq(Call)]
      /\ \A a \in Takers(op) : mailbox'[a] # <<>> /\ Last(mailbox'[a]) = new[a]
      /\ \A a \in Actors \ Takers(op) : mailbox'[a] = mailbox[a]
      /\ \A a \in Actors : \A i \in DOMAIN mailbox'[a] :
           \/ a \in Takers(op) /\ mailbox'[a][i] = new[a]
           \/ i \in DOMAIN mailbox[a] /\ mailbox'[a][i] = mailbox[a][i]
      /\ busy \subseteq {a \in Actors : mailbox'[a] # <<>>}
  BY <1>1, <1>5, <1>6, Posted
<1>8. \A a \in Takers(op) : new[a].op = op /\ new[a].awaited = TRUE
                           /\ \A t \in new[a].under : TokenHolds(a, t)
  BY <1>1, <1>4, <1>5
<1> QED BY <1>1, <1>7, <1>8

\* The calls PostReplicas(op, P) posts.
LEMMA PostedReplicas ==
  ASSUME Shape, NEW op \in ReplicaCalls, NEW P \in SUBSET Replicas, PostReplicas(op, P)
  PROVE  /\ mailbox' \in [Actors -> Seq(Call)]
         /\ \A a \in P : mailbox'[a] # <<>> /\ Last(mailbox'[a]).op = op
                         /\ Last(mailbox'[a]).awaited
         /\ \A a \in Actors \ P : mailbox'[a] = mailbox[a]
         /\ \A a \in Actors : \A i \in DOMAIN mailbox'[a] :
              \/ /\ a \in P /\ mailbox'[a][i].op = op
                 /\ \A t \in mailbox'[a][i].under : TokenHolds(a, t)
              \/ i \in DOMAIN mailbox[a] /\ mailbox'[a][i] = mailbox[a][i]
         /\ busy \subseteq {a \in Actors : mailbox'[a] # <<>>}
<1> DEFINE new == [a \in P |-> NewCall(op, GpusOf[a])]
<1>1. P \in SUBSET Actors
  BY Plan
<1>2. \A p \in P : \A g \in GpusOf[p] :
        Lease!TokenOf(g, lease[g]) \in Lease!Token /\ TokenHolds(p, Lease!TokenOf(g, lease[g]))
  <2> SUFFICES ASSUME NEW p \in P, NEW g \in GpusOf[p]
               PROVE  /\ Lease!TokenOf(g, lease[g]) \in Lease!Token
                      /\ TokenHolds(p, Lease!TokenOf(g, lease[g]))
    OBVIOUS
  <2>1. g \in Gpus /\ FirstHolder[g] \in Holders /\ "rollout" \in Lease!Roles
    BY WindowAssumption, Plan DEF Lease!LeaseAssumption
  <2>2. Leased(g, "rollout", FirstHolder[g])
    BY DEF PostReplicas, WithRollout
  <2> DEFINE t == Lease!TokenOf(g, lease[g])
  <2>3. /\ t = [gpu |-> g, role |-> "rollout", holder |-> FirstHolder[g], epoch |-> lease[g].epoch]
        /\ t \in Lease!Token /\ Lease!AssertActive(t)
    BY <2>1, <2>2, TokenFacts
  <2> HIDE DEF t
  <2>4. t \in Lease!Token /\ TokenHolds(p, t)
    BY <2>3 DEF TokenHolds
  <2> QED BY <2>4 DEF t
<1>3. \A a \in P : /\ NewCall(op, GpusOf[a]) \in Call
                   /\ NewCall(op, GpusOf[a]).op = op /\ NewCall(op, GpusOf[a]).awaited = TRUE
                   /\ \A t \in NewCall(op, GpusOf[a]).under : TokenHolds(a, t)
  <2> SUFFICES ASSUME NEW a \in P
               PROVE  /\ NewCall(op, GpusOf[a]) \in Call
                      /\ NewCall(op, GpusOf[a]).op = op /\ NewCall(op, GpusOf[a]).awaited = TRUE
                      /\ \A t \in NewCall(op, GpusOf[a]).under : TokenHolds(a, t)
    OBVIOUS
  <2>1. \A t \in Tokens(GpusOf[a]) : t \in Lease!Token /\ TokenHolds(a, t)
    BY <1>2 DEF Tokens
  <2>2. Tokens(GpusOf[a]) \in SUBSET Lease!Token /\ op \in Training \cup {"wake", "activate"}
    BY <2>1 DEF Training, ReplicaCalls
  <2> QED BY <2>1, <2>2 DEF NewCall, Call
<1>4. new \in [P -> Call] /\ \A a \in P : new[a] = NewCall(op, GpusOf[a])
  BY <1>3
<1>5. mailbox' = [a \in Actors |-> IF a \in P THEN Append(mailbox[a], new[a]) ELSE mailbox[a]]
  BY DEF PostReplicas
<1> HIDE DEF new
<1>6. /\ mailbox' \in [Actors -> Seq(Call)]
      /\ \A a \in P : mailbox'[a] # <<>> /\ Last(mailbox'[a]) = new[a]
      /\ \A a \in Actors \ P : mailbox'[a] = mailbox[a]
      /\ \A a \in Actors : \A i \in DOMAIN mailbox'[a] :
           \/ a \in P /\ mailbox'[a][i] = new[a]
           \/ i \in DOMAIN mailbox[a] /\ mailbox'[a][i] = mailbox[a][i]
      /\ busy \subseteq {a \in Actors : mailbox'[a] # <<>>}
  BY <1>1, <1>4, <1>5, Posted
<1> QED BY <1>3, <1>4, <1>6
-----------------------------------------------------------------------------
(* Every step preserves IInv. *)

\* When nothing has failed and the driver waits for nothing, nobody has a call.
LEMMA AllAnswered ==
  ASSUME Shape, Handover, Gathered, pc \in Waiting
  PROVE  \A a \in Actors : mailbox[a] = <<>>
<1> SUFFICES ASSUME NEW a \in Actors, mailbox[a] # <<>> PROVE FALSE
  OBVIOUS
<1>1. ~raised /\ Last(mailbox[a]).awaited
  BY DEF Gathered, Handover, LastCalls
<1>2. Len(mailbox[a]) \in DOMAIN mailbox[a]
  <2>1. mailbox[a] \in Seq(Call)
    BY DEF Shape
  <2> QED BY <2>1
<1> QED BY <1>1, <1>2 DEF Gathered, Awaited, Last

LEMMA Nobody ==
  ASSUME \A a \in Actors : mailbox'[a] = <<>>
  PROVE  Quiet' /\ LastCalls' /\ TokensHold'
<1>1. \A a \in Actors : DOMAIN mailbox'[a] = {}
  OBVIOUS
<1>2. Quiet'
  BY Plan DEF Quiet
<1>3. LastCalls'
  BY DEF LastCalls
<1>4. TokensHold'
  BY <1>1 DEF TokensHold
<1> QED BY <1>2, <1>3, <1>4

LEMMA TokensStay ==
  ASSUME TokensHold, UNCHANGED lease,
         \A a \in Actors : \A i \in DOMAIN mailbox'[a] :
           \/ \A t \in mailbox'[a][i].under : TokenHolds(a, t)
           \/ \E j \in DOMAIN mailbox[a] : mailbox'[a][i].under = mailbox[a][j].under
  PROVE  TokensHold'
<1>1. \A a, t : TokenHolds(a, t)' <=> TokenHolds(a, t)
  BY DEF TokenHolds, Lease!AssertActive, Lease!Holds
<1> QED BY <1>1 DEF TokensHold

LEMMA LeasesStay ==
  ASSUME UNCHANGED lease
  PROVE  /\ \A g \in Shared : WithTrainer(g)' <=> WithTrainer(g)
         /\ \A g \in Shared : WithRollout(g)' <=> WithRollout(g)
BY DEF WithTrainer, WithRollout, Leased, Lease!Holds

\* Steps of the driver that post no call and grant no lease.
LEMMA DriverOnly ==
  ASSUME Shape, UNCHANGED <<actorVars, leaseVars>>,
         pc' \in Phases, step' = step, pc # "idle",
         batch' = batch \/ (\E o \in {"acked", "released"} : Settle(o)),
         raised' \in BOOLEAN, swallowed' \in BOOLEAN,
         saved' = saved \/ KeepStates,
         swallowed' => pc' \in {"give back", "wake", "failed"} /\ batch'[step] = "released"
  PROVE  Shape'
<1>1. batch' \in [1..MaxSteps -> {"none", "reserved", "acked", "released"}]
  BY DEF Shape, Settle
<1>2. \A g \in Shared : trainer[g].steps \in Nat
  BY DEF Shape, RankState
<1>3. saved' \in [Shared -> Nat \cup {NoState}] /\ \A g \in Shared : saved[g] \in Nat => saved'[g] \in Nat
  BY <1>2 DEF Shape, KeepStates
<1>4. Lease!LeaseTypeOK'
  BY DEF Shape, leaseVars, Lease!LeaseTypeOK
<1>5. /\ mailbox' = mailbox /\ busy' = busy /\ trainer' = trainer /\ rollout' = rollout
  BY DEF actorVars
<1> QED BY <1>1, <1>3, <1>4, <1>5 DEF Shape

LEMMA AckIInv == IInv /\ Ack => IInv'
<1> SUFFICES ASSUME IInv, Ack PROVE IInv'
  OBVIOUS
<1>1. /\ pc = "leave" /\ pc' = "give back" /\ Gathered /\ ~swallowed /\ Shape /\ Handover
      /\ UNCHANGED <<step, raised, swallowed, actorVars, leaseVars>>
      /\ Settle("acked") /\ KeepStates
  BY DEF Ack, IInv, Shape
<1>2. Shape'
  <2>1. raised' \in BOOLEAN /\ swallowed' \in BOOLEAN /\ ~swallowed'
    BY <1>1 DEF Shape
  <2> QED BY <1>1, <2>1, DriverOnly DEF Phases
<1>3. \A a \in Actors : mailbox[a] = <<>>
  BY <1>1, AllAnswered DEF Waiting, Working, Training
<1>4. mailbox' = mailbox /\ trainer' = trainer /\ rollout' = rollout /\ lease' = lease
  BY <1>1 DEF actorVars, leaseVars
<1>5. Quiet' /\ LastCalls' /\ TokensHold'
  BY <1>3, <1>4, Nobody
<1>6. LeasesFollow'
  BY <1>1, <1>4, LeasesStay DEF LeasesFollow, Handover, Working, Training
<1>7. OffGpu'
  BY <1>1, <1>3, <1>4, Plan DEF OffGpu, Handover, Gathered, Working, Training
<1> QED BY <1>2, <1>5, <1>6, <1>7 DEF IInv, Handover

LEMMA NoRoomIInv == IInv /\ NoRoom => IInv'
<1> SUFFICES ASSUME IInv, NoRoom PROVE IInv'
  OBVIOUS
<1>1. /\ pc = "make room" /\ pc' = "give back" /\ ~swallowed /\ Shape /\ Handover
      /\ UNCHANGED <<step, swallowed, saved, actorVars, leaseVars>>
      /\ raised' = FALSE /\ Settle("released")
  BY DEF NoRoom, IInv, Shape
<1>2. Shape'
  <2>1. swallowed' \in BOOLEAN /\ ~swallowed'
    BY <1>1 DEF Shape
  <2> QED BY <1>1, <2>1, DriverOnly DEF Phases
<1>3. mailbox' = mailbox /\ trainer' = trainer /\ rollout' = rollout /\ lease' = lease
  BY <1>1 DEF actorVars, leaseVars
<1>4. Quiet' /\ LastCalls'
  BY <1>1, <1>3, Plan DEF Quiet, LastCalls, Handover, Waiting, Working, Training
<1>5. TokensHold'
  BY <1>1, <1>3, TokensStay DEF Handover
<1>6. LeasesFollow'
  BY <1>1, <1>3, LeasesStay DEF LeasesFollow, Handover, Working, Training
<1>7. OffGpu'
  BY <1>1, <1>3 DEF OffGpu, Handover, Working, Training
<1> QED BY <1>2, <1>4, <1>5, <1>6, <1>7 DEF IInv, Handover

\* Once the clean-up has returned, the ranks are off the GPUs; if it has not,
\* the driver goes on all the same, and says no more than that.
LEMMA ReleaseIInv == IInv /\ Release => IInv'
<1> SUFFICES ASSUME IInv, Release PROVE IInv'
  OBVIOUS
<1>1. /\ pc = "clean up" /\ pc' = "give back" /\ ~swallowed /\ Shape /\ Handover
      /\ UNCHANGED <<step, actorVars, leaseVars>>
      /\ raised' = FALSE /\ Settle("released")
      /\ \/ Gathered /\ KeepStates /\ UNCHANGED swallowed
         \/ raised /\ swallowed' = TRUE /\ UNCHANGED saved
  BY DEF Release, IInv, Shape
<1>2. step \in 1..MaxSteps /\ batch'[step] = "released"
  <2>1. step \in 0..MaxSteps /\ step # 0 /\ MaxSteps \in Nat
    BY <1>1, Plan DEF Shape
  <2>2. step \in 1..MaxSteps
    BY <2>1
  <2> QED BY <1>1, <2>2 DEF Shape, Settle
<1>3. Shape'
  <2>1. swallowed' \in BOOLEAN
    BY <1>1 DEF Shape
  <2> QED BY <1>1, <1>2, <2>1, DriverOnly DEF Phases
<1>4. CASE swallowed'
  BY <1>3, <1>4 DEF IInv
<1>5. CASE ~swallowed'
  <2>1. \A a \in Actors : mailbox[a] = <<>>
    BY <1>1, <1>5, AllAnswered DEF Waiting, Working, Training
  <2>2. mailbox' = mailbox /\ trainer' = trainer /\ rollout' = rollout /\ lease' = lease
    BY <1>1 DEF actorVars, leaseVars
  <2>3. Quiet' /\ LastCalls' /\ TokensHold'
    BY <2>1, <2>2, Nobody
  <2>4. LeasesFollow'
    BY <1>1, <2>2, LeasesStay DEF LeasesFollow, Handover, Working, Training
  <2>5. OffGpu'
    BY <1>1, <1>5, <2>1, <2>2, Plan DEF OffGpu, Handover, Gathered, Working, Training
  <2> QED BY <1>3, <2>3, <2>4, <2>5 DEF IInv, Handover
<1> QED BY <1>4, <1>5

\* EndWindow, EndStep and Die only close a phase in which the rollout has the GPUs.
LEMMA EndIInv == IInv /\ (EndWindow \/ EndStep \/ Die) => IInv'
<1> SUFFICES ASSUME IInv, EndWindow \/ EndStep \/ Die PROVE IInv'
  OBVIOUS
<1>1. /\ UNCHANGED <<step, batch, swallowed, saved, actorVars, leaseVars>> /\ Shape
      /\ pc \in {"wake", "activate"} /\ pc' \in {"activate", "done", "idle", "failed"}
      /\ swallowed => pc' = "failed"
      /\ raised' \in BOOLEAN
      /\ pc' = "failed" \/ Gathered
  BY DEF EndWindow, EndStep, Die, IInv, Shape
<1>2. Shape'
  <2>1. swallowed' \in BOOLEAN /\ pc' \in Phases
    BY <1>1 DEF Shape, Phases
  <2>2. swallowed' => pc' = "failed" /\ batch'[step] = "released"
    BY <1>1 DEF Shape
  <2> QED BY <1>1, <2>1, <2>2, DriverOnly
<1>3. CASE swallowed'
  BY <1>2, <1>3 DEF IInv
<1>4. CASE ~swallowed'
  <2>1. Handover
    BY <1>1, <1>4 DEF IInv
  <2>2. mailbox' = mailbox /\ trainer' = trainer /\ rollout' = rollout /\ lease' = lease
    BY <1>1 DEF actorVars, leaseVars
  <2>3. pc' = "failed" \/ \A a \in Actors : mailbox[a] = <<>>
    BY <1>1, <2>1, AllAnswered DEF Waiting
  <2>4. Quiet' /\ LastCalls'
    BY <1>1, <2>1, <2>2, <2>3, Plan DEF Quiet, LastCalls, Handover, Waiting, Working, Training
  <2>5. TokensHold'
    BY <2>1, <2>2, TokensStay DEF Handover
  <2>6. LeasesFollow'
    BY <1>1, <2>1, <2>2, LeasesStay DEF LeasesFollow, Handover, Working, Training
  <2>7. OffGpu'
    BY <1>1, <2>1, <2>2 DEF OffGpu, Handover, Working, Training
  <2> QED BY <1>2, <2>4, <2>5, <2>6, <2>7 DEF IInv, Handover
<1> QED BY <1>3, <1>4
LEMMA ReplicasCalled ==
  ASSUME Shape, NEW P \in SUBSET Replicas, NEW op \in ReplicaCalls,
         UNCHANGED <<raised, swallowed, saved, busy, trainer, rollout, lease, issued>>,
         mailbox' \in [Actors -> Seq(Call)],
         \A a \in Actors \ P : mailbox'[a] = mailbox[a],
         \A a \in Actors : \A i \in DOMAIN mailbox'[a] :
           \/ /\ a \in P /\ mailbox'[a][i].op = op
              /\ \A t \in mailbox'[a][i].under : TokenHolds(a, t)
           \/ i \in DOMAIN mailbox[a] /\ mailbox'[a][i] = mailbox[a][i],
         busy \subseteq {a \in Actors : mailbox'[a] # <<>>},
         pc' \in Phases, step' \in 1..MaxSteps,
         batch' \in [1..MaxSteps -> {"none", "reserved", "acked", "released"}],
         swallowed => pc' \in {"give back", "wake", "failed"} /\ batch'[step'] = "released"
  PROVE  Shape'
<1>1. Lease!LeaseTypeOK'
  BY DEF Shape, Lease!LeaseTypeOK
<1>2. \A g \in Shared : mailbox'[g] = mailbox[g]
  BY Plan
<1>3. /\ \A g \in Shared : \A i \in DOMAIN mailbox[g] : mailbox[g][i].op \in RankCalls
      /\ \A g \in Shared : \A i \in DOMAIN mailbox[g] :
           mailbox[g][i].op = "hydrate" => saved[g] \in Nat
      /\ \A q \in Replicas : \A i \in DOMAIN mailbox[q] : mailbox[q][i].op \in ReplicaCalls
  BY DEF Shape
<1>4. \A q \in Replicas : \A i \in DOMAIN mailbox'[q] : mailbox'[q][i].op \in ReplicaCalls
  <2>1. Replicas \subseteq Actors
    BY Plan
  <2> QED BY <1>3, <2>1
<1>5. step' \in 0..MaxSteps /\ step' # 0
  BY StepNumbers
<1>6. /\ saved' \in [Shared -> Nat \cup {NoState}] /\ raised' \in BOOLEAN /\ swallowed' \in BOOLEAN
      /\ trainer' \in [Shared -> RankState] /\ rollout' \in [Replicas -> ReplicaState]
  BY DEF Shape
<1> QED BY <1>1, <1>2, <1>3, <1>4, <1>5, <1>6 DEF Shape

LEMMA BeginWindowIInv == IInv /\ BeginWindow => IInv'
<1> SUFFICES ASSUME IInv, BeginWindow PROVE IInv'
  OBVIOUS
<1>1. /\ pc = "idle" /\ pc' = "make room" /\ ~swallowed /\ Shape /\ Handover
      /\ UNCHANGED <<raised, swallowed, saved, busy, trainer, rollout, leaseVars>>
      /\ step' = step + 1 /\ step < MaxSteps /\ batch' = [batch EXCEPT ![step + 1] = "reserved"]
      /\ PostReplicas("leave", SharedReplicas)
  BY DEF BeginWindow, IInv, Shape
<1>2. \A a \in Actors : mailbox[a] = <<>>
  BY <1>1, Plan DEF Handover, Quiet, Working, Training
<1>3. /\ mailbox' \in [Actors -> Seq(Call)]
      /\ \A a \in SharedReplicas : mailbox'[a] # <<>> /\ Last(mailbox'[a]).op = "leave"
                                   /\ Last(mailbox'[a]).awaited
      /\ \A a \in Actors \ SharedReplicas : mailbox'[a] = mailbox[a]
      /\ \A a \in Actors : \A i \in DOMAIN mailbox'[a] :
           \/ /\ a \in SharedReplicas /\ mailbox'[a][i].op = "leave"
              /\ \A t \in mailbox'[a][i].under : TokenHolds(a, t)
           \/ i \in DOMAIN mailbox[a] /\ mailbox'[a][i] = mailbox[a][i]
      /\ busy \subseteq {a \in Actors : mailbox'[a] # <<>>}
  BY <1>1, Plan, PostedReplicas DEF ReplicaCalls
<1>4. Shape'
  <2>1. step \in 0..MaxSteps /\ MaxSteps \in Nat /\ step < MaxSteps /\ step' = step + 1
    BY <1>1, Plan DEF Shape
  <2>2. step' \in 1..MaxSteps
    BY <2>1
  <2>3. batch' \in [1..MaxSteps -> {"none", "reserved", "acked", "released"}]
    BY <1>1, <2>2 DEF Shape
  <2>4. /\ pc' \in Phases /\ "leave" \in ReplicaCalls /\ SharedReplicas \in SUBSET Replicas
        /\ ~swallowed /\ UNCHANGED <<raised, swallowed, saved, busy, trainer, rollout, lease, issued>>
    BY <1>1, Plan DEF Phases, ReplicaCalls, leaseVars
  <2> QED BY <1>1, <1>3, <2>2, <2>3, <2>4, ReplicasCalled
<1>5. Quiet' /\ LastCalls'
  BY <1>1, <1>2, <1>3, Plan DEF Quiet, LastCalls, Working, Training
<1>6. TokensHold'
  BY <1>1, <1>3, TokensStay DEF Handover, leaseVars
<1>7. LeasesFollow'
  BY <1>1, LeasesStay DEF LeasesFollow, Handover, Working, Training, leaseVars
<1>8. OffGpu'
  BY <1>1, <1>3, Plan DEF OffGpu, Handover, Working, Training
<1> QED BY <1>4, <1>5, <1>6, <1>7, <1>8 DEF IInv, Handover

LEMMA WakeIInv == IInv /\ Wake => IInv'
<1> SUFFICES ASSUME IInv, Wake PROVE IInv'
  OBVIOUS
<1>1. /\ pc = "give back" /\ pc' = "wake" /\ Shape /\ \A g \in Shared : WithRollout(g)
      /\ UNCHANGED <<step, batch, raised, swallowed, saved, busy, trainer, rollout, leaseVars>>
      /\ PostReplicas("wake", SharedReplicas)
  BY DEF Wake, IInv
<1>2. /\ mailbox' \in [Actors -> Seq(Call)]
      /\ \A a \in SharedReplicas : mailbox'[a] # <<>> /\ Last(mailbox'[a]).op = "wake"
                                   /\ Last(mailbox'[a]).awaited
      /\ \A a \in Actors \ SharedReplicas : mailbox'[a] = mailbox[a]
      /\ \A a \in Actors : \A i \in DOMAIN mailbox'[a] :
           \/ /\ a \in SharedReplicas /\ mailbox'[a][i].op = "wake"
              /\ \A t \in mailbox'[a][i].under : TokenHolds(a, t)
           \/ i \in DOMAIN mailbox[a] /\ mailbox'[a][i] = mailbox[a][i]
      /\ busy \subseteq {a \in Actors : mailbox'[a] # <<>>}
  BY <1>1, Plan, PostedReplicas DEF ReplicaCalls
<1>3. Shape'
  <2>1. /\ step \in 0..MaxSteps /\ step # 0 /\ MaxSteps \in Nat
        /\ batch \in [1..MaxSteps -> {"none", "reserved", "acked", "released"}]
        /\ swallowed => batch[step] = "released"
    BY <1>1, Plan DEF Shape
  <2>2. step \in 1..MaxSteps
    BY <2>1
  <2>3. /\ pc' \in Phases /\ pc' = "wake" /\ "wake" \in ReplicaCalls
        /\ SharedReplicas \in SUBSET Replicas /\ UNCHANGED <<step, batch>>
        /\ UNCHANGED <<raised, swallowed, saved, busy, trainer, rollout, lease, issued>>
    BY <1>1, Plan DEF Phases, ReplicaCalls, leaseVars
  <2>4. /\ step' \in 1..MaxSteps
        /\ batch' \in [1..MaxSteps -> {"none", "reserved", "acked", "released"}]
        /\ swallowed => pc' \in {"give back", "wake", "failed"} /\ batch'[step'] = "released"
    BY <2>1, <2>2, <2>3
  <2> QED BY <1>1, <1>2, <2>3, <2>4, ReplicasCalled
<1>4. CASE swallowed
  BY <1>1, <1>3, <1>4 DEF IInv
<1>5. CASE ~swallowed
  <2>1. Handover
    BY <1>5 DEF IInv
  <2>2. \A a \in Actors \ SharedReplicas : mailbox'[a] = <<>>
    BY <1>1, <1>2, <2>1, Plan DEF Handover, Quiet, Working, Training
  <2>3. Quiet' /\ LastCalls'
    BY <1>1, <1>2, <2>2, Plan DEF Quiet, LastCalls, Working, Training
  <2>4. TokensHold'
    BY <1>1, <1>2, <2>1, TokensStay DEF Handover, leaseVars
  <2>5. LeasesFollow'
    BY <1>1, LeasesStay DEF LeasesFollow, Working, Training, leaseVars
  <2>6. OffGpu'
    BY <1>1, <2>1 DEF OffGpu, Handover, Working, Training
  <2> QED BY <1>3, <2>3, <2>4, <2>5, <2>6 DEF IInv, Handover
<1> QED BY <1>4, <1>5

LEMMA ActivateIInv == ASSUME NEW p \in Replicas PROVE IInv /\ Activate(p) => IInv'
<1> SUFFICES ASSUME IInv, Activate(p) PROVE IInv'
  OBVIOUS
<1>1. /\ pc = "activate" /\ ~swallowed /\ Shape /\ Handover /\ Gathered
      /\ UNCHANGED <<pc, step, batch, raised, swallowed, saved>>
      /\ UNCHANGED <<busy, trainer, rollout, lease, issued>>
      /\ PostReplicas("activate", {p})
  BY DEF Activate, IInv, Shape, driverVars, leaseVars
<1>2. \A a \in Actors : mailbox[a] = <<>>
  BY <1>1, AllAnswered DEF Waiting
<1>3. /\ mailbox' \in [Actors -> Seq(Call)]
      /\ \A a \in {p} : mailbox'[a] # <<>> /\ Last(mailbox'[a]).op = "activate"
                        /\ Last(mailbox'[a]).awaited
      /\ \A a \in Actors \ {p} : mailbox'[a] = mailbox[a]
      /\ \A a \in Actors : \A i \in DOMAIN mailbox'[a] :
           \/ /\ a \in {p} /\ mailbox'[a][i].op = "activate"
              /\ \A t \in mailbox'[a][i].under : TokenHolds(a, t)
           \/ i \in DOMAIN mailbox[a] /\ mailbox'[a][i] = mailbox[a][i]
      /\ busy \subseteq {a \in Actors : mailbox'[a] # <<>>}
  <2>1. {p} \in SUBSET Replicas /\ "activate" \in ReplicaCalls
    BY DEF ReplicaCalls
  <2> QED BY <1>1, <2>1, PostedReplicas
<1>4. Shape'
  <2>1. /\ step \in 0..MaxSteps /\ step # 0 /\ MaxSteps \in Nat
        /\ batch \in [1..MaxSteps -> {"none", "reserved", "acked", "released"}]
    BY <1>1, Plan DEF Shape
  <2>2. step' \in 1..MaxSteps
    BY <1>1, <2>1
  <2>3. pc' \in Phases /\ "activate" \in ReplicaCalls /\ {p} \in SUBSET Replicas
    BY <1>1 DEF Phases, ReplicaCalls
  <2> QED BY <1>1, <1>3, <2>1, <2>2, <2>3, ReplicasCalled
<1>5. Quiet' /\ LastCalls'
  BY <1>1, <1>2, <1>3, Plan DEF Quiet, LastCalls, Working, Training
<1>6. TokensHold'
  BY <1>1, <1>3, TokensStay DEF Handover
<1>7. LeasesFollow'
  BY <1>1, LeasesStay DEF LeasesFollow, Handover, Working, Training
<1>8. OffGpu'
  BY <1>1 DEF OffGpu, Handover, Working, Training
<1> QED BY <1>4, <1>5, <1>6, <1>7, <1>8 DEF IInv, Handover
LEMMA NextCallIInv == IInv /\ NextCall => IInv'
<1> SUFFICES ASSUME IInv, NextCall PROVE IInv'
  OBVIOUS
<1> DEFINE op == After(pc)
<1>1. /\ pc \in ({"make room"} \cup Training) \ {"leave"} /\ pc' = op
      /\ ~swallowed /\ Shape /\ Handover /\ Gathered
      /\ \A g \in Shared : WithTrainer(g)
      /\ UNCHANGED <<step, batch, raised, swallowed, busy, trainer, rollout, leaseVars>>
      /\ PostRanks(op)
      /\ IF pc \in {"initialize", "hydrate"} THEN KeepStates ELSE UNCHANGED saved
  BY DEF NextCall, IInv, Shape, Training
<1>2. op \in Training /\ (op = "hydrate" /\ pc # "initialize" => pc = "make room" /\ Initialized)
  BY <1>1 DEF After, Training
<1> HIDE DEF op
<1>3. \A a \in Actors : mailbox[a] = <<>>
  BY <1>1, AllAnswered DEF Waiting, Working
<1>4. /\ mailbox' \in [Actors -> Seq(Call)]
      /\ \A a \in Takers(op) : mailbox'[a] # <<>> /\ Last(mailbox'[a]).op = op
                               /\ Last(mailbox'[a]).awaited
      /\ \A a \in Actors \ Takers(op) : mailbox'[a] = mailbox[a]
      /\ \A a \in Actors : \A i \in DOMAIN mailbox'[a] :
           \/ /\ a \in Takers(op) /\ mailbox'[a][i].op = op
              /\ \A t \in mailbox'[a][i].under : TokenHolds(a, t)
           \/ i \in DOMAIN mailbox[a] /\ mailbox'[a][i] = mailbox[a][i]
      /\ busy \subseteq {a \in Actors : mailbox'[a] # <<>>}
      /\ Takers(op) \subseteq Shared
  BY <1>1, <1>2, PostedRanks
<1>5. Shape'
  <2>1. Lease!LeaseTypeOK'
    BY <1>1 DEF Shape, leaseVars, Lease!LeaseTypeOK
  <2>2. \A p \in Replicas : mailbox'[p] = <<>> /\ DOMAIN mailbox'[p] = {}
    BY <1>3, <1>4, Plan
  <2>3. \A g \in Shared : \A i \in DOMAIN mailbox'[g] : mailbox'[g][i].op = op
    <3>1. \A g \in Shared : DOMAIN mailbox[g] = {}
      BY <1>3, Plan
    <3> QED BY <1>4, <3>1, Plan
  <2>4. saved' \in [Shared -> Nat \cup {NoState}]
    BY <1>1 DEF Shape, RankState, KeepStates
  <2>5. op = "hydrate" => \A g \in Shared : saved'[g] \in Nat
    <3>1. CASE pc = "initialize"
      BY <1>1, <3>1 DEF Shape, RankState, KeepStates
    <3>2. CASE pc # "initialize"
      BY <1>1, <1>2, <3>2 DEF Shape, Initialized
    <3> QED BY <3>1, <3>2
  <2>6. /\ pc' \in Phases /\ pc' # "idle" /\ ~swallowed' /\ UNCHANGED <<step, batch>>
        /\ raised' \in BOOLEAN /\ swallowed' \in BOOLEAN /\ step # 0 /\ step \in 0..MaxSteps
        /\ batch \in [1..MaxSteps -> {"none", "reserved", "acked", "released"}]
        /\ busy' = busy /\ trainer' \in [Shared -> RankState]
        /\ rollout' \in [Replicas -> ReplicaState]
    BY <1>1, <1>2 DEF Shape, Phases, Training
  <2>7. \A g \in Shared : \A i \in DOMAIN mailbox'[g] :
          /\ mailbox'[g][i].op \in RankCalls
          /\ mailbox'[g][i].op = "hydrate" => saved'[g] \in Nat
    BY <1>2, <2>3, <2>5 DEF RankCalls
  <2> QED BY <1>4, <2>1, <2>2, <2>4, <2>6, <2>7 DEF Shape
<1>6. Quiet'
  BY <1>1, <1>2, <1>3, <1>4, Plan DEF Quiet, Working, Training
<1>7. LastCalls'
  <2> SUFFICES ASSUME NEW a \in Actors, mailbox'[a] # <<>>
               PROVE  /\ Last(mailbox'[a]).awaited /\ Last(mailbox'[a]).op = op
                      /\ a \notin Replicas
    BY <1>1, <1>2 DEF LastCalls, Training
  <2>1. a \in Takers(op)
    BY <1>3, <1>4
  <2> QED BY <1>4, <2>1, Plan
<1>8. TokensHold'
  BY <1>1, <1>4, TokensStay DEF Handover, leaseVars
<1>9. LeasesFollow'
  BY <1>1, <1>2, LeasesStay DEF LeasesFollow, Working, leaseVars
<1>10. OffGpu'
  <2>1. pc' \in Working /\ (pc' = "leave" => \A g \in Shared : mailbox'[g] # <<>>)
    BY <1>1, <1>2, <1>4 DEF Working, Takers
  <2>2. \A p \in SharedReplicas : ~rollout[p].onGpu
    BY <1>1, <1>3, Plan DEF Handover, OffGpu, Gathered, Working
  <2>3. pc' # "clean up"
    BY <1>1, <1>2 DEF Training
  <2> QED BY <1>1, <2>1, <2>2, <2>3 DEF OffGpu
<1> QED BY <1>5, <1>6, <1>7, <1>8, <1>9, <1>10 DEF IInv, Handover

LEMMA CleanUpIInv == IInv /\ CleanUp => IInv'
<1> SUFFICES ASSUME IInv, CleanUp PROVE IInv'
  OBVIOUS
<1>1. /\ pc \in Training /\ pc' = "clean up" /\ raised /\ raised' = FALSE
      /\ ~swallowed /\ Shape /\ Handover
      /\ UNCHANGED <<step, batch, swallowed, saved, busy, trainer, rollout, leaseVars>>
      /\ PostRanks("leave")
  BY DEF CleanUp, IInv, Shape, Training
<1>2. /\ mailbox' \in [Actors -> Seq(Call)]
      /\ \A a \in Shared : mailbox'[a] # <<>> /\ Last(mailbox'[a]).op = "leave"
                           /\ Last(mailbox'[a]).awaited
      /\ \A a \in Actors \ Shared : mailbox'[a] = mailbox[a]
      /\ \A a \in Actors : \A i \in DOMAIN mailbox'[a] :
           \/ /\ a \in Shared /\ mailbox'[a][i].op = "leave"
              /\ \A t \in mailbox'[a][i].under : TokenHolds(a, t)
           \/ i \in DOMAIN mailbox[a] /\ mailbox'[a][i] = mailbox[a][i]
      /\ busy \subseteq {a \in Actors : mailbox'[a] # <<>>}
  <2>1. \A g \in Shared : WithTrainer(g)
    BY <1>1 DEF Handover, LeasesFollow, Working
  <2> DEFINE op == "leave"
  <2>2. op \in Training /\ Takers(op) = Shared /\ PostRanks(op)
    BY <1>1 DEF Training, Takers
  <2> HIDE DEF op
  <2>3. /\ mailbox' \in [Actors -> Seq(Call)]
        /\ \A a \in Takers(op) : mailbox'[a] # <<>> /\ Last(mailbox'[a]).op = op
                                 /\ Last(mailbox'[a]).awaited
        /\ \A a \in Actors \ Takers(op) : mailbox'[a] = mailbox[a]
        /\ \A a \in Actors : \A i \in DOMAIN mailbox'[a] :
             \/ /\ a \in Takers(op) /\ mailbox'[a][i].op = op
                /\ \A t \in mailbox'[a][i].under : TokenHolds(a, t)
             \/ i \in DOMAIN mailbox[a] /\ mailbox'[a][i] = mailbox[a][i]
        /\ busy \subseteq {a \in Actors : mailbox'[a] # <<>>}
    BY <1>1, <2>1, <2>2, PostedRanks
  <2> QED BY <2>2, <2>3 DEF op
<1>3. Shape'
  <2>1. Lease!LeaseTypeOK'
    BY <1>1 DEF Shape, leaseVars, Lease!LeaseTypeOK
  <2>2. \A p \in Replicas : mailbox'[p] = mailbox[p]
    BY <1>2, Plan
  <2>3. /\ \A g \in Shared : \A i \in DOMAIN mailbox[g] : mailbox[g][i].op \in RankCalls
        /\ \A g \in Shared : \A i \in DOMAIN mailbox[g] :
             mailbox[g][i].op = "hydrate" => saved[g] \in Nat
        /\ \A q \in Replicas : \A i \in DOMAIN mailbox[q] : mailbox[q][i].op \in ReplicaCalls
    BY <1>1 DEF Shape
  <2>4. \A g \in Shared : \A i \in DOMAIN mailbox'[g] :
          /\ mailbox'[g][i].op \in RankCalls
          /\ mailbox'[g][i].op = "hydrate" => saved[g] \in Nat
    BY <1>2, <2>3, Plan DEF RankCalls, Training
  <2>5. /\ pc' \in Phases /\ pc' # "idle" /\ ~swallowed' /\ UNCHANGED <<step, batch>>
        /\ raised' \in BOOLEAN /\ swallowed' \in BOOLEAN /\ step # 0 /\ step \in 0..MaxSteps
        /\ batch \in [1..MaxSteps -> {"none", "reserved", "acked", "released"}]
        /\ busy' = busy /\ trainer' \in [Shared -> RankState]
        /\ rollout' \in [Replicas -> ReplicaState]
        /\ saved' = saved /\ saved \in [Shared -> Nat \cup {NoState}]
    BY <1>1 DEF Shape, Phases, Training
  <2> QED BY <1>2, <2>1, <2>2, <2>3, <2>4, <2>5 DEF Shape
<1>4. \A p \in Replicas : mailbox'[p] = <<>>
  BY <1>1, <1>2, Plan DEF Handover, Quiet, Working
<1>5. Quiet' /\ LastCalls'
  BY <1>1, <1>2, <1>4, Plan DEF Quiet, LastCalls, Working
<1>6. TokensHold'
  BY <1>1, <1>2, TokensStay DEF Handover, leaseVars
<1>7. LeasesFollow'
  BY <1>1, LeasesStay DEF LeasesFollow, Handover, Working, leaseVars
<1>8. OffGpu'
  BY <1>1, <1>2 DEF OffGpu, Handover, Working
<1> QED BY <1>3, <1>5, <1>6, <1>7, <1>8 DEF IInv, Handover
\* The trainer is granted a GPU when nobody has a call that could still use it.
LEMMA GrantTrainerIInv == ASSUME NEW g \in Shared PROVE IInv /\ GrantTrainer(g) => IInv'
<1> SUFFICES ASSUME IInv, GrantTrainer(g) PROVE IInv'
  OBVIOUS
<1>1. /\ pc = "make room" /\ ~swallowed /\ Shape /\ Handover /\ Gathered
      /\ UNCHANGED <<driverVars, actorVars>>
      /\ ~Leased(g, "trainer", RankHolder[g]) /\ Lease!Grant(g, "trainer", RankHolder[g])
  BY DEF GrantTrainer, IInv, Shape, WithTrainer
<1>2. \A a \in Actors : mailbox[a] = <<>>
  BY <1>1, AllAnswered DEF Waiting
<1>3. /\ Lease!LeaseTypeOK' /\ Leased(g, "trainer", RankHolder[g])'
      /\ \A h \in Gpus : h # g => lease'[h] = lease[h]
  BY <1>1, Plan, GrantFacts
<1>4. /\ UNCHANGED <<pc, step, batch, raised, swallowed, saved>>
      /\ UNCHANGED <<mailbox, busy, trainer, rollout>>
  BY <1>1 DEF driverVars, actorVars
<1>5. Shape'
  BY <1>1, <1>3, <1>4 DEF Shape
<1>6. Quiet' /\ LastCalls' /\ TokensHold'
  BY <1>2, <1>4, Nobody
<1>7. LeasesFollow'
  <2>1. pc' = "make room"
    BY <1>1, <1>4
  <2>2. \A h \in Shared : (WithTrainer(h) \/ WithRollout(h))'
    <3> TAKE h \in Shared
    <3>1. CASE h = g
      BY <1>3, <3>1 DEF WithTrainer
    <3>2. CASE h # g
      BY <1>1, <1>3, <3>2, Plan
         DEF Handover, LeasesFollow, WithTrainer, WithRollout, Leased, Lease!Holds
    <3> QED BY <3>1, <3>2
  <2> QED BY <2>1, <2>2 DEF LeasesFollow, Working, Training
<1>8. OffGpu'
  BY <1>1, <1>4 DEF OffGpu, Handover
<1> QED BY <1>5, <1>6, <1>7, <1>8 DEF IInv, Handover

\* The calls to a replica that a failed window left behind are under the lease
\* its workers still have; the GPUs granted back to the workers are others.
LEMMA GrantRolloutIInv == ASSUME NEW g \in Shared PROVE IInv /\ GrantRollout(g) => IInv'
<1> SUFFICES ASSUME IInv, GrantRollout(g) PROVE IInv'
  OBVIOUS
<1>1. /\ pc = "give back" /\ Shape
      /\ UNCHANGED <<driverVars, actorVars>>
      /\ ~Leased(g, "rollout", FirstHolder[g]) /\ Lease!Grant(g, "rollout", FirstHolder[g])
  BY DEF GrantRollout, IInv, WithRollout
<1>2. /\ Lease!LeaseTypeOK' /\ Leased(g, "rollout", FirstHolder[g])'
      /\ \A h \in Gpus : h # g => lease'[h] = lease[h]
  BY <1>1, Plan, GrantFacts
<1>3. /\ UNCHANGED <<pc, step, batch, raised, swallowed, saved>>
      /\ UNCHANGED <<mailbox, busy, trainer, rollout>>
  BY <1>1 DEF driverVars, actorVars
<1>4. Shape'
  BY <1>1, <1>2, <1>3 DEF Shape
<1>5. CASE swallowed
  BY <1>3, <1>4, <1>5 DEF IInv
<1>6. CASE ~swallowed
  <2>1. Handover
    BY <1>6 DEF IInv
  <2>2. Quiet' /\ LastCalls' /\ OffGpu'
    BY <1>3, <2>1 DEF Handover, Quiet, LastCalls, OffGpu
  <2>3. TokensHold'
    <3> SUFFICES ASSUME NEW a \in Actors, NEW i \in DOMAIN mailbox[a],
                        NEW t \in mailbox[a][i].under
                 PROVE  TokenHolds(a, t)'
      BY <1>3 DEF TokensHold
    <3>1. TokenHolds(a, t)
      BY <2>1 DEF Handover, TokensHold
    <3>2. a \in Replicas
      <4>1. mailbox[a] # <<>>
        OBVIOUS
      <4> QED BY <1>1, <2>1, <4>1, Plan DEF Handover, Quiet, Working, Training
    <3>3. t.gpu # g /\ t.gpu \in Gpus
      BY <1>1, <3>1, <3>2 DEF TokenHolds, Lease!AssertActive, Lease!Token, Leased, Lease!Holds
    <3>4. lease'[t.gpu] = lease[t.gpu]
      BY <1>2, <3>3
    <3> QED BY <3>1, <3>4 DEF TokenHolds, Lease!AssertActive, Lease!Holds
  <2>4. LeasesFollow'
    <3>1. pc' = "give back"
      BY <1>1, <1>3
    <3>2. \A h \in Shared : (WithTrainer(h) \/ WithRollout(h))'
      <4> TAKE h \in Shared
      <4>1. CASE h = g
        BY <1>2, <4>1 DEF WithRollout
      <4>2. CASE h # g
        BY <1>2, <2>1, <4>2, Plan
           DEF Handover, LeasesFollow, WithTrainer, WithRollout, Leased, Lease!Holds
      <4> QED BY <4>1, <4>2
    <3> QED BY <3>1, <3>2 DEF LeasesFollow, Working, Training
  <2> QED BY <1>4, <2>2, <2>3, <2>4 DEF IInv, Handover
<1> QED BY <1>5, <1>6

\* What an actor does moves no lease, and posts no call.
LEMMA ActorShape == ASSUME NEW a \in Actors, Shape, Actor(a) PROVE Shape'
<1>1. /\ UNCHANGED <<pc, step, batch, swallowed, saved, lease, issued>>
      /\ trainer' \in [Shared -> RankState] /\ rollout' \in [Replicas -> ReplicaState]
  <2>1. trainer \in [Shared -> RankState] /\ rollout \in [Replicas -> ReplicaState]
    BY DEF Shape
  <2>2. CASE a \in Shared
    BY <2>1, <2>2, RankMoves
  <2>3. CASE a \in Replicas
    BY <2>1, <2>3, ReplicaMoves
  <2> QED BY <2>2, <2>3, Plan
<1>2. Lease!LeaseTypeOK'
  BY <1>1 DEF Shape, Lease!LeaseTypeOK
<1>3. /\ mailbox' \in [Actors -> Seq(Call)] /\ raised' \in BOOLEAN
      /\ busy' \subseteq {b \in Actors : mailbox'[b] # <<>>}
      /\ \A b \in Actors : \A i \in DOMAIN mailbox'[b] : \E j \in DOMAIN mailbox[b] :
           mailbox'[b][i].op = mailbox[b][j].op
  <2>1. CASE Begin(a)
    BY <2>1 DEF Begin, Shape, driverVars
  <2>2. CASE Succeed(a) \/ Fail(a)
    BY <2>2, CallEnds
  <2> QED BY <2>1, <2>2 DEF Actor
<1>4. /\ \A g \in Shared : \A i \in DOMAIN mailbox'[g] : mailbox'[g][i].op \in RankCalls
      /\ \A g \in Shared : \A i \in DOMAIN mailbox'[g] :
           mailbox'[g][i].op = "hydrate" => saved[g] \in Nat
  <2> SUFFICES ASSUME NEW g \in Shared, NEW i \in DOMAIN mailbox'[g]
               PROVE  /\ mailbox'[g][i].op \in RankCalls
                      /\ mailbox'[g][i].op = "hydrate" => saved[g] \in Nat
    OBVIOUS
  <2>1. PICK j \in DOMAIN mailbox[g] : mailbox'[g][i].op = mailbox[g][j].op
    BY <1>3, Plan
  <2> QED BY <2>1 DEF Shape
<1>5. \A p \in Replicas : \A i \in DOMAIN mailbox'[p] : mailbox'[p][i].op \in ReplicaCalls
  <2> SUFFICES ASSUME NEW p \in Replicas, NEW i \in DOMAIN mailbox'[p]
               PROVE  mailbox'[p][i].op \in ReplicaCalls
    OBVIOUS
  <2>1. PICK j \in DOMAIN mailbox[p] : mailbox'[p][i].op = mailbox[p][j].op
    BY <1>3, Plan
  <2> QED BY <2>1 DEF Shape
<1> QED BY <1>1, <1>2, <1>3, <1>4, <1>5 DEF Shape
\* The heart of it: the last call of a rank that leaves, or of a replica that
\* makes room, is the one by which it leaves, and it is waited for; when it is
\* gone and nothing was raised, it returned.
LEMMA ActorOffGpu ==
  ASSUME NEW a \in Actors, Shape, Handover, ~swallowed, Actor(a)
  PROVE  OffGpu'
<1>1. /\ pc' = pc /\ (~raised' => ~raised) /\ mailbox[a] # <<>>
      /\ \A b \in Actors : b # a /\ mailbox'[b] = <<>> => mailbox[b] = <<>>
  <2>1. CASE Begin(a)
    BY <2>1 DEF Begin, driverVars
  <2>2. CASE Succeed(a) \/ Fail(a)
    <3>1. pc' = pc
      BY <2>2 DEF Succeed, Fail, driverVars
    <3> QED BY <2>2, <3>1, CallEnds
  <2> QED BY <2>1, <2>2 DEF Actor
\* The call it ended was waited for, and nothing was raised: it returned.
<1>2. ASSUME mailbox'[a] = <<>>, ~raised', pc \in Waiting
      PROVE  Succeed(a) /\ ~Fail(a) /\ Head(mailbox[a]) = Last(mailbox[a])
  <2>1. ~Begin(a)
    BY <1>1, <1>2 DEF Begin
  <2>2. Succeed(a) \/ Fail(a)
    BY <2>1 DEF Actor
  <2>3. Head(mailbox[a]) = Last(mailbox[a]) /\ (Fail(a) /\ Head(mailbox[a]).awaited => raised')
    BY <1>2, <2>2, CallEnds
  <2>4. Last(mailbox[a]).awaited
    BY <1>1, <1>2 DEF Handover, LastCalls
  <2> QED BY <1>2, <2>2, <2>3, <2>4
<1>3. CASE a \in Shared
  <2>1. /\ rollout' = rollout /\ \A g \in Shared : g # a => trainer'[g] = trainer[g]
        /\ Succeed(a) /\ ~Fail(a) /\ Head(mailbox[a]).op = "leave" => ~trainer'[a].onGpu
    BY <1>3, RankMoves
  <2>2. pc \in Working
    BY <1>1, <1>3 DEF Handover, Quiet
  <2>3. ASSUME NEW g \in Shared, pc \in {"leave", "clean up"}, ~raised', mailbox'[g] = <<>>
        PROVE  ~trainer'[g].onGpu
    <3>1. CASE g = a
      <4>1. Last(mailbox[a]).op = "leave"
        BY <1>1, <1>3, <2>3 DEF Handover, LastCalls
      <4> QED BY <1>2, <2>1, <2>2, <2>3, <3>1, <4>1 DEF Waiting
    <3>2. CASE g # a
      BY <1>1, <2>1, <2>3, <3>2, Plan DEF Handover, OffGpu
    <3> QED BY <3>1, <3>2
  <2> QED BY <1>1, <2>1, <2>2, <2>3 DEF Handover, OffGpu
<1>4. CASE a \in Replicas
  <2>1. /\ trainer' = trainer /\ \A p \in Replicas : p # a => rollout'[p] = rollout[p]
        /\ Succeed(a) /\ ~Fail(a) /\ Head(mailbox[a]).op = "leave" => ~rollout'[a].onGpu
    BY <1>4, ReplicaMoves
  <2>2. pc \notin Working
    BY <1>1, <1>4 DEF Handover, Quiet
  <2>3. ASSUME NEW p \in SharedReplicas, pc = "make room", ~raised', mailbox'[p] = <<>>
        PROVE  ~rollout'[p].onGpu
    <3>1. CASE p = a
      <4>1. Last(mailbox[a]).op = "leave"
        BY <1>1, <1>4, <2>3 DEF Handover, LastCalls
      <4> QED BY <1>2, <2>1, <2>3, <3>1, <4>1 DEF Waiting
    <3>2. CASE p # a
      BY <1>1, <2>1, <2>3, <3>2, Plan DEF Handover, OffGpu
    <3> QED BY <3>1, <3>2
  <2> QED BY <1>1, <2>1, <2>2, <2>3 DEF Handover, OffGpu
<1> QED BY <1>3, <1>4, Plan

LEMMA ActorIInv == ASSUME NEW a \in Actors PROVE IInv /\ Actor(a) => IInv'
<1> SUFFICES ASSUME IInv, Actor(a) PROVE IInv'
  OBVIOUS
<1>1. Shape /\ Shape' /\ UNCHANGED <<pc, swallowed, lease>>
  <2>1. UNCHANGED <<pc, swallowed, lease>>
    BY DEF Actor, Begin, Succeed, Fail, driverVars, leaseVars
  <2> QED BY <2>1, ActorShape DEF IInv
<1>2. CASE swallowed
  BY <1>1, <1>2 DEF IInv
<1>3. CASE ~swallowed
  <2>1. Handover
    BY <1>3 DEF IInv
  <2>2. /\ \A b \in Actors : mailbox'[b] # <<>> =>
             /\ mailbox[b] # <<>> /\ Last(mailbox'[b]).op = Last(mailbox[b]).op
             /\ ~raised' => Last(mailbox'[b]).awaited = Last(mailbox[b]).awaited
        /\ ~raised' => ~raised
        /\ \A b \in Actors : \A i \in DOMAIN mailbox'[b] : \E j \in DOMAIN mailbox[b] :
             mailbox'[b][i].under = mailbox[b][j].under
    <3>1. CASE Begin(a)
      BY <3>1 DEF Begin, driverVars
    <3>2. CASE Succeed(a) \/ Fail(a)
      BY <1>1, <3>2, CallEnds
    <3> QED BY <3>1, <3>2 DEF Actor
  <2>3. Quiet'
    BY <1>1, <2>1, <2>2, Plan DEF Handover, Quiet
  <2>4. LastCalls'
    BY <1>1, <2>1, <2>2 DEF Handover, LastCalls
  <2>5. TokensHold'
    BY <1>1, <2>1, <2>2, TokensStay DEF Handover
  <2>6. LeasesFollow'
    BY <1>1, <2>1, LeasesStay DEF Handover, LeasesFollow
  <2>7. OffGpu'
    BY <1>1, <1>3, <2>1, ActorOffGpu
  <2> QED BY <1>1, <2>3, <2>4, <2>5, <2>6, <2>7 DEF IInv, Handover
<1> QED BY <1>2, <1>3

LEMMA InitIInv == Init => IInv
<1> SUFFICES ASSUME Init PROVE IInv
  OBVIOUS
<1>1. \A g \in Gpus : lease[g] =
        IF "rollout" \in Supported[g]
        THEN [role |-> "rollout", holder |-> FirstHolder[g], epoch |-> 0, failed |-> FALSE]
        ELSE [role |-> NoRole, holder |-> NoHolder, epoch |-> 0, failed |-> FALSE]
  BY DEF Init, Lease!LeaseInit
<1>2. Lease!LeaseTypeOK
  <2>0. FirstHolder \in [Gpus -> Holders] /\ NoHolder \notin Holders
    BY WindowAssumption DEF Lease!LeaseAssumption
  <2>1. \A g \in Gpus : lease[g] \in Lease!LeaseState
    <3> TAKE g \in Gpus
    <3>1. FirstHolder[g] \in Holders
      BY <2>0
    <3>2. CASE "rollout" \in Supported[g]
      <4>1. lease[g] = [role |-> "rollout", holder |-> FirstHolder[g], epoch |-> 0, failed |-> FALSE]
        BY <1>1, <3>2
      <4> QED BY <3>1, <4>1 DEF Lease!LeaseState, Lease!Roles
    <3>3. CASE "rollout" \notin Supported[g]
      <4>1. lease[g] = [role |-> NoRole, holder |-> NoHolder, epoch |-> 0, failed |-> FALSE]
        BY <1>1, <3>3
      <4> QED BY <4>1 DEF Lease!LeaseState
    <3> QED BY <3>2, <3>3
  <2>2. lease \in [Gpus -> Lease!LeaseState] /\ issued = {}
    BY <2>1 DEF Init, Lease!LeaseInit
  <2>3. \A g \in Gpus : FirstHolder[g] # NoHolder
    BY <2>0
  <2> QED BY <1>1, <2>2, <2>3, Plan DEF Lease!LeaseTypeOK
<1>3. \A a \in Actors : mailbox[a] = <<>> /\ DOMAIN mailbox[a] = {}
  BY DEF Init
<1>4. Shape
  <2>1. mailbox \in [Actors -> Seq(Call)]
    BY DEF Init
  <2>2. /\ trainer \in [Shared -> RankState] /\ rollout \in [Replicas -> ReplicaState]
        /\ step = 0 /\ step \in 0..MaxSteps
    BY Plan DEF Init, RankState, ReplicaState
  <2>3. /\ pc = "idle" /\ pc \in Phases /\ raised = FALSE /\ swallowed = FALSE /\ busy = {}
        /\ saved \in [Shared -> Nat \cup {NoState}]
        /\ batch \in [1..MaxSteps -> {"none", "reserved", "acked", "released"}]
    BY DEF Init, Phases
  <2> QED BY <1>2, <1>3, <2>1, <2>2, <2>3, Plan DEF Shape
<1>5. Quiet /\ LastCalls /\ TokensHold
  BY <1>3, Plan DEF Quiet, LastCalls, TokensHold
<1>6. LeasesFollow
  <2>1. pc = "idle"
    BY DEF Init
  <2>2. \A g \in Shared : WithRollout(g)
    <3> TAKE g \in Shared
    <3>1. g \in Gpus /\ "rollout" \in Supported[g]
      BY Plan
    <3>2. lease[g] = [role |-> "rollout", holder |-> FirstHolder[g], epoch |-> 0, failed |-> FALSE]
      BY <1>1, <3>1
    <3> QED BY <3>2 DEF WithRollout, Leased, Lease!Holds
  <2> QED BY <2>1, <2>2 DEF LeasesFollow, Working, Training
<1>7. OffGpu
  BY DEF Init, OffGpu, Working, Training
<1> QED BY <1>4, <1>5, <1>6, <1>7 DEF IInv, Handover

LEMMA NextIInv == IInv /\ [Next]_vars => IInv'
<1> SUFFICES ASSUME IInv, [Next]_vars PROVE IInv'
  OBVIOUS
<1>1. CASE BeginWindow \/ NextCall \/ Ack \/ NoRoom \/ CleanUp \/ Release \/ Wake
  BY <1>1, BeginWindowIInv, NextCallIInv, AckIInv, NoRoomIInv, CleanUpIInv, ReleaseIInv, WakeIInv
<1>2. CASE \E g \in Shared : GrantTrainer(g) \/ GrantRollout(g)
  BY <1>2, GrantTrainerIInv, GrantRolloutIInv
<1>3. CASE EndWindow \/ (\E p \in Replicas : Activate(p)) \/ EndStep \/ Die
  BY <1>3, EndIInv, ActivateIInv
<1>4. CASE \E a \in Actors : Actor(a)
  BY <1>4, ActorIInv
<1>5. CASE UNCHANGED vars
  <2>1. /\ UNCHANGED <<pc, step, batch, raised, swallowed, saved>>
        /\ UNCHANGED <<mailbox, busy, trainer, rollout, lease, issued>>
    BY <1>5 DEF vars, driverVars, actorVars, leaseVars
  <2>2. Lease!LeaseTypeOK' <=> Lease!LeaseTypeOK
    BY <2>1 DEF Lease!LeaseTypeOK
  <2>3. Shape'
    BY <2>1, <2>2 DEF IInv, Shape
  <2>4. ASSUME Handover PROVE Handover'
    <3>1. Quiet' /\ LastCalls' /\ OffGpu'
      BY <2>1, <2>4 DEF Handover, Quiet, LastCalls, OffGpu
    <3>2. TokensHold'
      BY <2>1, <2>4, TokensStay DEF Handover
    <3>3. LeasesFollow'
      BY <2>1, <2>4, LeasesStay DEF Handover, LeasesFollow
    <3> QED BY <3>1, <3>2, <3>3 DEF Handover
  <2> QED BY <2>1, <2>3, <2>4 DEF IInv
<1> QED BY <1>1, <1>2, <1>3, <1>4, <1>5 DEF Next, Driver

\* The inductive invariant of the train window.
THEOREM HandoverInvariant == Spec => []IInv
BY InitIInv, NextIInv, PTL DEF Spec

(***************************************************************************)
(* The safety of the shared GPUs: unless the clean-up of a failed window   *)
(* itself failed and the error was swallowed (training.py logs it and goes *)
(* on), the rollout engine and the trainer are never on a GPU together.    *)
(***************************************************************************)
THEOREM NeverTwoRoles == Spec => []OneRoleUnlessSwallowed
<1>1. IInv => OneRoleUnlessSwallowed
  <2> SUFFICES ASSUME Handover, NEW g \in Shared, RolloutOn(g), trainer[g].onGpu PROVE FALSE
    BY DEF IInv, OneRoleUnlessSwallowed, OneRolePerGpu
  <2>1. PICK p \in Replicas : g \in GpusOf[p] /\ rollout[p].onGpu
    BY DEF RolloutOn
  <2>2. p \in SharedReplicas
    BY <2>1, Plan
  <2> QED BY <2>1, <2>2 DEF Handover, OffGpu
<1> QED BY <1>1, HandoverInvariant, PTL

(***************************************************************************)
(* No call, queued or running, outlives the lease it was sent under: what  *)
(* the actors never check, the order of the driver's steps guarantees.     *)
(***************************************************************************)
THEOREM WorkUnderLease == Spec => []CallsUnderLease
<1>1. IInv => CallsUnderLease
  BY DEF IInv, Handover, TokensHold, TokenHolds, CallsUnderLease
<1> QED BY <1>1, HandoverInvariant, PTL
-----------------------------------------------------------------------------
(***************************************************************************)
(* The ranks train together.  A rank loses at most the step under way:     *)
(* what it may be restored from is the state it had when the window began. *)
(* As long as nothing is raised every rank has the one call that the phase *)
(* is about, or has ended it, so that the phase tells the step it is at.   *)
(***************************************************************************)
Stepped ==
  \A g \in Shared :
    /\ trainer[g].steps + 1 >= step
    /\ saved[g] = NoState \/ saved[g] + 1 >= step

OneCall(g) == mailbox[g] = <<>> \/ (Len(mailbox[g]) = 1 /\ mailbox[g][1].op = pc)

AtStep(g) ==
  /\ pc \in {"make room", "initialize", "hydrate"} =>
       trainer[g].steps + 1 = step /\ (saved[g] = NoState \/ saved[g] + 1 = step)
  /\ pc = "optimize" => trainer[g].steps + (IF mailbox[g] = <<>> THEN 0 ELSE 1) = step
  /\ pc \in {"export", "sync", "leave"} => trainer[g].steps = step
  /\ pc \in Training => OneCall(g)

InStep ==
  /\ raised \/ \A g \in Shared : AtStep(g)
  /\ pc = "idle" => \A g \in Shared : trainer[g].steps = step /\ saved[g] \in {NoState, step}

Settled ==
  /\ \A n \in 1..MaxSteps : batch[n] = "acked" => n <= step
  /\ step # 0 /\ batch[step] = "acked" =>
       /\ pc \notin Working \cup {"make room"}
       /\ \A g \in Shared : trainer[g].steps = step /\ saved[g] = step
  /\ pc \in {"activate", "done"} => batch[step] = "acked"

Course == Stepped /\ InStep /\ Settled

LEMMA RankSteps ==
  ASSUME Shape, NEW a \in Shared, Actor(a)
  PROVE  LET op == Head(mailbox[a]).op
             n  == trainer[a].steps
             m  == trainer'[a].steps
         IN  /\ n \in Nat /\ m \in Nat /\ (op = "hydrate" => saved[a] \in Nat)
             /\ m = n \/ (op = "hydrate" /\ m = saved[a]) \/ (op = "optimize" /\ m = n + 1)
             /\ Begin(a) => m = n
             /\ Succeed(a) /\ ~Fail(a) /\ op = "optimize" => m = n + 1
<1> DEFINE op == Head(mailbox[a]).op
           n  == trainer[a].steps
           m  == trainer'[a].steps
<1>1. a \notin Replicas /\ a \in Actors
  BY Plan
<1>2. mailbox[a] # <<>> /\ mailbox[a] \in Seq(Call)
  BY <1>1 DEF Shape, Actor, Begin, Succeed, Fail
<1>3. op \in Training /\ (op = "hydrate" => saved[a] \in Nat)
  <2>1. Head(mailbox[a]) = mailbox[a][1] /\ 1 \in DOMAIN mailbox[a]
    BY <1>2, TailCalls
  <2> QED BY <2>1 DEF Shape, RankCalls
<1>4. trainer \in [Shared -> RankState] /\ trainer[a] \in RankState /\ n \in Nat
  BY DEF Shape, RankState
<1>5. m \in Nat
  <2>1. trainer' \in [Shared -> RankState]
    BY RankMoves
  <2> QED BY <2>1 DEF RankState
<1> HIDE DEF op
<1>6. CASE Begin(a)
  <2>1. trainer' = [trainer EXCEPT ![a].onGpu = @ \/ Loads(op, a)]
    BY <1>1, <1>6 DEF Begin, RankBegins, op
  <2>2. m = n /\ ~Succeed(a)
    BY <1>4, <1>6, <2>1 DEF RankState, Begin, Succeed
  <2> QED BY <1>3, <1>4, <1>5, <2>2 DEF op
<1>7. CASE Fail(a)
  <2>1. PICK onGpu \in BOOLEAN, stepped \in BOOLEAN :
          /\ stepped => op = "optimize"
          /\ trainer' = [trainer EXCEPT ![a].onGpu = onGpu,
                                        ![a].steps = IF stepped THEN @ + 1 ELSE @]
    BY <1>1, <1>7 DEF Fail, RankFails, op
  <2>2. m = n \/ (op = "optimize" /\ m = n + 1)
    BY <1>4, <2>1 DEF RankState
  <2>3. ~Begin(a)
    BY <1>7 DEF Begin, Fail
  <2> QED BY <1>3, <1>4, <1>5, <1>7, <2>2, <2>3 DEF op
<1>8. CASE Succeed(a) /\ ~Fail(a)
  <2>1. trainer' = [trainer EXCEPT ![a] = AfterCall(op, a)]
    BY <1>1, <1>8 DEF Succeed, RankSucceeds, op
  <2>2. m = AfterCall(op, a).steps
    BY <1>4, <2>1
  <2>3. m = CASE op = "hydrate"  -> saved[a]
              [] op = "optimize" -> n + 1
              [] OTHER           -> n
    BY <1>3, <2>2, RankReturns
  <2>4. ~Begin(a)
    BY <1>8 DEF Begin, Succeed
  <2> QED BY <1>3, <1>4, <1>5, <2>3, <2>4 DEF op
<1> QED BY <1>6, <1>7, <1>8 DEF Actor

LEMMA FirstCall ==
  ASSUME NEW c
  PROVE  /\ Append(<<>>, c) # <<>> /\ Len(Append(<<>>, c)) = 1 /\ Append(<<>>, c)[1] = c
<1>1. <<>> \in Seq({c}) /\ c \in {c} /\ Len(<<>>) = 0
  OBVIOUS
<1> QED BY <1>1, AppendProperties

LEMMA OnlyCall == ASSUME NEW s \in Seq(Call), Len(s) = 1 PROVE Tail(s) = <<>>
<1>1. s # <<>>
  OBVIOUS
<1>2. Tail(s) \in Seq(Call) /\ Len(Tail(s)) = 0
  BY <1>1, HeadTailProperties
<1> QED BY <1>2, EmptySeq

\* The numbers the ranks and the driver count with.
LEMMA Counts ==
  ASSUME Shape
  PROVE  /\ step \in Nat /\ NoState \notin Nat
         /\ \A g \in Shared : trainer[g].steps \in Nat /\ saved[g] \in Nat \cup {NoState}
<1>1. step \in 0..MaxSteps /\ MaxSteps \in Nat /\ NoState \notin Nat
  BY Plan DEF Shape
<1>2. \A g \in Shared : trainer[g].steps \in Nat /\ saved[g] \in Nat \cup {NoState}
  BY DEF Shape, RankState
<1> QED BY <1>1, <1>2

\* Steps after which the ranks are where they were, in a phase that says no
\* more of them.
LEMMA CourseStays ==
  ASSUME Shape, Course, pc # "idle", UNCHANGED <<step, trainer>>,
         saved' = saved \/ KeepStates,
         batch' = batch \/ Settle("released"),
         pc' \in {"clean up", "give back", "wake", "failed"},
         pc' = "clean up" => pc \in Training /\ batch' = batch
  PROVE  Course'
<1>1. /\ step \in Nat /\ step \in 1..MaxSteps
      /\ \A g \in Shared : trainer[g].steps \in Nat
      /\ batch \in [1..MaxSteps -> {"none", "reserved", "acked", "released"}]
  BY Counts, StepNumbers DEF Shape
<1>2. Stepped'
  BY <1>1 DEF Course, Stepped, KeepStates
<1>3. InStep'
  BY DEF InStep, AtStep, Training
<1>4. \A n \in 1..MaxSteps : batch'[n] = "acked" => batch[n] = "acked"
  BY <1>1 DEF Settle
<1>5. Settled'
  <2>1. ASSUME batch'[step] = "acked"
        PROVE  /\ pc' \notin Working \cup {"make room"}
               /\ \A g \in Shared : trainer[g].steps = step /\ saved'[g] = step
    <3>1. batch[step] = "acked" /\ step # 0
      BY <1>1, <1>4, <2>1, StepNumbers
    <3>2. pc \notin Working /\ \A g \in Shared : trainer[g].steps = step /\ saved[g] = step
      BY <3>1 DEF Course, Settled
    <3>3. pc' # "clean up"
      BY <3>2 DEF Working
    <3>4. pc' \notin Working \cup {"make room"}
      BY <3>3 DEF Working, Training
    <3>5. \A g \in Shared : saved'[g] = step
      BY <3>2 DEF KeepStates
    <3> QED BY <3>2, <3>4, <3>5
  <2>2. \A n \in 1..MaxSteps : batch'[n] = "acked" => n <= step
    BY <1>4 DEF Course, Settled
  <2> QED BY <2>1, <2>2 DEF Settled
<1> QED BY <1>2, <1>3, <1>5 DEF Course
\* Steps in which the ranks do nothing.
LEMMA CourseSame ==
  ASSUME Course, UNCHANGED <<pc, step, batch, saved, trainer>>,
         raised' \/ (~raised /\ \A g \in Shared : mailbox'[g] = mailbox[g])
  PROVE  Course'
<1>1. Stepped' /\ Settled'
  BY DEF Course, Stepped, Settled
<1>2. ASSUME ~raised', NEW g \in Shared PROVE AtStep(g)'
  <2>1. mailbox'[g] = mailbox[g] /\ AtStep(g)
    BY <1>2 DEF Course, InStep
  <2> QED BY <2>1 DEF AtStep, OneCall
<1>3. InStep'
  BY <1>2 DEF Course, InStep
<1> QED BY <1>1, <1>3 DEF Course

LEMMA BeginWindowCourse == IInv /\ Course /\ BeginWindow => Course'
<1> SUFFICES ASSUME IInv, Course, BeginWindow PROVE Course'
  OBVIOUS
<1>1. /\ pc = "idle" /\ pc' = "make room" /\ Shape /\ step' = step + 1
      /\ UNCHANGED <<saved, trainer>> /\ batch' = [batch EXCEPT ![step + 1] = "reserved"]
      /\ batch \in [1..MaxSteps -> {"none", "reserved", "acked", "released"}]
      /\ step \in 0..MaxSteps /\ step < MaxSteps /\ MaxSteps \in Nat /\ step \in Nat
  BY Counts, Plan DEF BeginWindow, IInv, Shape
<1>2. \A g \in Shared : /\ trainer[g].steps = step /\ saved[g] \in {NoState, step}
                        /\ trainer'[g].steps = step /\ saved'[g] \in {NoState, step}
  BY <1>1 DEF Course, InStep
<1>3. Stepped'
  <2>1. step' = step + 1 /\ step \in Nat
    BY <1>1
  <2> QED BY <1>2, <2>1 DEF Stepped
<1>4. InStep'
  BY <1>1, <1>2 DEF InStep, AtStep, Training
<1>5. /\ batch'[step + 1] = "reserved"
      /\ \A n \in 1..MaxSteps : batch'[n] = "acked" => batch[n] = "acked"
  <2>1. step + 1 \in 1..MaxSteps
    <3>1. step \in Nat /\ MaxSteps \in Nat /\ step < MaxSteps
      BY <1>1
    <3> QED BY <3>1
  <2> QED BY <1>1, <2>1
<1>6. Settled'
  <2>1. \A n \in 1..MaxSteps : batch'[n] = "acked" => n <= step'
    <3>1. \A n \in 1..MaxSteps : batch[n] = "acked" => n <= step
      BY DEF Course, Settled
    <3>2. step' = step + 1 /\ step \in Nat
      BY <1>1
    <3> QED BY <1>5, <3>1, <3>2
  <2> QED BY <1>1, <1>5, <2>1 DEF Settled
<1> QED BY <1>3, <1>4, <1>6 DEF Course

LEMMA NextCallCourse == IInv /\ Course /\ NextCall => Course'
<1> SUFFICES ASSUME IInv, Course, NextCall PROVE Course'
  OBVIOUS
<1> DEFINE op == After(pc)
<1>1. /\ pc \in ({"make room"} \cup Training) \ {"leave"} /\ pc' = op /\ Shape /\ Gathered
      /\ UNCHANGED <<step, batch, raised, trainer>> /\ PostRanks(op)
      /\ saved' = saved \/ (pc \in {"initialize", "hydrate"} /\ KeepStates)
      /\ ~raised /\ Handover
  BY DEF NextCall, IInv, Shape, Gathered, Training
<1>2. \A a \in Actors : mailbox[a] = <<>>
  BY <1>1, AllAnswered DEF Waiting, Working
<1>3. /\ op \in Training /\ (op = "initialize" => pc = "make room")
      /\ op = "hydrate" => pc \in {"make room", "initialize"}
      /\ op = "optimize" => pc = "hydrate"
      /\ op = "export" => pc = "optimize"
      /\ op = "sync" => pc = "export"
      /\ op = "leave" => pc = "sync"
  BY <1>1 DEF After, Training
<1> HIDE DEF op
<1>4. \A g \in Shared : /\ trainer[g].steps \in Nat /\ step \in Nat /\ AtStep(g)
                        /\ saved[g] \in Nat \cup {NoState} /\ NoState \notin Nat
                        /\ saved'[g] = saved[g] \/ saved'[g] = trainer[g].steps
                        /\ trainer'[g].steps = trainer[g].steps
  BY <1>1, Counts DEF KeepStates, Course, InStep
<1>5. \A g \in Shared :
        /\ g \in Takers(op) => /\ mailbox'[g] # <<>> /\ Len(mailbox'[g]) = 1
                               /\ mailbox'[g][1].op = op
        /\ g \notin Takers(op) => mailbox'[g] = <<>>
  <2> TAKE g \in Shared
  <2>1. /\ g \in Actors /\ mailbox[g] = <<>>
        /\ mailbox'[g] = IF g \in Takers(op) THEN Append(mailbox[g], NewCall(op, {g})) ELSE mailbox[g]
    BY <1>1, <1>2, Plan DEF PostRanks
  <2>2. NewCall(op, {g}).op = op
    BY DEF NewCall
  <2> QED BY <2>1, <2>2, FirstCall
<1>6. Stepped'
  BY <1>1, <1>4 DEF Course, Stepped
<1>7. ASSUME NEW g \in Shared PROVE AtStep(g)'
  <2>1. OneCall(g)'
    BY <1>1, <1>5 DEF OneCall
  <2>2. CASE op \in {"initialize", "hydrate"}
    <3>1. pc \in {"make room", "initialize"}
      BY <1>3, <2>2
    <3> QED BY <1>1, <1>4, <2>1, <2>2, <3>1 DEF AtStep
  <2>3. CASE op = "optimize"
    <3>1. g \in Takers(op)
      BY <2>3 DEF Takers
    <3>2. pc = "hydrate" /\ mailbox'[g] # <<>>
      BY <1>3, <1>5, <2>3, <3>1
    <3> QED BY <1>1, <1>4, <2>1, <2>3, <3>2 DEF AtStep
  <2>4. CASE op = "export"
    <3>1. pc = "optimize" /\ mailbox[g] = <<>>
      BY <1>2, <1>3, <2>4, Plan
    <3> QED BY <1>1, <1>4, <2>1, <2>4, <3>1 DEF AtStep
  <2>5. CASE op \in {"sync", "leave"}
    <3>1. pc \in {"export", "sync"}
      BY <1>3, <2>5
    <3> QED BY <1>1, <1>4, <2>1, <2>5, <3>1 DEF AtStep
  <2> QED BY <1>3, <2>2, <2>3, <2>4, <2>5 DEF Training
<1>8. InStep'
  BY <1>1, <1>3, <1>7 DEF InStep, Training
<1>9. Settled'
  <2>1. pc \in Working \cup {"make room"} /\ pc' \notin {"activate", "done"}
    BY <1>1, <1>3 DEF Working, Training
  <2> QED BY <1>1, <2>1 DEF Course, Settled
<1> QED BY <1>6, <1>8, <1>9 DEF Course

LEMMA AckCourse == IInv /\ Course /\ Ack => Course'
<1> SUFFICES ASSUME IInv, Course, Ack PROVE Course'
  OBVIOUS
<1>1. /\ pc = "leave" /\ pc' = "give back" /\ Shape /\ ~raised
      /\ UNCHANGED <<step, trainer>> /\ KeepStates /\ Settle("acked")
      /\ step \in Nat /\ step \in 1..MaxSteps
      /\ batch \in [1..MaxSteps -> {"none", "reserved", "acked", "released"}]
  BY Counts, StepNumbers DEF Ack, IInv, Shape, Gathered, actorVars
<1>2. \A g \in Shared : trainer[g].steps = step /\ saved'[g] = step /\ trainer'[g].steps = step
  BY <1>1 DEF Course, InStep, AtStep, KeepStates
<1>3. Stepped' /\ InStep'
  <2>1. step' = step /\ step \in Nat
    BY <1>1
  <2>2. Stepped'
    BY <1>2, <2>1 DEF Stepped
  <2>3. InStep'
    BY <1>1 DEF InStep, AtStep, Training
  <2> QED BY <2>2, <2>3
<1>4. \A n \in 1..MaxSteps : batch'[n] = "acked" => n = step \/ batch[n] = "acked"
  BY <1>1 DEF Settle
<1>5. Settled'
  <2>1. \A n \in 1..MaxSteps : batch'[n] = "acked" => n <= step
    <3>1. \A n \in 1..MaxSteps : batch[n] = "acked" => n <= step
      BY DEF Course, Settled
    <3>2. step \in Nat
      BY <1>1
    <3>3. step <= step
      BY <3>2
    <3> QED BY <1>4, <3>1, <3>3
  <2>2. pc' \notin Working \cup {"make room"}
    BY <1>1 DEF Working, Training
  <2> QED BY <1>1, <1>2, <2>1, <2>2 DEF Settled
<1> QED BY <1>3, <1>5 DEF Course

LEMMA EndCourse == IInv /\ Course /\ (EndWindow \/ EndStep \/ Die) => Course'
<1> SUFFICES ASSUME IInv, Course, EndWindow \/ EndStep \/ Die PROVE Course'
  OBVIOUS
<1>1. /\ UNCHANGED <<step, batch, saved, trainer>> /\ Shape
      /\ pc \in {"wake", "activate"} /\ pc' \in {"activate", "done", "idle", "failed"}
      /\ step \in Nat /\ step # 0
  BY Counts DEF EndWindow, EndStep, Die, IInv, Shape, actorVars
<1>2. pc' # "failed" => batch[step] = "acked"
  BY DEF EndWindow, EndStep, Die, Course, Settled
<1>3. Stepped'
  BY <1>1 DEF Course, Stepped
<1>4. pc' # "failed" => \A g \in Shared : trainer[g].steps = step /\ saved[g] = step
  BY <1>1, <1>2 DEF Course, Settled
<1>5. InStep'
  BY <1>1, <1>4 DEF InStep, AtStep, Training
<1>6. Settled'
  BY <1>1, <1>2 DEF Course, Settled, Working, Training
<1> QED BY <1>3, <1>5, <1>6 DEF Course

\* The steps that CourseStays and CourseSame are about.
LEMMA OtherCourse ==
  ASSUME IInv, Course,
         \/ NoRoom \/ CleanUp \/ Release \/ Wake
         \/ \E g \in Shared : GrantTrainer(g) \/ GrantRollout(g)
         \/ \E p \in Replicas : Activate(p)
         \/ UNCHANGED vars
  PROVE  Course'
<1>1. Shape
  BY DEF IInv
<1>2. CASE NoRoom
  BY <1>1, <1>2, CourseStays DEF NoRoom, actorVars
<1>3. CASE CleanUp
  BY <1>1, <1>3, CourseStays DEF CleanUp, Training
<1>4. CASE Release
  BY <1>1, <1>4, CourseStays DEF Release, actorVars
<1>5. CASE Wake
  BY <1>1, <1>5, CourseStays DEF Wake
<1>6. CASE \/ \E g \in Shared : GrantTrainer(g) \/ GrantRollout(g)
           \/ UNCHANGED vars
  <2>1. UNCHANGED <<pc, step, batch, saved, trainer, raised, mailbox>>
    BY <1>6 DEF GrantTrainer, GrantRollout, vars, driverVars, actorVars
  <2>2. raised \in BOOLEAN
    BY <1>1 DEF Shape
  <2> QED BY <2>1, <2>2, CourseSame
<1>7. CASE \E p \in Replicas : Activate(p)
  <2>1. PICK p \in Replicas : Activate(p)
    BY <1>7
  <2>2. UNCHANGED <<pc, step, batch, saved, trainer, raised>> /\ ~raised
    BY <2>1 DEF Activate, Gathered, driverVars
  <2>3. \A g \in Shared : mailbox'[g] = mailbox[g]
    BY <2>1, Plan DEF Activate, PostReplicas
  <2> QED BY <2>2, <2>3, CourseSame
<1> QED BY <1>2, <1>3, <1>4, <1>5, <1>6, <1>7
LEMMA ActorCourse == ASSUME NEW a \in Actors PROVE IInv /\ Course /\ Actor(a) => Course'
<1> SUFFICES ASSUME IInv, Course, Actor(a) PROVE Course'
  OBVIOUS
<1>1. Shape /\ UNCHANGED <<pc, step, batch, saved, swallowed>> /\ step \in Nat
  <2>1. UNCHANGED <<pc, step, batch, saved, swallowed>>
    BY DEF Actor, Begin, Succeed, Fail, driverVars
  <2> QED BY <2>1, Counts DEF IInv
\* What is left if nothing is raised; a call that is waited for has not failed.
<1>2. ASSUME ~raised'
      PROVE  /\ ~raised
             /\ \A g \in Shared : g # a => mailbox'[g] = mailbox[g]
             /\ Begin(a) => mailbox'[a] = mailbox[a]
             /\ ~Begin(a) => mailbox'[a] = Tail(mailbox[a])
             /\ Fail(a) => ~Head(mailbox[a]).awaited
  <2>1. mailbox \in [Actors -> Seq(Call)] /\ raised \in BOOLEAN
    BY <1>1 DEF Shape
  <2>2. CASE Begin(a)
    <3>1. UNCHANGED <<mailbox, raised>> /\ ~Fail(a)
      BY <2>2 DEF Begin, Fail, driverVars
    <3> QED BY <1>2, <2>1, <2>2, <3>1
  <2>3. CASE Succeed(a) \/ Fail(a)
    <3>1. mailbox' = WithoutFirst(a) /\ UNCHANGED raised /\ ~Begin(a)
      BY <1>2, <2>3 DEF Succeed, Fail, Begin, driverVars
    <3>2. Fail(a) => ~Head(mailbox[a]).awaited
      BY <1>2 DEF Fail
    <3> QED BY <1>2, <2>1, <3>1, <3>2, Plan DEF WithoutFirst
  <2> QED BY <2>2, <2>3 DEF Actor
<1>3. CASE a \in Replicas
  <2>1. UNCHANGED trainer /\ \A g \in Shared : g # a
    BY <1>1, <1>3, ReplicaMoves, Plan
  <2>2. raised' \in BOOLEAN
    BY <1>1, ActorShape DEF Shape
  <2> QED BY <1>1, <1>2, <2>1, <2>2, CourseSame
<1>4. CASE a \in Shared
  <2> DEFINE op == Head(mailbox[a]).op
             n  == trainer[a].steps
             m  == trainer'[a].steps
  <2>1. /\ n \in Nat /\ m \in Nat /\ (op = "hydrate" => saved[a] \in Nat)
        /\ m = n \/ (op = "hydrate" /\ m = saved[a]) \/ (op = "optimize" /\ m = n + 1)
        /\ Begin(a) => m = n
        /\ Succeed(a) /\ ~Fail(a) /\ op = "optimize" => m = n + 1
    BY <1>1, <1>4, RankSteps
  <2>2. \A g \in Shared : g # a => trainer'[g] = trainer[g]
    BY <1>1, <1>4, RankMoves
  <2>3. /\ mailbox[a] # <<>> /\ mailbox[a] \in Seq(Call) /\ Head(mailbox[a]) = mailbox[a][1]
        /\ raised \in BOOLEAN
    <3>1. mailbox[a] # <<>> /\ mailbox[a] \in Seq(Call) /\ raised \in BOOLEAN
      BY <1>1, <1>4, Plan DEF Shape, Actor, Begin, Succeed, Fail
    <3> QED BY <3>1, TailCalls
  <2> HIDE DEF op
  <2>4. Stepped'
    <3>1. m + 1 >= step
      <4>1. n + 1 >= step /\ (op = "hydrate" => saved[a] + 1 >= step)
        BY <1>4, <2>1, Plan DEF Course, Stepped
      <4> QED BY <1>1, <2>1, <4>1
    <3> QED BY <1>1, <2>2, <3>1 DEF Course, Stepped
  <2>5. ASSUME ~raised', NEW g \in Shared PROVE AtStep(g)'
    <3>1. AtStep(g) /\ ~raised
      BY <1>2, <2>5 DEF Course, InStep
    <3>2. CASE g # a
      BY <1>1, <1>2, <2>2, <2>5, <3>1, <3>2 DEF AtStep, OneCall
    <3>3. CASE g = a
      <4>1. pc \in Training => /\ Len(mailbox[a]) = 1 /\ op = pc
        BY <2>3, <3>1, <3>3 DEF AtStep, OneCall, op
      <4>2. pc \in Training /\ ~Begin(a) => mailbox'[a] = <<>>
        <5>1. Len(mailbox[a]) = 1 => Tail(mailbox[a]) = <<>>
          BY <2>3, OnlyCall
        <5> QED BY <1>2, <2>5, <4>1, <5>1
      <4>3. OneCall(a)' \/ pc \notin Training
        BY <1>1, <1>2, <2>5, <3>1, <3>3, <4>2 DEF AtStep, OneCall
      <4>4. pc = "optimize" =>
              m + (IF mailbox'[a] = <<>> THEN 0 ELSE 1) = step
        <5> SUFFICES ASSUME pc = "optimize"
                     PROVE  m + (IF mailbox'[a] = <<>> THEN 0 ELSE 1) = step
          OBVIOUS
        <5>1. n + 1 = step /\ op = "optimize" /\ pc \in Training
          BY <2>3, <3>1, <3>3, <4>1 DEF AtStep, Training
        <5>2. CASE Begin(a)
          BY <1>2, <2>1, <2>3, <2>5, <5>1, <5>2
        <5>3. CASE ~Begin(a)
          <6>1. mailbox'[a] = <<>>
            BY <4>2, <5>1, <5>3
          <6>2. Succeed(a) /\ ~Fail(a)
            <7>1. ~swallowed /\ Handover
              BY <1>1 DEF IInv, Shape
            <7>2. Last(mailbox[a]).awaited
              BY <2>3, <3>1, <7>1, Plan DEF Handover, LastCalls, Waiting, Working, Training
            <7>3. Head(mailbox[a]).awaited
              BY <2>3, <4>1, <5>1, <7>2 DEF Last
            <7> QED BY <1>2, <2>5, <5>3, <7>3 DEF Actor
          <6> QED BY <2>1, <5>1, <6>1, <6>2
        <5> QED BY <5>2, <5>3
      <4>5. pc \in {"export", "sync", "leave"} => m = step
        BY <2>1, <3>1, <3>3, <4>1 DEF AtStep, Training
      <4>6. pc \in {"make room", "initialize", "hydrate"} =>
              m + 1 = step /\ (saved[a] = NoState \/ saved[a] + 1 = step)
        <5>1. CASE pc = "make room"
          <6>1. mailbox[a] = <<>>
            BY <1>1, <1>4, <5>1 DEF IInv, Shape, Handover, Quiet, Working, Training
          <6> QED BY <2>3, <6>1
        <5>2. CASE pc \in {"initialize", "hydrate"}
          <6>1. op = pc
            BY <4>1, <5>2 DEF Training
          <6>2. saved[a] # NoState \/ saved[a] \notin Nat
            BY Plan
          <6> QED BY <2>1, <3>1, <3>3, <5>2, <6>1, <6>2, Plan DEF AtStep
        <5> QED BY <5>1, <5>2
      <4> QED BY <1>1, <3>3, <4>3, <4>4, <4>5, <4>6 DEF AtStep
    <3> QED BY <3>2, <3>3
  <2>6. pc # "idle" /\ ~(step # 0 /\ batch[step] = "acked")
    <3>1. swallowed \/ pc \in Working
      BY <1>4, <2>3, Plan DEF IInv, Handover, Quiet
    <3> QED BY <3>1, <1>1 DEF Shape, Course, Settled, Working, Training
  <2>7. InStep' /\ Settled'
    BY <1>1, <2>5, <2>6 DEF Course, InStep, Settled
  <2> QED BY <2>4, <2>7 DEF Course
<1> QED BY <1>3, <1>4, Plan

LEMMA InitCourse == Init => Course
<1> SUFFICES ASSUME Init PROVE Course
  OBVIOUS
<1>1. /\ step = 0 /\ pc = "idle" /\ raised = FALSE
      /\ \A g \in Shared : trainer[g].steps = 0 /\ saved[g] = NoState
      /\ \A n \in 1..MaxSteps : batch[n] = "none"
  BY DEF Init
<1> QED BY <1>1 DEF Course, Stepped, InStep, AtStep, Settled, Training

LEMMA NextCourse == IInv /\ Course /\ [Next]_vars => Course'
BY BeginWindowCourse, NextCallCourse, AckCourse, EndCourse, OtherCourse, ActorCourse
   DEF Next, Driver

(***************************************************************************)
(* A batch is acked only when every rank has made its step on it, and      *)
(* between train steps each rank has made as many steps as there were      *)
(* batches, although any rank may fail with its optimizer moved or not and *)
(* is restored from the state the driver last kept.                        *)
(***************************************************************************)
THEOREM RanksTrainTogether == Spec => []TrainedTogether
<1>1. IInv /\ Course => TrainedTogether
  <2> SUFFICES ASSUME Shape, Course PROVE TrainedTogether
    BY DEF IInv
  <2>1. ASSUME NEW n \in 1..MaxSteps, NEW g \in Shared, batch[n] = "acked"
        PROVE  trainer[g].steps >= n
    <3>1. n <= step /\ step \in Nat /\ trainer[g].steps \in Nat
      BY <2>1, Counts DEF Course, Settled
    <3>2. n \in Nat /\ n # 0
      <4>1. MaxSteps \in Nat
        BY Plan
      <4> QED BY <4>1
    <3>3. CASE n = step
      <4>1. step # 0 /\ batch[step] = "acked"
        BY <2>1, <3>2, <3>3
      <4>2. trainer[g].steps = step
        BY <4>1 DEF Course, Settled
      <4> QED BY <3>1, <3>3, <4>2
    <3>4. CASE n # step
      BY <3>2, <3>1, <3>4 DEF Course, Stepped
    <3> QED BY <3>3, <3>4
  <2>2. ASSUME pc \in {"idle", "done"}, NEW g \in Shared PROVE trainer[g].steps = step
    BY <2>2 DEF Course, InStep, Settled, Shape
  <2> QED BY <2>1, <2>2 DEF TrainedTogether
<1> QED BY <1>1, HandoverInvariant, InitCourse, NextCourse, PTL DEF Spec

-----------------------------------------------------------------------------
(* The leases.  A GPU changes hands twice in a train step, so that its     *)
(* epoch tells how far the steps are.                                      *)

Turns(g) ==
  IF WithTrainer(g) THEN 2 * step - 1 ELSE IF pc = "make room" THEN 2 * step - 2 ELSE 2 * step

Epochs ==
  \A g \in Shared :
    /\ WithTrainer(g) \/ WithRollout(g)
    /\ lease[g].epoch <= Turns(g)

LEMMA LeaseSteps ==
  ASSUME [Next]_vars
  PROVE  \/ \E g \in Shared : GrantTrainer(g) \/ GrantRollout(g)
         \/ BeginWindow
         \/ UNCHANGED <<leaseVars, step>> /\ (pc' = "make room" => pc = "make room")
<1>1. CASE NextCall
  <2>1. pc' # "make room"
    BY <1>1 DEF NextCall, After, Training
  <2> QED BY <1>1, <2>1 DEF NextCall
<1>2. CASE Ack \/ NoRoom \/ CleanUp \/ Release \/ Wake \/ EndWindow \/ EndStep \/ Die
  BY <1>2 DEF Ack, NoRoom, CleanUp, Release, Wake, EndWindow, EndStep, Die
<1>3. CASE \E p \in Replicas : Activate(p)
  BY <1>3 DEF Activate, driverVars
<1>4. CASE \E a \in Actors : Actor(a)
  BY <1>4 DEF Actor, Begin, Succeed, Fail, driverVars
<1>5. CASE UNCHANGED vars
  BY <1>5 DEF vars, driverVars
<1> QED BY <1>1, <1>2, <1>3, <1>4, <1>5 DEF Next, Driver

LEMMA EpochNumbers ==
  ASSUME IInv
  PROVE  /\ step \in Nat /\ MaxSteps \in Nat /\ step <= MaxSteps
         /\ \A g \in Shared : lease[g].epoch \in Nat
         /\ \A g \in Shared : ~(WithTrainer(g) /\ WithRollout(g))
<1>1. /\ step \in 0..MaxSteps /\ lease \in [Gpus -> Lease!LeaseState]
  BY DEF IInv, Shape, Lease!LeaseTypeOK
<1> QED BY <1>1, Plan DEF Lease!LeaseState, WithTrainer, WithRollout, Leased, Lease!Holds

\* A grant to somebody else takes the GPU one epoch further.
LEMMA GrantTurns ==
  ASSUME IInv, NEW g \in Shared, NEW role, NEW holder, ~Lease!Holds(g, role, holder),
         Lease!Grant(g, role, holder)
  PROVE  /\ lease'[g].epoch = lease[g].epoch + 1
         /\ \A h \in Shared : h # g => lease'[h] = lease[h]
<1>1. lease \in [Gpus -> Lease!LeaseState] /\ g \in Gpus
  BY Plan DEF IInv, Shape, Lease!LeaseTypeOK
<1> QED BY <1>1, Plan DEF Lease!Grant, Lease!NextEpoch

LEMMA TurnNumbers ==
  \A n, m, e \in Nat : /\ e <= 2 * n - 2 => e <= 2 * n /\ e + 1 <= 2 * n - 1
                       /\ e <= 2 * n - 1 => e + 1 <= 2 * n
                       /\ n <= m /\ e <= 2 * n - 1 => e < 2 * m
                       /\ n <= m /\ e <= 2 * n - 2 => e < 2 * m
OBVIOUS

\* A GPU that keeps its lease in the same step has as many turns as before.
LEMMA SameTurns ==
  ASSUME Epochs, NEW h \in Shared, lease'[h] = lease[h], step' = step,
         pc' = "make room" => pc = "make room", IInv
  PROVE  (WithTrainer(h) \/ WithRollout(h))' /\ lease'[h].epoch <= Turns(h)'
<1>1. /\ WithTrainer(h)' <=> WithTrainer(h)
      /\ WithRollout(h)' <=> WithRollout(h)
  BY DEF WithTrainer, WithRollout, Leased, Lease!Holds
<1>2. PICK w \in BOOLEAN : w <=> WithTrainer(h)
  OBVIOUS
<1>3. PICK e \in Nat : e = lease[h].epoch
  BY EpochNumbers
<1>4. /\ Turns(h)  = IF w THEN 2 * step - 1 ELSE IF pc = "make room" THEN 2 * step - 2 ELSE 2 * step
      /\ Turns(h)' = IF w THEN 2 * step - 1 ELSE IF pc' = "make room" THEN 2 * step - 2 ELSE 2 * step
  BY <1>1, <1>2 DEF Turns
<1>5. e <= Turns(h) /\ lease'[h].epoch = e
  BY <1>3 DEF Epochs
<1>6. e <= Turns(h)'
  <2>1. Turns(h)' = Turns(h) \/ (Turns(h) = 2 * step - 2 /\ Turns(h)' = 2 * step)
    BY <1>4
  <2>2. CASE Turns(h)' = Turns(h)
    BY <1>5, <2>2
  <2>3. CASE Turns(h) = 2 * step - 2 /\ Turns(h)' = 2 * step
    <3>1. e <= 2 * step - 2 => e <= 2 * step
      BY EpochNumbers, TurnNumbers
    <3> QED BY <1>5, <2>3, <3>1
  <2> QED BY <2>1, <2>2, <2>3
<1> QED BY <1>1, <1>5, <1>6 DEF Epochs

LEMMA NextEpochs == IInv /\ Epochs /\ [Next]_vars => Epochs'
<1> SUFFICES ASSUME IInv, Epochs, [Next]_vars PROVE Epochs'
  OBVIOUS
<1>1. CASE BeginWindow
  <2>1. /\ pc = "idle" /\ pc' = "make room" /\ step' = step + 1 /\ lease' = lease
        /\ ~swallowed
    BY <1>1 DEF BeginWindow, leaseVars, IInv, Shape
  <2> SUFFICES ASSUME NEW g \in Shared
               PROVE  WithRollout(g)' /\ lease'[g].epoch <= Turns(g)'
    BY DEF Epochs
  <2>2. WithRollout(g) /\ WithRollout(g)'
    BY <2>1, LeasesStay DEF IInv, Handover, LeasesFollow, Working, Training
  <2>3. ~WithTrainer(g) /\ ~WithTrainer(g)'
    BY <2>1, <2>2, EpochNumbers, LeasesStay
  <2>4. lease[g].epoch <= 2 * step
    BY <2>1, <2>3 DEF Epochs, Turns
  <2>5. Turns(g)' = 2 * (step + 1) - 2
    BY <2>1, <2>3 DEF Turns
  <2>6. Turns(g)' = 2 * step
    BY <2>5, EpochNumbers
  <2> QED BY <2>1, <2>2, <2>4, <2>6
<1>2. ASSUME NEW g \in Shared, GrantTrainer(g) PROVE Epochs'
  <2>1. /\ pc = "make room" /\ pc' = pc /\ step' = step /\ ~WithTrainer(g)
        /\ Lease!Grant(g, "trainer", RankHolder[g])
    BY <1>2 DEF GrantTrainer, driverVars
  <2>2. /\ lease'[g].epoch = lease[g].epoch + 1 /\ WithTrainer(g)'
        /\ \A h \in Shared : h # g => lease'[h] = lease[h]
    BY <2>1, GrantTurns, GrantFacts, Plan DEF IInv, WithTrainer, Leased
  <2>3. lease[g].epoch <= 2 * step - 2 /\ Turns(g)' = 2 * step - 1
    BY <2>1, <2>2 DEF Epochs, Turns
  <2>4. lease'[g].epoch <= Turns(g)'
    <3>1. PICK e \in Nat : e = lease[g].epoch
      BY EpochNumbers
    <3>2. e + 1 <= 2 * step - 1
      BY <2>3, <3>1, EpochNumbers, TurnNumbers
    <3> QED BY <2>2, <2>3, <3>1, <3>2
  <2> QED BY <2>1, <2>2, <2>4, SameTurns DEF Epochs
<1>3. ASSUME NEW g \in Shared, GrantRollout(g) PROVE Epochs'
  <2>1. /\ pc = "give back" /\ pc' = pc /\ step' = step /\ ~WithRollout(g)
        /\ Lease!Grant(g, "rollout", FirstHolder[g])
    BY <1>3 DEF GrantRollout, driverVars
  <2>2. /\ lease'[g].epoch = lease[g].epoch + 1 /\ WithRollout(g)'
        /\ \A h \in Shared : h # g => lease'[h] = lease[h]
    BY <2>1, GrantTurns, GrantFacts, Plan DEF IInv, WithRollout, Leased
  <2>3. WithTrainer(g) /\ ~WithTrainer(g)'
    <3>1. lease'[g].role = "rollout"
      BY <2>2 DEF WithRollout, Leased, Lease!Holds
    <3> QED BY <2>1, <3>1 DEF Epochs, WithTrainer, Leased, Lease!Holds
  <2>4. lease[g].epoch <= 2 * step - 1 /\ Turns(g)' = 2 * step
    BY <2>1, <2>3 DEF Epochs, Turns
  <2>5. lease'[g].epoch <= Turns(g)'
    <3>1. PICK e \in Nat : e = lease[g].epoch
      BY EpochNumbers
    <3>2. e + 1 <= 2 * step
      BY <2>4, <3>1, EpochNumbers, TurnNumbers
    <3> QED BY <2>2, <2>4, <3>1, <3>2
  <2> QED BY <2>1, <2>2, <2>5, SameTurns DEF Epochs
<1>4. CASE UNCHANGED <<leaseVars, step>> /\ (pc' = "make room" => pc = "make room")
  BY <1>4, SameTurns DEF leaseVars, Epochs
<1> QED BY <1>1, <1>2, <1>3, <1>4, LeaseSteps

LEMMA InitEpochs == Init => Epochs
<1> SUFFICES ASSUME Init, NEW g \in Shared
             PROVE  WithRollout(g) /\ lease[g].epoch <= Turns(g)
  BY DEF Epochs
<1>1. g \in Gpus /\ "rollout" \in Supported[g] /\ pc = "idle" /\ step = 0
  BY Plan DEF Init
<1>2. lease[g] = [role |-> "rollout", holder |-> FirstHolder[g], epoch |-> 0, failed |-> FALSE]
  BY <1>1 DEF Init, Lease!LeaseInit
<1>3. ~WithTrainer(g) /\ WithRollout(g)
  BY <1>2 DEF WithTrainer, WithRollout, Leased, Lease!Holds
<1> QED BY <1>1, <1>2, <1>3 DEF Turns

(***************************************************************************)
(* The lease manager refuses the driver no grant: no shared GPU is ever    *)
(* failed, every one changes hands at most twice in a train step, and so   *)
(* the bound on the epochs stops no window half way                        *)
(* (training.py _grant_train_window, _grant_rollout_window; slot.py grant).*)
(***************************************************************************)
NoGrantRefused ==
  \A g \in Shared :
    /\ pc = "make room" /\ ~WithTrainer(g) =>
         Lease!Grantable(g, "trainer") /\ lease[g].epoch < 2 * MaxSteps
    /\ pc = "give back" /\ ~WithRollout(g) =>
         Lease!Grantable(g, "rollout") /\ lease[g].epoch < 2 * MaxSteps

THEOREM GrantsSucceed == Spec => []NoGrantRefused
<1>1. IInv /\ Epochs => NoGrantRefused
  <2> SUFFICES ASSUME IInv, Epochs, NEW g \in Shared
               PROVE  /\ Lease!Grantable(g, "trainer") /\ Lease!Grantable(g, "rollout")
                      /\ pc = "make room" /\ ~WithTrainer(g) => lease[g].epoch < 2 * MaxSteps
                      /\ pc = "give back" /\ ~WithRollout(g) => lease[g].epoch < 2 * MaxSteps
    BY DEF NoGrantRefused
  <2>1. WithTrainer(g) \/ WithRollout(g)
    BY DEF Epochs
  <2>2. lease[g].role # NoRole
    BY <2>1, Plan DEF WithTrainer, WithRollout, Leased, Lease!Holds
  <2>3. ~lease[g].failed
    BY <2>2, Plan DEF IInv, Shape, Lease!LeaseTypeOK
  <2>4. pc = "make room" /\ ~WithTrainer(g) => lease[g].epoch < 2 * MaxSteps
    <3>1. PICK e \in Nat : e = lease[g].epoch
      BY EpochNumbers
    <3>2. pc = "make room" /\ ~WithTrainer(g) => e <= 2 * step - 2
      BY <3>1 DEF Epochs, Turns
    <3>3. e <= 2 * step - 2 => e < 2 * MaxSteps
      BY EpochNumbers, TurnNumbers
    <3> QED BY <3>1, <3>2, <3>3
  <2>5. pc = "give back" /\ ~WithRollout(g) => lease[g].epoch < 2 * MaxSteps
    <3>1. PICK e \in Nat : e = lease[g].epoch
      BY EpochNumbers
    <3>2. ~WithRollout(g) => e <= 2 * step - 1
      BY <2>1, <3>1 DEF Epochs, Turns
    <3>3. e <= 2 * step - 1 => e < 2 * MaxSteps
      BY EpochNumbers, TurnNumbers
    <3> QED BY <3>1, <3>2, <3>3
  <2> QED BY <2>3, <2>4, <2>5, Plan DEF Lease!Grantable
<1> QED BY <1>1, HandoverInvariant, InitEpochs, NextEpochs, PTL DEF Spec

(***************************************************************************)
(* The window takes and gives back its GPUs by grants alone: what is true  *)
(* of the lease manager under every caller, that an epoch names one holder *)
(* and a stale token stays stale, is true of it under this one.            *)
(***************************************************************************)
THEOREM WindowGrantsLeases == Spec => Lease!LeaseSpec
<1>1. Init => Lease!LeaseInit
  BY DEF Init
<1>2. [Next]_vars => [Lease!LeaseNext]_(Lease!leaseVars)
  <2> SUFFICES ASSUME [Next]_vars PROVE Lease!LeaseNext \/ UNCHANGED <<lease, issued>>
    BY DEF Lease!leaseVars
  <2>1. ASSUME NEW g \in Shared, GrantTrainer(g) \/ GrantRollout(g) PROVE Lease!LeaseNext
    <3>1. /\ g \in Gpus /\ RankHolder[g] \in Holders /\ FirstHolder[g] \in Holders
          /\ "trainer" \in Lease!Roles /\ "rollout" \in Lease!Roles
      BY Plan
    <3> QED BY <2>1, <3>1 DEF GrantTrainer, GrantRollout, Lease!LeaseNext
  <2>2. CASE UNCHANGED leaseVars
    BY <2>2 DEF leaseVars
  <2> QED BY <2>1, <2>2, LeaseSteps DEF BeginWindow
<1> QED BY <1>1, <1>2, PTL DEF Spec, Lease!LeaseSpec

-----------------------------------------------------------------------------
(* The types, in which there is more than types: an error that is raised   *)
(* leaves no call that somebody waits for, and no rank gets ahead of the   *)
(* driver, although calls of a window that failed are still in mailboxes.  *)

Awaits ==
  /\ raised => \A a \in Actors : ~Awaited(a)
  /\ pc \notin Waiting => ~raised /\ \A a \in Actors : ~Awaited(a)

\* Only a leave is ever queued behind another call.
Within ==
  \A g \in Shared :
    /\ trainer[g].steps <= step /\ (saved[g] = NoState \/ saved[g] <= step)
    /\ \A i \in DOMAIN mailbox[g] :
         /\ i # 1 => mailbox[g][i].op = "leave"
         /\ mailbox[g][i].op = "optimize" => trainer[g].steps + 1 <= step

\* The calls that are left when one has ended.
LEMMA CallsLeft ==
  ASSUME Shape, NEW a \in Actors, Succeed(a) \/ Fail(a),
         NEW b \in Actors, NEW i \in DOMAIN mailbox'[b]
  PROVE  LET j == IF b = a THEN i + 1 ELSE i
         IN  /\ j \in DOMAIN mailbox[b] /\ i \in Nat \ {0}
             /\ mailbox'[b][i].op = mailbox[b][j].op
             /\ mailbox'[b][i].awaited =>
                  mailbox[b][j].awaited /\ ~(Fail(a) /\ Head(mailbox[a]).awaited)
<1> DEFINE j    == IF b = a THEN i + 1 ELSE i
           rest == WithoutFirst(a)
<1>1. mailbox \in [Actors -> Seq(Call)] /\ mailbox[a] # <<>>
  BY DEF Shape, Succeed, Fail
<1>2. rest \in [Actors -> Seq(Call)] /\ rest[b] = IF b = a THEN Tail(mailbox[a]) ELSE mailbox[b]
  BY <1>1, TailCalls DEF WithoutFirst
<1>3. \A k \in DOMAIN rest[b] : LET l == IF b = a THEN k + 1 ELSE k
                                IN  l \in DOMAIN mailbox[b] /\ rest[b][k] = mailbox[b][l]
  BY <1>1, <1>2, TailCalls
<1>4. CASE Fail(a) /\ Head(mailbox[a]).awaited
  <2>1. mailbox'[b] = Forget(rest[b])
    BY <1>4 DEF Fail
  <2>2. i \in DOMAIN rest[b] /\ mailbox'[b][i].op = rest[b][i].op /\ rest[b][i] \in Call
    <3> DEFINE calls == rest[b]
    <3>1. calls \in Seq(Call)
      BY <1>2
    <3> HIDE DEF calls
    <3>2. i \in DOMAIN calls /\ Forget(calls)[i].op = calls[i].op
      BY <2>1, <3>1, ForgetCalls DEF calls
    <3>3. calls[i] \in Call
      BY <3>1, <3>2
    <3> QED BY <2>1, <3>2, <3>3 DEF calls
  <2>3. mailbox'[b][i].awaited = FALSE
    BY <2>1, <2>2 DEF Forget, Call
  <2>4. i \in Nat \ {0}
    BY <1>2, <2>2
  <2> QED BY <1>3, <2>2, <2>3, <2>4
<1>5. CASE ~(Fail(a) /\ Head(mailbox[a]).awaited)
  <2>1. mailbox' = rest
    BY <1>5 DEF Fail, Succeed
  <2>2. i \in Nat \ {0}
    BY <1>2, <2>1
  <2> QED BY <1>3, <1>5, <2>1, <2>2
<1> QED BY <1>4, <1>5

LEMMA ActorAwaits == ASSUME Shape, Awaits, NEW a \in Actors, Actor(a) PROVE Awaits'
<1>1. pc' = pc /\ raised \in BOOLEAN
  BY DEF Actor, Begin, Succeed, Fail, driverVars, Shape
<1>2. CASE Begin(a)
  <2>1. UNCHANGED <<raised, mailbox>>
    BY <1>2 DEF Begin, driverVars
  <2> QED BY <1>1, <2>1 DEF Awaits, Awaited
<1>3. CASE Succeed(a) \/ Fail(a)
  <2>1. \A b \in Actors : Awaited(b)' => Awaited(b) /\ ~(Fail(a) /\ Head(mailbox[a]).awaited)
    BY <1>3, CallsLeft DEF Awaited
  <2>2. raised' => raised \/ (Fail(a) /\ Head(mailbox[a]).awaited)
    BY <1>3 DEF Succeed, Fail, driverVars
  <2>3. Fail(a) /\ Head(mailbox[a]).awaited => Awaited(a)
    <3>1. mailbox[a] \in Seq(Call) /\ mailbox[a] # <<>>
      BY <1>3 DEF Shape, Succeed, Fail
    <3> QED BY <3>1, TailCalls DEF Awaited
  <2> QED BY <1>1, <2>1, <2>2, <2>3 DEF Awaits
<1> QED BY <1>2, <1>3 DEF Actor

LEMMA NextAwaits == IInv /\ Awaits /\ [Next]_vars => Awaits'
<1> SUFFICES ASSUME Shape, Awaits, [Next]_vars PROVE Awaits'
  BY DEF IInv
<1>1. CASE \E a \in Actors : Actor(a)
  BY <1>1, ActorAwaits
<1>2. CASE BeginWindow \/ Wake
  <2>1. ~raised' /\ pc' \in Waiting
    <3>1. pc \in {"idle", "give back"} /\ raised' = raised /\ pc' \in {"make room", "wake"}
      BY <1>2 DEF BeginWindow, Wake
    <3> QED BY <3>1 DEF Awaits, Waiting, Working, Training
  <2> QED BY <2>1 DEF Awaits
<1>3. CASE NextCall
  <2>1. ~raised' /\ pc' \in Waiting
    BY <1>3 DEF NextCall, Gathered, After, Waiting, Working, Training
  <2> QED BY <2>1 DEF Awaits
<1>4. CASE CleanUp
  BY <1>4 DEF CleanUp, Awaits, Waiting, Working
<1>5. CASE \E p \in Replicas : Activate(p)
  <2>1. ~raised' /\ pc' \in Waiting
    BY <1>5 DEF Activate, Gathered, driverVars, Waiting
  <2> QED BY <2>1 DEF Awaits
<1>6. CASE Ack \/ NoRoom \/ Release \/ EndWindow \/ EndStep \/ Die
  <2>1. ~raised' /\ mailbox' = mailbox /\ (Gathered \/ raised)
    <3>1. CASE Ack \/ EndWindow \/ EndStep
      <4>1. Gathered /\ raised' = raised /\ mailbox' = mailbox
        BY <3>1 DEF Ack, EndWindow, EndStep, actorVars
      <4> QED BY <4>1 DEF Gathered
    <3>2. CASE NoRoom \/ Release \/ Die
      BY <3>2 DEF NoRoom, Release, Die, actorVars
    <3> QED BY <1>6, <3>1, <3>2
  <2>2. \A a \in Actors : ~Awaited(a)
    BY <2>1 DEF Gathered, Awaits
  <2> QED BY <2>1, <2>2 DEF Awaits, Awaited
<1>7. CASE (\E g \in Shared : GrantTrainer(g) \/ GrantRollout(g)) \/ UNCHANGED vars
  <2>1. UNCHANGED <<pc, raised, mailbox>>
    BY <1>7 DEF GrantTrainer, GrantRollout, vars, driverVars, actorVars
  <2> QED BY <2>1 DEF Awaits, Awaited
<1> QED BY <1>1, <1>2, <1>3, <1>4, <1>5, <1>6, <1>7 DEF Next, Driver

\* Steps in which no rank does anything and none is called.
LEMMA WithinStays ==
  ASSUME Within, UNCHANGED <<step, trainer>>, saved' = saved \/ KeepStates,
         \A g \in Shared : mailbox'[g] = mailbox[g]
  PROVE  Within'
<1> SUFFICES ASSUME NEW g \in Shared
             PROVE  /\ trainer[g].steps <= step /\ (saved'[g] = NoState \/ saved'[g] <= step)
                    /\ \A i \in DOMAIN mailbox[g] :
                         /\ i # 1 => mailbox[g][i].op = "leave"
                         /\ mailbox[g][i].op = "optimize" => trainer[g].steps + 1 <= step
  BY DEF Within
<1>1. saved'[g] = saved[g] \/ saved'[g] = trainer[g].steps
  BY DEF KeepStates
<1> QED BY <1>1 DEF Within

LEMMA RankWithin == ASSUME Shape, Within, NEW a \in Shared, Actor(a) PROVE Within'
<1> DEFINE op == Head(mailbox[a]).op
           n  == trainer[a].steps
           m  == trainer'[a].steps
<1>1. /\ n \in Nat /\ m \in Nat /\ (op = "hydrate" => saved[a] \in Nat)
      /\ m = n \/ (op = "hydrate" /\ m = saved[a]) \/ (op = "optimize" /\ m = n + 1)
      /\ Begin(a) => m = n
  BY RankSteps
<1>2. /\ UNCHANGED <<step, saved>> /\ \A g \in Shared : g # a => trainer'[g] = trainer[g]
      /\ step \in Nat /\ NoState \notin Nat
  BY RankMoves, Counts
<1>3. a \in Actors /\ mailbox[a] \in Seq(Call) /\ mailbox[a] # <<>>
  BY Plan DEF Shape, Actor, Begin, Succeed, Fail
<1>4. Head(mailbox[a]) = mailbox[a][1] /\ 1 \in DOMAIN mailbox[a]
  BY <1>3, TailCalls
<1>5. \A g \in Shared : \A i \in DOMAIN mailbox'[g] :
        \/ i \in DOMAIN mailbox[g] /\ mailbox'[g][i].op = mailbox[g][i].op /\ (g = a => Begin(a))
        \/ g = a /\ mailbox'[g][i].op = "leave"
  <2> SUFFICES ASSUME NEW g \in Shared, NEW i \in DOMAIN mailbox'[g]
               PROVE  \/ /\ i \in DOMAIN mailbox[g] /\ mailbox'[g][i].op = mailbox[g][i].op
                         /\ g = a => Begin(a)
                      \/ g = a /\ mailbox'[g][i].op = "leave"
    OBVIOUS
  <2>1. CASE Begin(a)
    BY <2>1 DEF Begin
  <2>2. CASE Succeed(a) \/ Fail(a)
    <3>1. g \in Actors
      BY Plan
    <3>2. CASE g # a
      BY <1>3, <2>2, <3>1, <3>2, CallsLeft
    <3>3. CASE g = a
      <4>1. /\ i + 1 \in DOMAIN mailbox[a] /\ i \in Nat \ {0}
            /\ mailbox'[a][i].op = mailbox[a][i + 1].op
        BY <1>3, <2>2, <3>3, CallsLeft
      <4>2. i + 1 # 1
        BY <4>1
      <4> QED BY <3>3, <4>1, <4>2 DEF Within
    <3> QED BY <3>2, <3>3
  <2> QED BY <2>1, <2>2 DEF Actor
<1>6. m <= step
  <2>1. n <= step /\ (saved[a] = NoState \/ saved[a] <= step)
    BY DEF Within
  <2>2. op = "optimize" => n + 1 <= step
    BY <1>4 DEF Within
  <2> HIDE DEF op, n, m
  <2> QED BY <1>1, <1>2, <2>1, <2>2
<1> HIDE DEF op
<1> SUFFICES ASSUME NEW g \in Shared
             PROVE  /\ trainer'[g].steps <= step /\ (saved[g] = NoState \/ saved[g] <= step)
                    /\ \A i \in DOMAIN mailbox'[g] :
                         /\ i # 1 => mailbox'[g][i].op = "leave"
                         /\ mailbox'[g][i].op = "optimize" => trainer'[g].steps + 1 <= step
  BY <1>2 DEF Within
<1>7. CASE g # a
  BY <1>2, <1>5, <1>7 DEF Within
<1>8. CASE g = a
  <2>1. Begin(a) => m = n
    BY <1>1
  <2> QED BY <1>2, <1>5, <1>6, <1>8, <2>1 DEF Within
<1> QED BY <1>7, <1>8

LEMMA CallsWithin == IInv /\ Course /\ Within /\ (NextCall \/ CleanUp) => Within'
<1> SUFFICES ASSUME IInv, Course, Within, NextCall \/ CleanUp PROVE Within'
  OBVIOUS
<1>1. Shape /\ UNCHANGED <<step, trainer>> /\ pc \in {"make room"} \cup Training /\ ~swallowed
  BY DEF IInv, Shape, NextCall, CleanUp, Training
<1>2. PICK op \in Training :
        /\ PostRanks(op) /\ \A g \in Shared : WithTrainer(g)
        /\ CleanUp => op = "leave" /\ saved' = saved
        /\ NextCall => op = After(pc)
  <2>1. CASE NextCall
    <3>1. After(pc) \in Training /\ ~CleanUp
      BY <2>1 DEF NextCall, CleanUp, Gathered, After, Training
    <3> QED BY <2>1, <3>1 DEF NextCall
  <2>2. CASE CleanUp
    <3>1. \A g \in Shared : WithTrainer(g)
      BY <1>1, <2>2 DEF IInv, Handover, LeasesFollow, CleanUp, Working
    <3>2. ~NextCall
      BY <2>2 DEF NextCall, CleanUp, Gathered
    <3> QED BY <2>2, <3>1, <3>2 DEF CleanUp, Training
  <2> QED BY <2>1, <2>2
<1>3. \A g \in Shared : saved'[g] = saved[g] \/ saved'[g] = trainer[g].steps
  BY <1>2 DEF NextCall, CleanUp, KeepStates
<1>4. \A g \in Shared : \A i \in DOMAIN mailbox'[g] :
        \/ mailbox'[g][i].op = op
        \/ i \in DOMAIN mailbox[g] /\ mailbox'[g][i] = mailbox[g][i]
  <2>1. \A a \in Actors : \A i \in DOMAIN mailbox'[a] :
          \/ mailbox'[a][i].op = op
          \/ i \in DOMAIN mailbox[a] /\ mailbox'[a][i] = mailbox[a][i]
    <3>1. \A a \in Actors : \A i \in DOMAIN mailbox'[a] :
            \/ /\ a \in Takers(op) /\ mailbox'[a][i].op = op
               /\ \A t \in mailbox'[a][i].under : TokenHolds(a, t)
            \/ i \in DOMAIN mailbox[a] /\ mailbox'[a][i] = mailbox[a][i]
      BY <1>1, <1>2, PostedRanks
    <3> QED BY <3>1
  <2> QED BY <2>1, Plan
<1>5. CASE CleanUp
  <2> SUFFICES ASSUME NEW g \in Shared
               PROVE  /\ trainer[g].steps <= step /\ (saved'[g] = NoState \/ saved'[g] <= step)
                      /\ \A i \in DOMAIN mailbox'[g] :
                           /\ i # 1 => mailbox'[g][i].op = "leave"
                           /\ mailbox'[g][i].op = "optimize" => trainer[g].steps + 1 <= step
    BY <1>1 DEF Within
  <2> QED BY <1>2, <1>3, <1>4, <1>5 DEF Within
<1>6. CASE NextCall
  <2>1. \A g \in Shared : mailbox[g] = <<>>
    BY <1>1, <1>6, AllAnswered, Plan DEF IInv, NextCall, Waiting, Working, Training
  <2>2. op = "optimize" => pc = "hydrate" /\ ~raised
    BY <1>2, <1>6 DEF NextCall, Gathered, After, Training
  <2> SUFFICES ASSUME NEW g \in Shared
               PROVE  /\ trainer[g].steps <= step /\ (saved'[g] = NoState \/ saved'[g] <= step)
                      /\ \A i \in DOMAIN mailbox'[g] :
                           /\ i # 1 => mailbox'[g][i].op = "leave"
                           /\ mailbox'[g][i].op = "optimize" => trainer[g].steps + 1 <= step
    BY <1>1 DEF Within
  <2>3. \A i \in DOMAIN mailbox'[g] : i = 1 /\ mailbox'[g][i].op = op
    <3>1. g \in Actors
      BY Plan
    <3>2. CASE g \in Takers(op)
      <4>1. mailbox'[g] = Append(<<>>, NewCall(op, {g}))
        BY <1>2, <2>1, <3>1, <3>2 DEF PostRanks
      <4>2. mailbox'[g] \in Seq(Call)
        BY <1>1, <1>2, <3>1, PostedRanks
      <4>3. Len(mailbox'[g]) = 1
        BY <4>1, FirstCall
      <4>4. DOMAIN mailbox'[g] = 1..1
        BY <4>2, <4>3
      <4> QED BY <1>4, <2>1, <4>4
    <3>3. CASE g \notin Takers(op)
      <4>1. mailbox'[g] = <<>>
        BY <1>2, <2>1, <3>1, <3>3 DEF PostRanks
      <4> QED BY <4>1
    <3> QED BY <3>2, <3>3
  <2>4. op = "optimize" => trainer[g].steps + 1 <= step
    <3> SUFFICES ASSUME op = "optimize" PROVE trainer[g].steps + 1 <= step
      OBVIOUS
    <3>1. trainer[g].steps + 1 = step /\ step \in Nat
      BY <1>1, <2>2, Counts DEF Course, InStep, AtStep
    <3> QED BY <3>1
  <2> QED BY <1>3, <2>3, <2>4 DEF Within
<1> QED BY <1>5, <1>6

LEMMA NextWithin == IInv /\ Course /\ Within /\ [Next]_vars => Within'
<1> SUFFICES ASSUME IInv, Course, Within, [Next]_vars PROVE Within'
  OBVIOUS
<1>1. Shape
  BY DEF IInv
<1>2. CASE NextCall \/ CleanUp
  BY <1>2, CallsWithin
<1>3. CASE \E a \in Actors : Actor(a)
  <2>1. PICK a \in Actors : Actor(a)
    BY <1>3
  <2>2. CASE a \in Shared
    BY <1>1, <2>1, <2>2, RankWithin
  <2>3. CASE a \in Replicas
    <3>1. UNCHANGED <<step, saved, trainer>>
      BY <1>1, <2>1, <2>3, ReplicaMoves
    <3> SUFFICES ASSUME NEW g \in Shared, NEW i \in DOMAIN mailbox'[g]
                 PROVE  i \in DOMAIN mailbox[g] /\ mailbox'[g][i].op = mailbox[g][i].op
      BY <3>1 DEF Within
    <3>2. g \in Actors /\ g # a
      BY <2>3, Plan
    <3>3. CASE Begin(a)
      BY <3>3 DEF Begin
    <3>4. CASE Succeed(a) \/ Fail(a)
      BY <1>1, <3>2, <3>4, CallsLeft
    <3> QED BY <2>1, <3>3, <3>4 DEF Actor
  <2> QED BY <2>2, <2>3, Plan
<1>4. CASE BeginWindow
  <2>1. step' = step + 1 /\ UNCHANGED <<trainer, saved>> /\ step \in Nat
    BY <1>1, <1>4, Counts DEF BeginWindow
  <2>2. \A g \in Shared : mailbox'[g] = mailbox[g]
    BY <1>4, Plan DEF BeginWindow, PostReplicas
  <2> SUFFICES ASSUME NEW g \in Shared
               PROVE  /\ trainer[g].steps <= step + 1 /\ (saved[g] = NoState \/ saved[g] <= step + 1)
                      /\ \A i \in DOMAIN mailbox[g] :
                           /\ i # 1 => mailbox[g][i].op = "leave"
                           /\ mailbox[g][i].op = "optimize" => trainer[g].steps + 1 <= step + 1
    BY <2>1, <2>2 DEF Within
  <2>3. /\ trainer[g].steps \in Nat /\ trainer[g].steps <= step
        /\ saved[g] \in Nat \cup {NoState} /\ (saved[g] = NoState \/ saved[g] <= step)
    BY <1>1, Counts DEF Within
  <2>4. \A k \in Nat : k <= step => k <= step + 1 /\ k + 1 <= step + 1
    BY <2>1
  <2> QED BY <2>3, <2>4 DEF Within
<1>5. CASE Wake \/ \E p \in Replicas : Activate(p)
  <2>1. UNCHANGED <<step, trainer, saved>>
    BY <1>5 DEF Wake, Activate, driverVars
  <2>2. \A g \in Shared : mailbox'[g] = mailbox[g]
    BY <1>5, Plan DEF Wake, Activate, PostReplicas
  <2> QED BY <2>1, <2>2, WithinStays
<1>6. CASE Ack \/ NoRoom \/ Release \/ EndWindow \/ EndStep \/ Die
  <2>1. UNCHANGED <<step, trainer, mailbox>> /\ (saved' = saved \/ KeepStates)
    BY <1>6 DEF Ack, NoRoom, Release, EndWindow, EndStep, Die, actorVars
  <2> QED BY <2>1, WithinStays
<1>7. CASE (\E g \in Shared : GrantTrainer(g) \/ GrantRollout(g)) \/ UNCHANGED vars
  <2>1. UNCHANGED <<step, trainer, mailbox, saved>>
    BY <1>7 DEF GrantTrainer, GrantRollout, vars, driverVars, actorVars
  <2> QED BY <2>1, WithinStays
<1> QED BY <1>2, <1>3, <1>4, <1>5, <1>6, <1>7 DEF Next, Driver

LEMMA InitWithin == Init => Awaits /\ Within
<1> SUFFICES ASSUME Init PROVE Awaits /\ Within
  OBVIOUS
<1>1. /\ \A a \in Actors : mailbox[a] = <<>>
      /\ \A g \in Shared : trainer[g].steps = 0 /\ saved[g] = NoState
      /\ step = 0 /\ raised = FALSE
  BY DEF Init
<1> QED BY <1>1, Plan DEF Awaits, Awaited, Within

(***************************************************************************)
(* TypeOK, and with it that an error leaves the driver waiting for nothing *)
(* and that no rank has made, nor the driver kept, more train steps than   *)
(* there were, whatever failed and whatever was still running when a       *)
(* window was given up (training.py _run_train_window, ray.get;            *)
(* fsdp2_backend.py optimize).                                             *)
(***************************************************************************)
THEOREM WindowTypeCorrect == Spec => []TypeOK
<1>1. IInv /\ Awaits /\ Within => TypeOK
  <2> SUFFICES ASSUME Shape, Awaits, Within PROVE TypeOK
    BY DEF IInv
  <2>1. \A k \in Nat : k <= step => k \in 0..MaxSteps
    <3>1. step \in 0..MaxSteps /\ MaxSteps \in Nat
      BY Plan DEF Shape
    <3> QED BY <3>1
  <2>2. saved \in [Shared -> 0..MaxSteps \cup {NoState}]
    BY <2>1 DEF Shape, Within
  <2>3. trainer \in [Shared -> [initialized : BOOLEAN, hydrated : BOOLEAN,
                                onGpu : BOOLEAN, steps : 0..MaxSteps]]
    <3>1. trainer \in [Shared -> RankState] /\ \A g \in Shared : trainer[g].steps <= step
      BY DEF Shape, Within
    <3>2. ASSUME NEW r \in RankState, r.steps <= step
          PROVE  r \in [initialized : BOOLEAN, hydrated : BOOLEAN,
                        onGpu : BOOLEAN, steps : 0..MaxSteps]
      <4>1. r.steps \in 0..MaxSteps
        BY <2>1, <3>2 DEF RankState
      <4> QED BY <3>2, <4>1 DEF RankState
    <3> QED BY <3>1, <3>2
  <2> QED BY <2>2, <2>3 DEF TypeOK, Shape, Awaits, ReplicaState
<1> QED BY <1>1, HandoverInvariant, InitCourse, NextCourse, InitWithin, NextAwaits, NextWithin,
           PTL DEF Spec
=============================================================================
