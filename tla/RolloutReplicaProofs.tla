------------------------ MODULE RolloutReplicaProofs ------------------------
(***************************************************************************)
(* One replica, for any GPUs, versions, lengths and configuration.  That a *)
(* call returned is not enough to know where it left the engine, so every  *)
(* invariant follows the training loop:                                    *)
(*   - where the engine is: from the offload that lets the loop go on      *)
(*     until the grant back to rollout nothing moves it (IInv);            *)
(*   - whether the flag _offloaded tells it (FlagInv);                     *)
(*   - whose weights it has (ServeInv): a rebuilt engine is told its       *)
(*     weight, a synced one keeps it, and a version that did not get       *)
(*     active is never exported over.                                      *)
(* The lengths of mock responses need no invariant, but arithmetic.        *)
(***************************************************************************)
EXTENDS RolloutReplica, TLAPS

\* All that is needed of a backend's type: it says where the engine is.
Placed(b) == "onGpu" \in DOMAIN b

AllPlaced(outcomes) == \A o \in outcomes : Placed(o.b)

Leaving == {"granting", "training", "starting", "sending", "finishing", "trained"}

IInv ==
  /\ Placed(backend)
  /\ config \in Configs
  /\ config.backend = "mock" => backend.onGpu = FALSE
  /\ leaseRole \in {"rollout", "trainer"}
  /\ leaseRole = "trainer" => phase \in Leaving \union {"failed"}
  /\ Shared /\ phase \in Leaving => backend.onGpu = FALSE
  /\ Shared /\ leaseRole = "trainer" => backend.onGpu = FALSE

LEMMA InitIInv == Init => IInv
BY DEF Init, IInv, Placed, Leaving, Shared

-----------------------------------------------------------------------------
(* No call of a backend forgets where its engine is. *)

LEMMA Projections ==
  \A b : /\ Done(b).ok = TRUE /\ Done(b).b = b
         /\ Raised(b).ok = FALSE /\ Raised(b).b = b
BY DEF Done, Raised

LEMMA EnginePlaced ==
  ASSUME NEW b, Placed(b), NEW v
  PROVE  /\ AllPlaced(Construct(b)) /\ AllPlaced(NotifyEngine(b, v))
         /\ AllPlaced(EngineWake(b)) /\ AllPlaced(HfLoad(b, v))
         /\ AllPlaced(StartUpdate(b, v)) /\ AllPlaced(UpdateWeights(b, v))
         /\ AllPlaced(FinishUpdate(b))
<1> USE DEF AllPlaced, Placed, Done, Raised
<1>1. AllPlaced(Construct(b)) /\ AllPlaced(EngineWake(b))
  BY DEF Construct, EngineWake
<1>2. AllPlaced(NotifyEngine(b, v)) /\ AllPlaced(HfLoad(b, v))
  BY DEF NotifyEngine, HfLoad
<1>3. AllPlaced(StartUpdate(b, v)) /\ AllPlaced(UpdateWeights(b, v)) /\ AllPlaced(FinishUpdate(b))
  <2>1. /\ Placed([b EXCEPT !.pending = v])
        /\ Placed([b EXCEPT !.engine = v]) /\ Placed([b EXCEPT !.engine = Torn])
        /\ Placed([b EXCEPT !.synced = @ \union {b.pending}, !.pending = NoVersion])
    OBVIOUS
  <2> QED BY <2>1, Projections, Zenon DEF StartUpdate, UpdateWeights, FinishUpdate
<1> QED BY <1>1, <1>2, <1>3

LEMMA WakePlaced ==
  ASSUME NEW b, Placed(b) PROVE AllPlaced(VllmWake(b)) /\ AllPlaced(HfWake(b))
<1>1. AllPlaced(VllmWake(b))
  <2>1. CASE b.active = NoVersion
    <3>1. VllmWake(b) = {Done([b EXCEPT !.offloaded = FALSE])}
      BY <2>1, ZenonT(30) DEF VllmWake, Then
    <3> QED BY <3>1 DEF AllPlaced, Placed, Done
  <2>2. CASE b.active # NoVersion /\ b.engine = NoVersion
    <3> DEFINE Rebuilt(c) == NotifyEngine(c, c.active)
               Awake(c)   == {Done([c EXCEPT !.offloaded = FALSE])}
               told       == Then(Construct(b), Rebuilt)
    <3>1. AllPlaced(told)
      BY EnginePlaced DEF Then, AllPlaced
    <3>2. VllmWake(b) = Then(told, Awake)
      BY <2>2, ZenonT(30) DEF VllmWake, Then
    <3> HIDE DEF told
    <3> QED BY <3>1, <3>2 DEF Then, AllPlaced, Placed, Done
  <2>3. CASE b.active # NoVersion /\ b.engine # NoVersion
    <3> DEFINE Awake(c) == {Done([c EXCEPT !.offloaded = FALSE])}
               woken    == IF b.offloaded THEN EngineWake(b) ELSE {Done(b)}
    <3>1. AllPlaced(woken)
      BY EnginePlaced DEF AllPlaced, Done
    <3>2. VllmWake(b) = Then(woken, Awake)
      BY <2>3 DEF VllmWake, Then
    <3> HIDE DEF woken
    <3> QED BY <3>1, <3>2 DEF Then, AllPlaced, Placed, Done
  <2> QED BY <2>1, <2>2, <2>3
<1>2. AllPlaced(HfWake(b))
  BY EnginePlaced DEF HfWake, Then, AllPlaced, Placed, Done, Raised
<1> QED BY <1>1, <1>2

LEMMA ActivatePlaced ==
  ASSUME NEW b, Placed(b), NEW v PROVE AllPlaced(VllmActivate(b, v)) /\ AllPlaced(HfActivate(b, v))
<1>1. AllPlaced(VllmActivate(b, v))
  <2> DEFINE Fresh(c)   == {Done([c EXCEPT !.offloaded = FALSE])}
             Woken2(c)  == IF c.offloaded THEN VllmWake(c) ELSE {Done(c)}
             Told(c)    == IF v \in c.synced THEN {Done(c)} ELSE NotifyEngine(c, v)
             Current(c) == {Done([c EXCEPT !.active = v])}
             built == IF b.engine = NoVersion THEN Then(Construct(b), Fresh) ELSE {Done(b)}
             woken == Then(built, Woken2)
             told  == Then(woken, Told)
  <2>1. AllPlaced(built)
    BY EnginePlaced DEF Then, AllPlaced, Placed, Done
  <2>2. AllPlaced(woken)
    <3> HIDE DEF built
    <3> QED BY <2>1, WakePlaced DEF Then, AllPlaced, Done
  <2>3. AllPlaced(told)
    <3> HIDE DEF woken
    <3> QED BY <2>2, EnginePlaced DEF Then, AllPlaced, Done
  <2>4. VllmActivate(b, v) = Then(told, Current)
    BY DEF VllmActivate, Then
  <2> HIDE DEF told
  <2> QED BY <2>3, <2>4 DEF Then, AllPlaced, Placed, Done
<1>2. AllPlaced(HfActivate(b, v))
  <2> DEFINE Woken2(c)  == IF c.offloaded THEN HfWake(c) ELSE {Done(c)}
             Current(c) == {Done([c EXCEPT !.active = v])}
             loaded == IF b.engine = NoVersion \/ b.loaded # v THEN HfLoad(b, v) ELSE {Done(b)}
             woken  == Then(loaded, Woken2)
  <2>1. AllPlaced(loaded)
    BY EnginePlaced DEF AllPlaced, Done
  <2>2. AllPlaced(woken)
    <3> HIDE DEF loaded
    <3> QED BY <2>1, WakePlaced DEF Then, AllPlaced, Done
  <2>3. HfActivate(b, v) = Then(woken, Current)
    BY DEF HfActivate, Then
  <2> HIDE DEF woken
  <2> QED BY <2>2, <2>3 DEF Then, AllPlaced, Placed, Done
<1> QED BY <1>1, <1>2

\* An offload that returned left no engine on the GPUs; the mock has none.
LEMMA OffloadLeaves ==
  ASSUME NEW b, Placed(b)
  PROVE  /\ \A o \in VllmOffload(b) : Placed(o.b) /\ (o.ok => o.b.onGpu = FALSE)
         /\ \A o \in HfOffload(b) : Placed(o.b) /\ (o.ok => o.b.onGpu = FALSE)
         /\ \A o \in MockOffload(b) : Placed(o.b) /\ o.b.onGpu = b.onGpu
<1>1. \A o \in VllmOffload(b) : Placed(o.b) /\ (o.ok => o.b.onGpu = FALSE)
  <2> DEFINE asleep == [b EXCEPT !.onGpu = FALSE, !.slept = b.engine, !.offloaded = TRUE]
             gone   == [b EXCEPT !.onGpu = FALSE, !.engine = NoVersion, !.offloaded = TRUE]
  <2>1. /\ Placed(asleep) /\ asleep.onGpu = FALSE
        /\ Placed(gone) /\ gone.onGpu = FALSE
    BY DEF Placed
  <2>2. VllmOffload(b) \subseteq {Raised(b), Done(asleep), Raised(asleep), Done(gone), Raised(gone)}
    BY Zenon DEF VllmOffload, Outcomes
  <2> HIDE DEF asleep, gone
  <2> QED BY <2>1, <2>2, Projections, Zenon
<1>2. \A o \in HfOffload(b) : Placed(o.b) /\ (o.ok => o.b.onGpu = FALSE)
  <2> DEFINE gone  == [b EXCEPT !.engine = NoVersion, !.onGpu = FALSE, !.offloaded = TRUE]
             moved == [b EXCEPT !.onGpu = FALSE, !.offloaded = TRUE]
  <2>1. /\ Placed(gone) /\ gone.onGpu = FALSE
        /\ Placed(moved) /\ moved.onGpu = FALSE
    BY DEF Placed
  <2>2. HfOffload(b) \subseteq {Raised(b), Done(gone), Done(moved)}
    BY Zenon DEF HfOffload
  <2> HIDE DEF gone, moved
  <2> QED BY <2>1, <2>2, Projections, Zenon
<1>3. \A o \in MockOffload(b) : Placed(o.b) /\ o.b.onGpu = b.onGpu
  <2>1. /\ Placed([b EXCEPT !.offloaded = TRUE])
        /\ [b EXCEPT !.offloaded = TRUE].onGpu = b.onGpu
    BY DEF Placed
  <2> QED BY <2>1, Projections, Zenon DEF MockOffload
<1> QED BY <1>1, <1>2, <1>3

\* Taking a weight writes it where the engine is, asleep or not.
LEMMA UpdateStays ==
  ASSUME NEW b, Placed(b), NEW v,
         NEW o \in StartUpdate(b, v) \union UpdateWeights(b, v) \union FinishUpdate(b)
  PROVE  Placed(o.b) /\ o.b.onGpu = b.onGpu
<1> DEFINE marked   == [b EXCEPT !.pending = v]
           written  == [b EXCEPT !.engine = v]
           spoiled  == [b EXCEPT !.engine = Torn]
           finished == [b EXCEPT !.synced = @ \union {b.pending}, !.pending = NoVersion]
<1>1. \A c \in {b, marked, written, spoiled, finished} : Placed(c) /\ c.onGpu = b.onGpu
  BY DEF Placed
<1>2. o.b \in {b, marked, written, spoiled, finished}
  BY Projections, Zenon DEF StartUpdate, UpdateWeights, FinishUpdate
<1> HIDE DEF marked, written, spoiled, finished
<1> QED BY <1>1, <1>2

\* The actor's calls, whichever the backend.
LEMMA ActorCalls ==
  ASSUME IInv, NEW v
  PROVE  /\ \A o \in Activated(v) \union Woken :
              Placed(o.b) /\ (config.backend = "mock" => o.b.onGpu = FALSE)
         /\ \A o \in Offloaded :
              /\ Placed(o.b) /\ (config.backend = "mock" => o.b.onGpu = FALSE)
              /\ o.ok => o.b.onGpu = FALSE
<1>0. config.backend \in {"vllm", "huggingface", "mock"} /\ Placed(backend)
  BY DEF IInv, Configs
<1>1. AllPlaced(VllmActivate(backend, v)) /\ AllPlaced(HfActivate(backend, v))
  BY <1>0, ActivatePlaced
<1>2. AllPlaced(VllmWake(backend)) /\ AllPlaced(HfWake(backend))
  BY <1>0, WakePlaced
<1>3. CASE config.backend = "mock"
  <2>1. backend.onGpu = FALSE
    BY <1>3 DEF IInv
  <2>2. /\ Activated(v) \in {MockActivate(backend, v), {Raised(backend)}}
        /\ Woken \in {MockWake(backend), {Raised(backend)}}
        /\ Offloaded \in {MockOffload(backend), {Raised(backend)}}
    BY <1>3 DEF Activated, Woken, Offloaded, WithLease
  <2>3. \A o \in MockActivate(backend, v) \union MockWake(backend) \union {Raised(backend)} :
          Placed(o.b) /\ o.b.onGpu = FALSE
    <3> DEFINE told  == [backend EXCEPT !.engine = v, !.active = v, !.offloaded = FALSE]
               woken == [backend EXCEPT !.offloaded = FALSE]
    <3>1. \A c \in {told, woken} : Placed(c) /\ c.onGpu = backend.onGpu
      BY <1>0 DEF Placed
    <3>2. MockActivate(backend, v) = {Done(told)} /\ MockWake(backend) = {Done(woken)}
      BY DEF MockActivate, MockWake
    <3> HIDE DEF told, woken
    <3> QED BY <1>0, <2>1, <3>1, <3>2, Projections, Zenon
  <2>4. \A o \in MockOffload(backend) \union {Raised(backend)} : Placed(o.b) /\ o.b.onGpu = FALSE
    BY <1>0, <2>1, OffloadLeaves, Projections, Zenon
  <2> QED BY <2>2, <2>3, <2>4
<1>4. CASE config.backend = "vllm"
  <2>1. /\ Activated(v) \in {VllmActivate(backend, v), {Raised(backend)}}
        /\ Woken \in {VllmWake(backend), {Raised(backend)}}
        /\ Offloaded \in {VllmOffload(backend), {Raised(backend)}}
    BY <1>4 DEF Activated, Woken, Offloaded, WithLease
  <2>2. config.backend # "mock"
    BY <1>4
  <2>3. \A o \in VllmOffload(backend) : Placed(o.b) /\ (o.ok => o.b.onGpu = FALSE)
    BY <1>0, OffloadLeaves
  <2>4. \A o \in VllmActivate(backend, v) \union VllmWake(backend) : Placed(o.b)
    BY <1>1, <1>2 DEF AllPlaced
  <2>5. \A o \in {Raised(backend)} : Placed(o.b) /\ ~o.ok
    BY <1>0, Projections, Zenon
  <2> QED BY <2>1, <2>2, <2>3, <2>4, <2>5, Zenon
<1>5. CASE config.backend = "huggingface"
  <2>1. /\ Activated(v) \in {HfActivate(backend, v), {Raised(backend)}}
        /\ Woken \in {HfWake(backend), {Raised(backend)}}
        /\ Offloaded \in {HfOffload(backend), {Raised(backend)}}
    BY <1>5 DEF Activated, Woken, Offloaded, WithLease
  <2>2. config.backend # "mock"
    BY <1>5
  <2>3. \A o \in HfOffload(backend) : Placed(o.b) /\ (o.ok => o.b.onGpu = FALSE)
    BY <1>0, OffloadLeaves
  <2>4. \A o \in HfActivate(backend, v) \union HfWake(backend) : Placed(o.b)
    BY <1>1, <1>2 DEF AllPlaced
  <2>5. \A o \in {Raised(backend)} : Placed(o.b) /\ ~o.ok
    BY <1>0, Projections, Zenon
  <2> QED BY <2>1, <2>2, <2>3, <2>4, <2>5, Zenon
<1> QED BY <1>0, <1>3, <1>4, <1>5

-----------------------------------------------------------------------------
(* The steps of the loop. *)

LEMMA ActivateIInv == ASSUME IInv, Activate \/ OthersRaise PROVE IInv'
<1>1. leaseRole = "rollout"
  BY DEF IInv, Leaving, Activate, OthersRaise
<1>2. \E o \in Activated(exported) : backend' = o.b
  BY DEF Activate, OthersRaise
<1>3. Placed(backend') /\ (config.backend = "mock" => backend'.onGpu = FALSE)
  BY <1>2, ActorCalls
<1>4. /\ phase' \in {"serving", "raised"}
      /\ UNCHANGED <<config, leaseRole>>
  BY DEF Activate, OthersRaise
<1> QED BY <1>1, <1>3, <1>4 DEF IInv, Leaving, Shared

LEMMA OffloadIInv == ASSUME IInv, Offload PROVE IInv'
<1>1. leaseRole = "rollout" /\ UNCHANGED <<config, leaseRole>>
  BY DEF IInv, Leaving, Offload
<1>2. CASE Shared
  <2>1. PICK o \in Offloaded : /\ backend' = o.b
                              /\ phase' = IF o.ok THEN "granting" ELSE "failed"
    BY <1>2 DEF Offload
  <2>2. /\ Placed(backend') /\ (config.backend = "mock" => backend'.onGpu = FALSE)
        /\ phase' = "granting" => backend'.onGpu = FALSE
        /\ phase' \in {"granting", "failed"}
    BY <2>1, ActorCalls
  <2> QED BY <1>1, <2>2 DEF IInv, Leaving, Shared
<1>3. CASE ~Shared
  <2>1. backend' = backend
    BY <1>3 DEF Offload, Done
  <2> QED BY <1>1, <1>3, <2>1 DEF IInv, Leaving, Shared
<1> QED BY <1>2, <1>3

LEMMA SyncIInv == ASSUME IInv, StartSync \/ SendWeights \/ FinishSync PROVE IInv'
<1>1. PICK o \in StartUpdate(backend, exported) \union UpdateWeights(backend, exported)
                 \union FinishUpdate(backend) : backend' = o.b
  BY DEF StartSync, SendWeights, FinishSync
<1>2. Placed(backend') /\ backend'.onGpu = backend.onGpu
  BY <1>1, UpdateStays DEF IInv
<1>3. /\ phase \in Leaving /\ phase' \in (Leaving \ {"granting"}) \union {"failed"}
      /\ UNCHANGED <<config, leaseRole>>
  BY DEF StartSync, SendWeights, FinishSync, Leaving
<1> QED BY <1>2, <1>3 DEF IInv, Shared

LEMMA WakeIInv == ASSUME IInv, Wake PROVE IInv'
<1>1. leaseRole = "rollout" /\ UNCHANGED <<config, leaseRole>>
  BY DEF IInv, Leaving, Wake
<1>2. phase' \in {"activating", "raised"}
  BY DEF Wake
<1>3. \/ backend' = backend
      \/ \E o \in Woken : backend' = o.b
  BY DEF Wake, Done
<1>4. Placed(backend') /\ (config.backend = "mock" => backend'.onGpu = FALSE)
  BY <1>3, ActorCalls DEF IInv
<1> QED BY <1>1, <1>2, <1>4 DEF IInv, Leaving, Shared

LEMMA NextIInv == ASSUME IInv, [Next]_vars PROVE IInv'
<1>1. CASE UNCHANGED vars
  BY <1>1 DEF vars, IInv, Shared
<1>2. CASE Activate \/ OthersRaise
  BY <1>2, ActivateIInv
<1>3. CASE Generate \/ GenerateRaises \/ RunAgain
  BY <1>3 DEF Generate, GenerateRaises, RunAgain, IInv, Leaving, Shared
<1>4. CASE Offload
  BY <1>4, OffloadIInv
<1>5. CASE GrantTrainer
  BY <1>5 DEF GrantTrainer, IInv, Leaving, Shared
<1>6. CASE Export \/ WindowRaises
  BY <1>6 DEF Export, WindowRaises, IInv, Leaving, Shared
<1>7. CASE StartSync \/ SendWeights \/ FinishSync
  BY <1>7, SyncIInv
<1>8. CASE GrantRollout
  BY <1>8 DEF GrantRollout, IInv, Leaving, Shared
<1>9. CASE Wake
  BY <1>9, WakeIInv
<1> QED BY <1>1, <1>2, <1>3, <1>4, <1>5, <1>6, <1>7, <1>8, <1>9 DEF Next

\* Whatever the backend, and whichever of its calls fail: as long as a shared
\* GPU is leased to the trainer, the replica's engine is not on it
\* (training.py:249-277, vllm_backend.py:347-409).
THEOREM TrainerHasTheGpus == Spec => []OffGpuForTrainer
<1>1. Init => IInv
  BY InitIInv
<1>2. IInv /\ [Next]_vars => IInv'
  BY NextIInv
<1>3. IInv => OffGpuForTrainer
  BY Zenon DEF IInv, OffGpuForTrainer
<1> QED BY <1>1, <1>2, <1>3, PTL DEF Spec

-----------------------------------------------------------------------------
(* The flag of the backends with an engine.                                *)

Fields == {"engine", "onGpu", "slept", "active", "offloaded", "pending", "synced", "loaded"}
Whole(b) == Fields \subseteq DOMAIN b

\* The engine that the flag calls awake is on its GPU.
Truthful(b) == b.engine # NoVersion /\ ~b.offloaded => b.onGpu = TRUE

\* The Hugging Face backend: there is no model only after a teardown.
Emptied(b) == b.engine = NoVersion => b.offloaded = TRUE

\* A vLLM engine is built on its GPU, and woken there.
LEMMA VllmWakes ==
  ASSUME NEW b, Whole(b), Truthful(b), b.active # NoVersion
  PROVE  \A o \in VllmWake(b) :
           /\ Whole(o.b) /\ Truthful(o.b) /\ o.b.active = b.active
           /\ o.ok => o.b.onGpu = TRUE
<1> DEFINE Kept(c) == Whole(c) /\ c.active = b.active
           Up(c)   == Kept(c) /\ c.onGpu = TRUE
           Awake(c) == {Done([c EXCEPT !.offloaded = FALSE])}
<1>0. Kept(b) /\ Truthful(b)
  OBVIOUS
<1>1. CASE b.engine = NoVersion
  <2> DEFINE Rebuilt(c) == NotifyEngine(c, c.active)
             told == Then(Construct(b), Rebuilt)
             built == [b EXCEPT !.engine = 0, !.onGpu = TRUE]
  <2>1. Up(built)
    BY DEF Whole, Fields
  <2>2. \A o \in told : (Up(o.b) \/ (o.ok = FALSE /\ o.b = b))
    <3>1. told \subseteq {Raised(b)} \union NotifyEngine(built, built.active)
      BY Projections, Zenon DEF Then, Construct
    <3> DEFINE engaged == [built EXCEPT !.engine = built.active]
               spoiled == [built EXCEPT !.engine = Torn]
    <3>2. NotifyEngine(built, built.active) \subseteq {Done(engaged), Raised(spoiled), Done(built)}
      BY Zenon DEF NotifyEngine
    <3>3. Up(engaged) /\ Up(spoiled)
      <4> HIDE DEF built
      <4> QED BY <2>1 DEF Whole, Fields
    <3> HIDE DEF told, built, engaged, spoiled, Up
    <3>4. ASSUME NEW o \in told
          PROVE  o \in {Raised(b), Done(engaged), Raised(spoiled), Done(built)}
      BY <3>1, <3>2
    <3>5. Raised(b).ok = FALSE /\ Raised(b).b = b
      BY Projections
    <3>6. Up(Done(engaged).b) /\ Up(Raised(spoiled).b) /\ Up(Done(built).b)
      BY <2>1, <3>3, Projections, Zenon
    <3> QED BY <3>4, <3>5, <3>6, Zenon
  <2>3. VllmWake(b) = Then(told, Awake)
    BY <1>1, ZenonT(30) DEF VllmWake, Then
  <2> HIDE DEF told
  <2>4. \A c : Up(c) => Up([c EXCEPT !.offloaded = FALSE])
    BY DEF Whole, Fields
  <2>5. ASSUME NEW o \in VllmWake(b)
        PROVE  Up(o.b) \/ (o.ok = FALSE /\ o.b = b)
    <3>1. PICK w \in told : o \in (IF w.ok THEN Awake(w.b) ELSE {w})
      BY <2>3, <2>5 DEF Then
    <3>2. CASE w.ok
      <4>1. Up(w.b)
        BY <2>2, <3>1, <3>2
      <4>2. o = Done([w.b EXCEPT !.offloaded = FALSE])
        BY <3>1, <3>2
      <4>3. o.b = [w.b EXCEPT !.offloaded = FALSE]
        BY <4>2 DEF Done
      <4> HIDE DEF Up
      <4> QED BY <2>4, <4>1, <4>3
    <3>3. CASE ~w.ok
      BY <2>2, <3>1, <3>3
    <3> QED BY <3>2, <3>3
  <2> QED BY <1>0, <2>5 DEF Truthful
<1>2. CASE b.engine # NoVersion
  <2> DEFINE woken == IF b.offloaded THEN EngineWake(b) ELSE {Done(b)}
             awoken == [b EXCEPT !.onGpu = TRUE, !.engine = IF config.keeps THEN @ ELSE b.slept]
  <2>1. Up(awoken)
    BY DEF Whole, Fields
  <2>2. \A o \in woken : Up(o.b) \/ (o.ok = FALSE /\ o.b = b)
    <3>1. CASE b.offloaded
      <4>1. woken = {Raised(b), Done(awoken)}
        BY <3>1 DEF EngineWake
      <4> HIDE DEF Up, woken, awoken
      <4>2. Up(Done(awoken).b) /\ Raised(b).ok = FALSE /\ Raised(b).b = b
        BY <2>1, Projections, Zenon
      <4> QED BY <4>1, <4>2, Zenon
    <3>2. CASE ~b.offloaded
      <4>1. woken = {Done(b)}
        BY <3>2
      <4>2. Up(b)
        BY <1>2, <3>2 DEF Truthful
      <4> HIDE DEF Up, woken
      <4> QED BY <4>1, <4>2, Projections, Zenon
    <3> QED BY <3>1, <3>2
  <2>3. VllmWake(b) = Then(woken, Awake)
    BY <1>2 DEF VllmWake, Then
  <2> HIDE DEF woken
  <2>4. \A c : Up(c) => Up([c EXCEPT !.offloaded = FALSE])
    BY DEF Whole, Fields
  <2>5. ASSUME NEW o \in VllmWake(b)
        PROVE  Up(o.b) \/ (o.ok = FALSE /\ o.b = b)
    <3>1. PICK w \in woken : o \in (IF w.ok THEN Awake(w.b) ELSE {w})
      BY <2>3, <2>5 DEF Then
    <3>2. CASE w.ok
      <4>1. Up(w.b)
        BY <2>2, <3>1, <3>2
      <4>2. o = Done([w.b EXCEPT !.offloaded = FALSE])
        BY <3>1, <3>2
      <4>3. o.b = [w.b EXCEPT !.offloaded = FALSE]
        BY <4>2 DEF Done
      <4> HIDE DEF Up
      <4> QED BY <2>4, <4>1, <4>3
    <3>3. CASE ~w.ok
      BY <2>2, <3>1, <3>3
    <3> QED BY <3>2, <3>3
  <2> QED BY <1>0, <2>5 DEF Truthful
<1> QED BY <1>1, <1>2

LEMMA VllmActivates ==
  ASSUME NEW b, Whole(b), Truthful(b), NEW v,
         b.active # NoVersion \/ b.engine = NoVersion
  PROVE  \A o \in VllmActivate(b, v) :
           /\ Whole(o.b) /\ Truthful(o.b)
           /\ o.b.active = IF o.ok THEN v ELSE b.active
<1> DEFINE Fresh(c)   == {Done([c EXCEPT !.offloaded = FALSE])}
           Woken2(c)  == IF c.offloaded THEN VllmWake(c) ELSE {Done(c)}
           Told(c)    == IF v \in c.synced THEN {Done(c)} ELSE NotifyEngine(c, v)
           Current(c) == {Done([c EXCEPT !.active = v])}
           built == IF b.engine = NoVersion THEN Then(Construct(b), Fresh) ELSE {Done(b)}
           woken == Then(built, Woken2)
           told  == Then(woken, Told)
           Kept(c) == Whole(c) /\ c.active = b.active
           Up(c)   == Kept(c) /\ c.onGpu = TRUE
           Left(o) == ~o.ok /\ Kept(o.b) /\ Truthful(o.b)
<1>0. Kept(b) /\ Truthful(b)
  OBVIOUS
<1>1. \A o \in built :
        \/ /\ o.ok /\ Kept(o.b) /\ Truthful(o.b)
           /\ o.b.engine # NoVersion /\ (o.b.active # NoVersion \/ ~o.b.offloaded)
        \/ Left(o)
  <2>1. CASE b.engine = NoVersion
    <3> DEFINE new   == [b EXCEPT !.engine = 0, !.onGpu = TRUE]
               fresh == [new EXCEPT !.offloaded = FALSE]
    <3>1. Kept(fresh) /\ fresh.onGpu = TRUE /\ ~fresh.offloaded /\ fresh.engine # NoVersion
      BY Markers DEF Whole, Fields
    <3>2. built = Then(Construct(b), Fresh)
      BY <2>1
    <3> HIDE DEF built, new, Fresh
    <3>7. Construct(b) = {Raised(b), Done(new)} /\ Fresh(new) = {Done(fresh)}
      BY DEF Construct, Fresh, new
    <3>8. /\ Raised(b).ok = FALSE
          /\ Done(new).ok = TRUE /\ Done(new).b = new
      BY Projections
    <3> HIDE DEF fresh, Kept
    <3>3. Truthful(fresh)
      BY <3>1 DEF Truthful
    <3>4. /\ Done(fresh).ok /\ Done(fresh).b = fresh
          /\ ~Raised(b).ok /\ Raised(b).b = b
      BY Projections
    <3>5. ASSUME NEW o \in built PROVE o = Raised(b) \/ o = Done(fresh)
      <4>1. PICK w \in Construct(b) : o \in (IF w.ok THEN Fresh(w.b) ELSE {w})
        BY <3>2, <3>5 DEF Then
      <4> QED BY <3>7, <3>8, <4>1
    <3> QED BY <1>0, <3>1, <3>3, <3>4, <3>5
  <2>2. CASE b.engine # NoVersion
    <3>1. built = {Done(b)}
      BY <2>2
    <3>2. Done(b).ok /\ Done(b).b = b
      BY Projections
    <3> HIDE DEF built
    <3> QED BY <1>0, <2>2, <3>1, <3>2
  <2> QED BY <2>1, <2>2
<1>2. \A o \in woken : (o.ok /\ Up(o.b)) \/ Left(o)
  <2> SUFFICES ASSUME NEW o \in woken PROVE (o.ok /\ Up(o.b)) \/ Left(o)
    OBVIOUS
  <2>1. PICK w \in built : o \in (IF w.ok THEN Woken2(w.b) ELSE {w})
    <3> HIDE DEF built
    <3> QED BY DEF Then
  <2> HIDE DEF built
  <2>2. CASE ~w.ok
    BY <1>1, <2>1, <2>2
  <2>3. CASE w.ok /\ w.b.offloaded
    <3>1. Kept(w.b) /\ Truthful(w.b) /\ w.b.active # NoVersion /\ o \in VllmWake(w.b)
      BY <1>1, <2>1, <2>3
    <3>2. Whole(o.b) /\ Truthful(o.b) /\ o.b.active = w.b.active /\ (o.ok => o.b.onGpu = TRUE)
      BY <3>1, VllmWakes
    <3> QED BY <3>1, <3>2
  <2>4. CASE w.ok /\ ~w.b.offloaded
    <3>1. o = Done(w.b)
      BY <2>1, <2>4
    <3>2. Done(w.b).ok /\ Done(w.b).b = w.b
      BY Projections
    <3>3. Kept(w.b) /\ Truthful(w.b) /\ w.b.engine # NoVersion
      BY <1>1, <2>1, <2>4
    <3>4. w.b.onGpu = TRUE
      BY <2>4, <3>3 DEF Truthful
    <3> QED BY <3>1, <3>2, <3>3, <3>4
  <2> QED BY <2>2, <2>3, <2>4
<1>3. \A o \in told : (o.ok /\ Up(o.b)) \/ Left(o)
  <2> SUFFICES ASSUME NEW o \in told PROVE (o.ok /\ Up(o.b)) \/ Left(o)
    OBVIOUS
  <2>1. PICK w \in woken : o \in (IF w.ok THEN Told(w.b) ELSE {w})
    <3> HIDE DEF woken
    <3> QED BY DEF Then
  <2> HIDE DEF woken
  <2>2. CASE ~w.ok
    BY <1>2, <2>1, <2>2
  <2>3. CASE w.ok
    <3> DEFINE c       == w.b
               engaged == [c EXCEPT !.engine = v]
               spoiled == [c EXCEPT !.engine = Torn]
    <3>1. Up(c) /\ o \in Told(c)
      BY <1>2, <2>1, <2>3
    <3>2. o \in {Done(c), Done(engaged), Raised(spoiled)}
      BY <3>1, Zenon DEF NotifyEngine
    <3> HIDE DEF c
    <3>3. Up(engaged) /\ Up(spoiled)
      BY <3>1 DEF Whole, Fields
    <3> HIDE DEF engaged, spoiled, told
    <3>4. /\ Done(c).ok /\ Done(c).b = c
          /\ Done(engaged).ok /\ Done(engaged).b = engaged
          /\ ~Raised(spoiled).ok /\ Raised(spoiled).b = spoiled
      BY Projections
    <3>5. Truthful(spoiled)
      BY <3>3 DEF Truthful
    <3> HIDE DEF Kept
    <3> QED BY <3>1, <3>2, <3>3, <3>4, <3>5
  <2> QED BY <2>2, <2>3
<1>4. VllmActivate(b, v) = Then(told, Current)
  BY DEF VllmActivate, Then
<1> HIDE DEF told
<1>5. ASSUME NEW o \in VllmActivate(b, v)
      PROVE  /\ Whole(o.b) /\ Truthful(o.b)
             /\ o.b.active = IF o.ok THEN v ELSE b.active
  <2>1. PICK w \in told : o \in (IF w.ok THEN Current(w.b) ELSE {w})
    BY <1>4, <1>5 DEF Then
  <2>2. CASE ~w.ok
    BY <1>3, <2>1, <2>2
  <2>3. CASE w.ok
    <3> DEFINE c   == w.b
               now == [c EXCEPT !.active = v]
    <3>1. Up(c) /\ o = Done(now)
      BY <1>3, <2>1, <2>3
    <3> HIDE DEF c
    <3>2. Whole(now) /\ now.onGpu = TRUE /\ now.active = v
      BY <3>1 DEF Whole, Fields
    <3> HIDE DEF now
    <3>3. o.ok /\ o.b = now
      BY <3>1, Projections
    <3> QED BY <3>2, <3>3 DEF Truthful
  <2> QED BY <2>2, <2>3
<1> QED BY <1>5

\* What offloading leaves is flagged, asleep or gone.
LEMMA EngineOffloads ==
  ASSUME NEW b, Whole(b)
  PROVE  /\ \A o \in VllmOffload(b) :
              Whole(o.b) /\ o.b.active = b.active /\ (Truthful(b) => Truthful(o.b))
         /\ \A o \in HfOffload(b) :
              /\ Whole(o.b) /\ o.b.active = b.active /\ (Truthful(b) => Truthful(o.b))
              /\ Emptied(b) => Emptied(o.b)
<1> DEFINE asleep == [b EXCEPT !.onGpu = FALSE, !.slept = b.engine, !.offloaded = TRUE]
           gone   == [b EXCEPT !.onGpu = FALSE, !.engine = NoVersion, !.offloaded = TRUE]
           torn   == [b EXCEPT !.engine = NoVersion, !.onGpu = FALSE, !.offloaded = TRUE]
           moved  == [b EXCEPT !.onGpu = FALSE, !.offloaded = TRUE]
<1>1. \A c \in {asleep, gone, torn, moved} :
        Whole(c) /\ c.active = b.active /\ c.offloaded = TRUE
  BY DEF Whole, Fields
<1>2. \A c \in {asleep, gone, torn, moved} : Truthful(c) /\ Emptied(c)
  <2> HIDE DEF asleep, gone, torn, moved
  <2> QED BY <1>1, Zenon DEF Truthful, Emptied
<1>3. VllmOffload(b) \subseteq {Raised(b), Done(asleep), Raised(asleep), Done(gone), Raised(gone)}
  BY Zenon DEF VllmOffload, Outcomes
<1>4. HfOffload(b) \subseteq {Raised(b), Done(torn), Done(moved)}
  BY Zenon DEF HfOffload
<1> HIDE DEF asleep, gone, torn, moved
<1>5. \A o \in VllmOffload(b) : o.b \in {b, asleep, gone}
  BY <1>3, Projections, Zenon
<1>6. \A o \in HfOffload(b) : o.b \in {b, torn, moved}
  BY <1>4, Projections, Zenon
<1> QED BY <1>1, <1>2, <1>5, <1>6

\* A model that is loaded and does not get to its GPU stays where it was built.
LEMMA HfLoads ==
  ASSUME NEW b, Whole(b), NEW v, v # NoVersion, NEW o \in HfLoad(b, v)
  PROVE  /\ Whole(o.b) /\ o.b.active = b.active
         /\ o.ok => o.b.onGpu = TRUE /\ o.b.offloaded = FALSE /\ o.b.engine # NoVersion
         /\ ~o.ok => o.b = b \/ (o.b.engine # NoVersion /\ o.b.offloaded = b.offloaded)
<1> DEFINE built  == [b EXCEPT !.engine = v, !.onGpu = FALSE]
           moved  == [b EXCEPT !.engine = v, !.onGpu = TRUE, !.loaded = v, !.offloaded = FALSE]
<1>1. /\ Whole(built) /\ built.active = b.active
      /\ built.engine = v /\ built.offloaded = b.offloaded
  BY DEF Whole, Fields
<1>2. /\ Whole(moved) /\ moved.active = b.active
      /\ moved.engine = v /\ moved.onGpu = TRUE /\ moved.offloaded = FALSE
  BY DEF Whole, Fields
<1>3. o \in {Raised(b), Raised(built), Done(moved)}
  BY DEF HfLoad
<1> HIDE DEF built, moved
<1>4. \/ o.ok = FALSE /\ o.b = b
      \/ o.ok = FALSE /\ o.b = built
      \/ o.ok = TRUE /\ o.b = moved
  BY <1>3, Projections, Zenon
<1> QED BY <1>1, <1>2, <1>4

LEMMA HfWakes ==
  ASSUME NEW b, Whole(b), b.active # NoVersion, Emptied(b), NEW o \in HfWake(b)
  PROVE  /\ Whole(o.b) /\ o.b.active = b.active /\ Emptied(o.b)
         /\ Truthful(b) => Truthful(o.b)
         /\ o.ok => o.b.onGpu = TRUE
<1>0. \A u \in HfLoad(b, b.active) :
        /\ Whole(u.b) /\ u.b.active = b.active
        /\ u.ok => u.b.onGpu = TRUE /\ u.b.offloaded = FALSE /\ u.b.engine # NoVersion
        /\ ~u.ok => u.b = b \/ (u.b.engine # NoVersion /\ u.b.offloaded = b.offloaded)
  BY HfLoads
<1> DEFINE Awake(c) == {Done([c EXCEPT !.offloaded = FALSE])}
           awoken == [b EXCEPT !.onGpu = TRUE]
           up == IF b.engine = NoVersion THEN HfLoad(b, b.active) ELSE {Raised(b), Done(awoken)}
<1>1. HfWake(b) = Then(up, Awake)
  <2>1. CASE b.engine = NoVersion
    BY <2>1, ZenonT(30) DEF HfWake, Then
  <2>2. CASE b.engine # NoVersion
    BY <2>2 DEF HfWake, Then
  <2> QED BY <2>1, <2>2
<1>2. ASSUME NEW w \in up
      PROVE  /\ Whole(w.b) /\ w.b.active = b.active
             /\ w.ok => w.b.onGpu = TRUE /\ w.b.engine # NoVersion
             /\ ~w.ok => Emptied(w.b) /\ (Truthful(b) => Truthful(w.b))
  <2>1. CASE b.engine = NoVersion
    <3>1. w \in HfLoad(b, b.active)
      BY <1>2, <2>1
    <3> HIDE DEF up, awoken
    <3>2. /\ Whole(w.b) /\ w.b.active = b.active
          /\ w.ok => w.b.onGpu = TRUE /\ w.b.offloaded = FALSE /\ w.b.engine # NoVersion
          /\ ~w.ok => w.b = b \/ (w.b.engine # NoVersion /\ w.b.offloaded = b.offloaded)
      BY <1>0, <3>1
    <3>3. b.offloaded = TRUE
      BY <2>1 DEF Emptied
    <3> QED BY <3>2, <3>3 DEF Emptied, Truthful
  <2>2. CASE b.engine # NoVersion
    <3>1. w = Raised(b) \/ w = Done(awoken)
      BY <1>2, <2>2
    <3>2. /\ Whole(awoken) /\ awoken.active = b.active
          /\ awoken.onGpu = TRUE /\ awoken.engine = b.engine
      BY DEF Whole, Fields
    <3> HIDE DEF up, awoken
    <3>3. (w.ok = FALSE /\ w.b = b) \/ (w.ok = TRUE /\ w.b = awoken)
      BY <3>1, Projections, Zenon
    <3> QED BY <2>2, <3>2, <3>3
  <2> QED BY <2>1, <2>2
<1>3. PICK w \in up : o \in (IF w.ok THEN Awake(w.b) ELSE {w})
  <2> HIDE DEF up
  <2> QED BY <1>1 DEF Then
<1> HIDE DEF up
<1>4. CASE ~w.ok
  BY <1>2, <1>3, <1>4
<1>5. CASE w.ok
  <2> DEFINE c == w.b
             now == [c EXCEPT !.offloaded = FALSE]
  <2>1. /\ Whole(c) /\ c.active = b.active /\ c.onGpu = TRUE /\ c.engine # NoVersion
        /\ o = Done(now)
    BY <1>2, <1>3, <1>5
  <2> HIDE DEF c
  <2>2. Whole(now) /\ now.active = b.active /\ now.onGpu = TRUE /\ now.engine # NoVersion
    BY <2>1 DEF Whole, Fields
  <2> HIDE DEF now
  <2>3. o.b = now
    BY <2>1, Projections
  <2> QED BY <2>2, <2>3 DEF Emptied, Truthful
<1> QED BY <1>4, <1>5

LEMMA HfActivates ==
  ASSUME NEW b, Whole(b), Truthful(b), NEW v, v # NoVersion,
         b.active # NoVersion \/ b.engine = NoVersion,
         b.active # NoVersion => Emptied(b),
         NEW o \in HfActivate(b, v)
  PROVE  /\ Whole(o.b)
         /\ o.b.active = IF o.ok THEN v ELSE b.active
         /\ o.b.active # NoVersion => Emptied(o.b)
         /\ o.ok => Truthful(o.b)
<1> DEFINE Woken2(c)  == IF c.offloaded THEN HfWake(c) ELSE {Done(c)}
           Current(c) == {Done([c EXCEPT !.active = v])}
           loaded == IF b.engine = NoVersion \/ b.loaded # v THEN HfLoad(b, v) ELSE {Done(b)}
           woken  == Then(loaded, Woken2)
           Kept(c) == Whole(c) /\ c.active = b.active
           Left(w) == ~w.ok /\ Kept(w.b) /\ (b.active # NoVersion => Emptied(w.b))
<1>1. ASSUME NEW w \in loaded
      PROVE  \/ /\ w.ok /\ Kept(w.b) /\ Truthful(w.b) /\ w.b.engine # NoVersion
                /\ w.b.active # NoVersion \/ ~w.b.offloaded
             \/ Left(w)
  <2>1. CASE b.engine = NoVersion \/ b.loaded # v
    <3>1. w \in HfLoad(b, v)
      BY <1>1, <2>1
    <3> HIDE DEF loaded
    <3>2. /\ Whole(w.b) /\ w.b.active = b.active
          /\ w.ok => w.b.onGpu = TRUE /\ w.b.offloaded = FALSE /\ w.b.engine # NoVersion
          /\ ~w.ok => w.b = b \/ (w.b.engine # NoVersion /\ w.b.offloaded = b.offloaded)
      BY <3>1, HfLoads
    <3> QED BY <3>2 DEF Emptied, Truthful
  <2>2. CASE ~(b.engine = NoVersion \/ b.loaded # v)
    <3>1. w = Done(b)
      BY <1>1, <2>2
    <3>2. w.ok /\ w.b = b
      BY <3>1, Projections
    <3> HIDE DEF loaded
    <3> QED BY <2>2, <3>2
  <2> QED BY <2>1, <2>2
<1>2. ASSUME NEW w \in woken
      PROVE  \/ w.ok /\ Kept(w.b) /\ w.b.onGpu = TRUE /\ Emptied(w.b)
             \/ Left(w)
  <2>1. PICK u \in loaded : w \in (IF u.ok THEN Woken2(u.b) ELSE {u})
    <3> HIDE DEF loaded
    <3> QED BY <1>2 DEF Then
  <2> HIDE DEF loaded
  <2>2. CASE ~u.ok
    BY <1>1, <2>1, <2>2
  <2>3. CASE u.ok /\ u.b.offloaded
    <3>1. /\ Kept(u.b) /\ u.b.active # NoVersion /\ u.b.engine # NoVersion
          /\ w \in HfWake(u.b)
      BY <1>1, <2>1, <2>3
    <3>2. Emptied(u.b)
      BY <3>1 DEF Emptied
    <3>3. /\ Whole(w.b) /\ w.b.active = u.b.active /\ Emptied(w.b)
          /\ w.ok => w.b.onGpu = TRUE
      BY <3>1, <3>2, HfWakes
    <3> QED BY <3>1, <3>3
  <2>4. CASE u.ok /\ ~u.b.offloaded
    <3>1. Kept(u.b) /\ Truthful(u.b) /\ u.b.engine # NoVersion /\ w = Done(u.b)
      BY <1>1, <2>1, <2>4
    <3>2. w.ok /\ w.b = u.b
      BY <3>1, Projections
    <3> QED BY <2>4, <3>1, <3>2 DEF Truthful, Emptied
  <2> QED BY <2>2, <2>3, <2>4
<1>3. HfActivate(b, v) = Then(woken, Current)
  BY DEF HfActivate, Then
<1> HIDE DEF woken
<1>4. PICK w \in woken : o \in (IF w.ok THEN Current(w.b) ELSE {w})
  BY <1>3 DEF Then
<1>5. CASE ~w.ok
  BY <1>2, <1>4, <1>5
<1>6. CASE w.ok
  <2> DEFINE c   == w.b
             now == [c EXCEPT !.active = v]
  <2>1. Whole(c) /\ c.onGpu = TRUE /\ Emptied(c) /\ o = Done(now)
    BY <1>2, <1>4, <1>6
  <2> HIDE DEF c
  <2>2. /\ Whole(now) /\ now.onGpu = TRUE /\ now.active = v
        /\ now.engine = c.engine /\ now.offloaded = c.offloaded
    BY <2>1 DEF Whole, Fields
  <2> HIDE DEF now
  <2>3. o.ok /\ o.b = now
    BY <2>1, Projections
  <2> QED BY <2>1, <2>2, <2>3 DEF Truthful, Emptied
<1> QED BY <1>5, <1>6

\* A weight is written into an engine that is there, and only there.
LEMMA UpdateKeepsFlag ==
  ASSUME NEW b, Whole(b), NEW v, v # NoVersion,
         NEW o \in StartUpdate(b, v) \union UpdateWeights(b, v) \union FinishUpdate(b)
  PROVE  /\ Whole(o.b) /\ o.b.active = b.active /\ o.b.onGpu = b.onGpu
         /\ o.b.offloaded = b.offloaded
         /\ o.b.engine = NoVersion <=> b.engine = NoVersion
<1> DEFINE marked   == [b EXCEPT !.pending = v]
           written  == [b EXCEPT !.engine = v]
           spoiled  == [b EXCEPT !.engine = Torn]
           finished == [b EXCEPT !.synced = @ \union {b.pending}, !.pending = NoVersion]
           Same(c)  == /\ Whole(c) /\ c.active = b.active /\ c.onGpu = b.onGpu
                       /\ c.offloaded = b.offloaded
<1>1. \A c \in {b, marked, written, spoiled, finished} : Same(c)
  BY DEF Whole, Fields
<1>2. /\ marked.engine = b.engine /\ finished.engine = b.engine
      /\ written.engine # NoVersion /\ spoiled.engine # NoVersion
  BY Markers DEF Whole, Fields
<1>3. /\ o.b \in {b, marked, written, spoiled, finished}
      /\ o.b \in {written, spoiled} => b.engine # NoVersion \/ o.b = b
  <2> HIDE DEF marked, finished, written, spoiled
  <2>1. CASE o \in StartUpdate(b, v)
    <3>1. o \in {Raised(b), Done(marked)} /\ (b.engine = NoVersion => o = Raised(b))
      BY <2>1, Zenon DEF StartUpdate, RequireEngine, marked
    <3>2. (o.b = b \/ o.b = marked) /\ (b.engine = NoVersion => o.b = b)
      BY <3>1, Projections, Zenon
    <3> QED BY <3>2
  <2>2. CASE o \in UpdateWeights(b, v)
    <3>1. /\ o \in {Raised(b), Done(written), Raised(spoiled)}
          /\ b.engine = NoVersion => o = Raised(b)
      BY <2>2, Zenon DEF UpdateWeights, RequireEngine, written, spoiled
    <3>2. o.b \in {b, written, spoiled} /\ (b.engine = NoVersion => o.b = b)
      BY <3>1, Projections, Zenon
    <3> QED BY <3>2
  <2>3. CASE o \in FinishUpdate(b)
    <3>1. o \in {Raised(b), Done(finished)} /\ (b.engine = NoVersion => o = Raised(b))
      BY <2>3, Zenon DEF FinishUpdate, RequireEngine, finished
    <3>2. (o.b = b \/ o.b = finished) /\ (b.engine = NoVersion => o.b = b)
      BY <3>1, Projections, Zenon
    <3> QED BY <3>2
  <2> QED BY <2>1, <2>2, <2>3
<1> HIDE DEF marked, written, spoiled, finished, Same
<1>4. Same(o.b)
  BY <1>1, <1>3
<1>5. o.b.engine = NoVersion <=> b.engine = NoVersion
  BY <1>2, <1>3
<1> QED BY <1>4, <1>5 DEF Same

-----------------------------------------------------------------------------
(* The flag along the loop.  A model may fail to get to its GPU only when   *)
(* it is loaded to be activated after a window, and then the version of     *)
(* that window is the role's and the loop's is still the one before: no     *)
(* later window gets past its export, which finds the version registered.  *)

\* The phases between the export of a new version and its activation.
Past == {"starting", "sending", "finishing", "trained", "waking", "activating"}

Course ==
  /\ config \in Configs
  /\ version \in Nat /\ exported \in {version, version + 1} /\ exported \in registered
  /\ phase \in Past => exported = version + 1

\* A Hugging Face model was loaded for a version that did not get active.
Half == config.backend = "huggingface" /\ exported # version /\ role = exported /\ phase \notin Past

Flagged ==
  /\ Whole(backend)
  /\ phase = "bootstrap" =>
       backend.engine = NoVersion /\ backend.active = NoVersion /\ exported = version
  /\ phase \notin {"bootstrap", "raised"} => backend.active # NoVersion
  /\ backend.active # NoVersion =>
       /\ config.backend = "huggingface" => Emptied(backend)
       /\ Truthful(backend) \/ Half

FlagInv == Course /\ (config.backend # "mock" => Flagged)

LEMMA InitFlagInv == Init => FlagInv
BY Markers DEF Init, FlagInv, Course, Flagged, Past, Whole, Fields, Truthful

\* Activating leaves a truthful engine, or fails with the active version kept.
LEMMA EngineActivates ==
  ASSUME config.backend \in {"vllm", "huggingface"}, Whole(backend), Truthful(backend),
         backend.active # NoVersion \/ backend.engine = NoVersion,
         config.backend = "huggingface" /\ backend.active # NoVersion => Emptied(backend),
         NEW v, v # NoVersion, NEW o \in Activated(v)
  PROVE  /\ Whole(o.b)
         /\ o.b.active = IF o.ok THEN v ELSE backend.active
         /\ o.b.active # NoVersion /\ config.backend = "huggingface" => Emptied(o.b)
         /\ o.ok \/ config.backend = "vllm" \/ ~AcceptsLeases(Leases) => Truthful(o.b)
<1>1. CASE ~AcceptsLeases(Leases)
  <2>1. o = Raised(backend)
    BY <1>1 DEF Activated, WithLease
  <2>2. o.b = backend /\ ~o.ok
    BY <2>1, Projections
  <2> QED BY <2>2
<1>2. CASE AcceptsLeases(Leases) /\ config.backend = "vllm"
  <2>1. o \in VllmActivate(backend, v)
    BY <1>2 DEF Activated, WithLease
  <2>2. /\ Whole(o.b) /\ Truthful(o.b)
        /\ o.b.active = IF o.ok THEN v ELSE backend.active
    BY <2>1, VllmActivates
  <2> QED BY <1>2, <2>2
<1>3. CASE AcceptsLeases(Leases) /\ config.backend = "huggingface"
  <2>1. o \in HfActivate(backend, v) /\ (backend.active # NoVersion => Emptied(backend))
    BY <1>3 DEF Activated, WithLease
  <2>2. /\ Whole(o.b)
        /\ o.b.active = IF o.ok THEN v ELSE backend.active
        /\ o.b.active # NoVersion => Emptied(o.b)
        /\ o.ok => Truthful(o.b)
    BY <2>1, HfActivates
  <2> QED BY <1>3, <2>2
<1> QED BY <1>1, <1>2, <1>3

LEMMA EngineMoves ==
  ASSUME config.backend \in {"vllm", "huggingface"}, Whole(backend),
         backend.active # NoVersion,
         config.backend = "huggingface" => Emptied(backend),
         config.backend = "vllm" => Truthful(backend),
         NEW o \in Offloaded \union Woken
  PROVE  /\ Whole(o.b) /\ o.b.active = backend.active
         /\ config.backend = "huggingface" => Emptied(o.b)
         /\ Truthful(backend) => Truthful(o.b)
<1>1. CASE ~AcceptsLeases(Leases)
  <2>1. o = Raised(backend)
    BY <1>1 DEF Offloaded, Woken, WithLease
  <2>2. o.b = backend
    BY <2>1, Projections
  <2> QED BY <2>2
<1>2. CASE AcceptsLeases(Leases) /\ config.backend = "vllm"
  <2>1. o \in VllmOffload(backend) \/ o \in VllmWake(backend)
    BY <1>2 DEF Offloaded, Woken, WithLease
  <2>2. Truthful(backend) /\ config.backend # "huggingface"
    BY <1>2
  <2>3. CASE o \in VllmOffload(backend)
    BY <2>2, <2>3, EngineOffloads
  <2>4. CASE o \in VllmWake(backend)
    BY <2>2, <2>4, VllmWakes
  <2> QED BY <2>1, <2>3, <2>4
<1>3. CASE AcceptsLeases(Leases) /\ config.backend = "huggingface"
  <2>1. o \in HfOffload(backend) \/ o \in HfWake(backend)
    BY <1>3 DEF Offloaded, Woken, WithLease
  <2>2. Emptied(backend)
    BY <1>3
  <2>3. CASE o \in HfOffload(backend)
    BY <2>2, <2>3, EngineOffloads
  <2>4. CASE o \in HfWake(backend)
    BY <2>2, <2>4, HfWakes
  <2> QED BY <2>1, <2>3, <2>4
<1> QED BY <1>1, <1>2, <1>3

\* A step that leaves the engine as truthful as it was.
LEMMA FlagKept ==
  ASSUME FlagInv, Course', config' = config,
         phase # "bootstrap", phase' # "bootstrap", backend.active # NoVersion,
         config.backend # "mock" =>
           /\ Whole(backend') /\ backend'.active = backend.active
           /\ config.backend = "huggingface" => Emptied(backend')
           /\ Truthful(backend) => Truthful(backend'),
         Half => Half'
  PROVE  FlagInv'
<1> SUFFICES ASSUME config.backend # "mock" PROVE Flagged'
  BY DEF FlagInv
<1>1. Truthful(backend) \/ Half
  BY DEF FlagInv, Flagged
<1>2. Truthful(backend)' \/ Half'
  BY <1>1
<1>3. /\ Whole(backend)'
      /\ (backend.active # NoVersion)'
      /\ (config.backend = "huggingface" => Emptied(backend))'
  BY DEF FlagInv
<1> QED BY <1>2, <1>3 DEF Flagged

LEMMA ActivateFlag == ASSUME FlagInv, Activate \/ OthersRaise PROVE FlagInv'
<1>1. PICK o \in Activated(exported) :
        /\ backend' = o.b
        /\ phase' = "serving" => o.ok /\ version' = exported
        /\ phase' = "raised" /\ ~o.ok => version' = version
        /\ phase' \in {"serving", "raised"} /\ (phase' = "raised" => version' = version)
        /\ role' = IF AcceptsLeases(Leases) THEN exported ELSE role
  <2>1. CASE Activate
    BY <2>1 DEF Activate
  <2>2. CASE OthersRaise
    <3>1. PICK o \in Activated(exported) : o.ok /\ backend' = o.b
      BY <2>2 DEF OthersRaise
    <3>2. AcceptsLeases(Leases)
      <4> SUFFICES ASSUME ~AcceptsLeases(Leases) PROVE FALSE
        OBVIOUS
      <4>1. o = Raised(backend)
        BY <3>1 DEF Activated, WithLease
      <4>2. o.ok = FALSE
        BY <4>1, Projections
      <4> QED BY <3>1, <4>2
    <3> QED BY <2>2, <3>1, <3>2 DEF OthersRaise
  <2> QED BY <2>1, <2>2
<1>2. /\ phase \in {"bootstrap", "activating"}
      /\ UNCHANGED <<config, exported, registered>>
  BY DEF Activate, OthersRaise
<1>3. Course /\ exported \in Nat /\ exported # NoVersion
  BY Markers DEF FlagInv, Course
<1>4. Course'
  BY <1>1, <1>2, <1>3 DEF Course, Past
<1> SUFFICES ASSUME config.backend # "mock" PROVE Flagged'
  BY <1>2, <1>4 DEF FlagInv
<1>5. /\ config.backend \in {"vllm", "huggingface"} /\ Whole(backend)
      /\ backend.active # NoVersion \/ backend.engine = NoVersion
      /\ config.backend = "huggingface" /\ backend.active # NoVersion => Emptied(backend)
  BY <1>2 DEF FlagInv, Flagged, Course, Configs
<1>6. Truthful(backend)
  BY <1>2 DEF FlagInv, Flagged, Half, Past, Truthful
<1>7. /\ Whole(o.b)
      /\ o.b.active = IF o.ok THEN exported ELSE backend.active
      /\ o.b.active # NoVersion /\ config.backend = "huggingface" => Emptied(o.b)
      /\ o.ok \/ config.backend = "vllm" \/ ~AcceptsLeases(Leases) => Truthful(o.b)
  BY <1>3, <1>5, <1>6, EngineActivates
<1>8. backend'.active # NoVersion => Truthful(backend') \/ Half'
  <2> SUFFICES ASSUME backend'.active # NoVersion, ~Truthful(backend') PROVE Half'
    OBVIOUS
  <2>1. ~o.ok /\ config.backend = "huggingface" /\ AcceptsLeases(Leases)
    BY <1>1, <1>5, <1>7
  <2>2. backend.active # NoVersion
    BY <1>1, <1>7, <2>1
  <2>3. phase = "activating" /\ exported = version + 1
    BY <1>2, <1>3, <2>2 DEF FlagInv, Flagged, Course, Past
  <2> QED BY <1>1, <1>2, <1>3, <2>1, <2>3 DEF Half, Course, Past
<1>9. phase' # "bootstrap" /\ (phase' # "raised" => backend'.active # NoVersion)
  BY <1>1, <1>3, <1>7
<1> QED BY <1>1, <1>2, <1>7, <1>8, <1>9 DEF Flagged

\* Between serving and waking the flag follows the calls.
LEMMA MoveFlag ==
  ASSUME FlagInv, Offload \/ StartSync \/ SendWeights \/ FinishSync \/ Wake PROVE FlagInv'
<1>1. /\ UNCHANGED <<config, version, exported, registered, role>>
      /\ phase \in {"serving", "starting", "sending", "finishing", "waking", "wakingFailed"}
      /\ phase' \in Past => phase \in Past
      /\ phase' \notin {"bootstrap", "serving"}
  BY DEF Offload, StartSync, SendWeights, FinishSync, Wake, Past
<1>2. Course' /\ exported # NoVersion
  BY <1>1, Markers DEF FlagInv, Course, Past
<1>3. Half => Half'
  BY <1>1 DEF Half
<1>4. CASE config.backend = "mock"
  BY <1>1, <1>2, <1>4 DEF FlagInv
<1>5. CASE config.backend # "mock"
  <2>1. /\ config.backend \in {"vllm", "huggingface"} /\ Whole(backend)
        /\ backend.active # NoVersion
        /\ config.backend = "huggingface" => Emptied(backend)
        /\ config.backend = "vllm" => Truthful(backend)
    BY <1>1, <1>5 DEF FlagInv, Flagged, Course, Configs, Half
  <2>2. \/ backend' = backend
        \/ \E o \in Offloaded \union Woken : backend' = o.b
        \/ \E o \in StartUpdate(backend, exported) \union UpdateWeights(backend, exported)
                    \union FinishUpdate(backend) : backend' = o.b
    BY DEF Offload, Wake, StartSync, SendWeights, FinishSync, Done
  <2>3. /\ Whole(backend') /\ backend'.active = backend.active
        /\ config.backend = "huggingface" => Emptied(backend')
        /\ Truthful(backend) => Truthful(backend')
    <3>1. CASE backend' = backend
      BY <2>1, <3>1
    <3>2. CASE \E o \in Offloaded \union Woken : backend' = o.b
      BY <2>1, <3>2, EngineMoves
    <3>3. CASE \E o \in StartUpdate(backend, exported) \union UpdateWeights(backend, exported)
                        \union FinishUpdate(backend) : backend' = o.b
      <4>1. /\ Whole(backend') /\ backend'.active = backend.active
            /\ backend'.onGpu = backend.onGpu /\ backend'.offloaded = backend.offloaded
            /\ backend'.engine = NoVersion <=> backend.engine = NoVersion
        BY <1>2, <2>1, <3>3, UpdateKeepsFlag
      <4> QED BY <2>1, <4>1 DEF Emptied, Truthful
    <3> QED BY <2>2, <3>1, <3>2, <3>3
  <2> QED BY <1>1, <1>2, <1>3, <2>1, <2>3, FlagKept
<1> QED BY <1>4, <1>5

\* The steps that do not touch the engine.
LEMMA LoopFlag ==
  ASSUME FlagInv, Generate \/ GenerateRaises \/ GrantTrainer \/ Export
                  \/ WindowRaises \/ GrantRollout \/ RunAgain
  PROVE  FlagInv'
<1>1. /\ UNCHANGED <<config, version, role, backend>>
      /\ phase # "bootstrap" /\ phase' # "bootstrap"
  BY DEF Generate, GenerateRaises, GrantTrainer, Export, WindowRaises, GrantRollout, RunAgain
<1>2. CASE Export
  <2>1. /\ exported' = version + 1 /\ registered' = registered \union {exported'}
        /\ phase' \in Past => version + 1 \notin registered
    BY <1>2 DEF Export, Past
  <2>2. Course'
    BY <1>1, <1>2, <2>1 DEF FlagInv, Course, Export
  <2>3. Half => Half'
    <3> SUFFICES ASSUME Half PROVE Half'
      OBVIOUS
    <3>1. exported = version + 1 /\ exported \in registered
      BY DEF Half, FlagInv, Course
    <3>2. phase' \notin Past /\ exported' = exported
      BY <2>1, <3>1
    <3> QED BY <1>1, <3>2 DEF Half
  <2>4. phase = "training"
    BY <1>2 DEF Export
  <2> QED BY <1>1, <2>2, <2>3, <2>4 DEF FlagInv, Flagged
<1>3. CASE ~Export
  <2>1. /\ UNCHANGED <<exported, registered>>
        /\ phase' \in Past => phase \in Past
        /\ phase = "raised" /\ phase' # "raised" => backend.active # NoVersion
    BY <1>3 DEF Generate, GenerateRaises, GrantTrainer, WindowRaises, GrantRollout, RunAgain, Past
  <2>2. Course'
    BY <1>1, <2>1 DEF FlagInv, Course
  <2>3. Half => Half'
    BY <1>1, <2>1 DEF Half
  <2> QED BY <1>1, <2>1, <2>2, <2>3 DEF FlagInv, Flagged
<1> QED BY <1>2, <1>3

LEMMA NextFlagInv == ASSUME FlagInv, [Next]_vars PROVE FlagInv'
<1>1. CASE UNCHANGED vars
  BY <1>1 DEF vars, FlagInv, Course, Flagged, Half
<1>2. CASE Activate \/ OthersRaise
  BY <1>2, ActivateFlag
<1>3. CASE Offload \/ StartSync \/ SendWeights \/ FinishSync \/ Wake
  BY <1>3, MoveFlag
<1>4. CASE Generate \/ GenerateRaises \/ GrantTrainer \/ Export
           \/ WindowRaises \/ GrantRollout \/ RunAgain
  BY <1>4, LoopFlag
<1> QED BY <1>1, <1>2, <1>3, <1>4 DEF Next

\* generate() asks the flag _offloaded alone (vllm_backend.py:318,
\* huggingface_backend.py:203): an engine it calls awake is on its GPU
\* after any sequence of calls and failures, unless a model that was loaded
\* for a new version failed to get there.
THEOREM TheFlagIsTrue == Spec => []FlagTellsTheTruth
<1>1. Init => FlagInv
  BY InitFlagInv
<1>2. FlagInv /\ [Next]_vars => FlagInv'
  BY NextFlagInv
<1>3. FlagInv => FlagTellsTheTruth
  BY DEF FlagInv, Flagged, FlagTellsTheTruth, Truthful, Half, HalfTakenOver
<1> QED BY <1>1, <1>2, <1>3, PTL DEF Spec

-----------------------------------------------------------------------------
(* The lengths of the mock's responses. *)

LEMMA Larger ==
  ASSUME NEW m \in Int, NEW n \in Int PROVE Max({m, n}) = IF m >= n THEN m ELSE n
<1> DEFINE big == IF m >= n THEN m ELSE n
<1>1. big \in {m, n} /\ \A y \in {m, n} : big >= y
  OBVIOUS
<1>2. \A x \in {m, n} : (\A y \in {m, n} : x >= y) => x = big
  OBVIOUS
<1> HIDE DEF big
<1>3. Max({m, n}) = big
  BY <1>1, <1>2 DEF Max
<1> QED BY <1>3 DEF big

LEMMA Lesser ==
  ASSUME NEW m \in Int, NEW n \in Int PROVE Smaller(m, n) = IF m <= n THEN m ELSE n
<1> DEFINE small == IF m <= n THEN m ELSE n
<1>1. small \in {m, n} /\ \A y \in {m, n} : small <= y
  OBVIOUS
<1>2. \A x \in {m, n} : (\A y \in {m, n} : x <= y) => x = small
  OBVIOUS
<1> HIDE DEF small
<1>3. Min({m, n}) = small
  BY <1>1, <1>2 DEF Min
<1> QED BY <1>3 DEF small, Smaller

\* Whatever is drawn, the clamp puts it between its bounds.
LEMMA Clamped ==
  ASSUME NEW n \in Int, NEW minimum \in Int, NEW cap \in Int, minimum <= cap
  PROVE  Clamp(n, minimum, cap) \in minimum..cap
<1> DEFINE least == Smaller(cap, n)
<1>1. least \in Int /\ least <= cap
  BY Lesser
<1> HIDE DEF least
<1>2. Max({minimum, least}) \in minimum..cap
  BY <1>1, Larger
<1> QED BY <1>2 DEF Clamp, least

LEMMA Draws ==
  ASSUME NEW minimum \in Int, NEW cap \in Int
  PROVE  ChatMixture(minimum, cap) \subseteq Int
<1> DEFINE low1 == Max({minimum, MeanResponse \div 2})
           low2 == Max({minimum, MeanResponse})
           low3 == Max({minimum, cap \div 2})
           top0 == Max({minimum, Smaller(cap, MeanResponse)})
           top1 == Max({low1, Smaller(cap, MeanResponse * 2)})
           top2 == Max({low2, Smaller(cap, MeanResponse * 4)})
<1>1. /\ MeanResponse \in Int /\ MeanResponse \div 2 \in Int /\ cap \div 2 \in Int
      /\ MeanResponse * 2 \in Int /\ MeanResponse * 4 \in Int
  BY MockConfig
<1>2. ChatMixture(minimum, cap) = UNION {minimum..top0, low1..top1, low2..top2, low3..cap}
  BY DEF ChatMixture
<1> HIDE DEF low1, low2, low3, top0, top1, top2
<1> QED BY <1>2

\* A response has a token at least and keeps to the configured lengths, and
\* what is left of the sequence bounds it from one token on; where it is short,
\* it is as long as these bounds let it be.
LEMMA Lengths ==
  ASSUME config.lengths \in {"fixed", "uniform", "lognormal", "chat_mixture"},
         config.maxTokens \in Nat \ {0},
         NEW prompt \in Nat, NEW t \in ResponseTokens(prompt)
  PROVE  /\ t \in 1..MaxResponse /\ t <= config.maxTokens
         /\ prompt + t <= Max({MaxSequence, prompt + 1})
         /\ t < MinResponse => t = config.maxTokens \/ prompt + t >= MaxSequence
<1> DEFINE rest    == AtLeastOne(MaxSequence - prompt)
           allowed == MaxTokens(prompt)
           cap     == AtLeastOne(Smaller(allowed, MaxResponse))
           minimum == Smaller(MinResponse, cap)
           draws   == CASE config.lengths = "fixed"        -> {cap}
                        [] config.lengths = "uniform"      -> minimum..cap
                        [] config.lengths = "lognormal"    -> 0..(cap + 1)
                        [] config.lengths = "chat_mixture" -> ChatMixture(minimum, cap)
<1>0. /\ MinResponse \in Nat /\ MaxResponse \in Nat /\ MaxSequence \in Nat
      /\ 1 <= MinResponse /\ MinResponse <= MaxResponse
  BY MockConfig
<1>1. /\ rest \in Int /\ rest >= 1
      /\ MaxSequence - prompt >= 1 => rest = MaxSequence - prompt
      /\ MaxSequence - prompt < 1 => rest = 1
  BY <1>0, Larger DEF AtLeastOne
<1>2. /\ allowed \in Int /\ allowed >= 1
      /\ allowed = IF config.maxTokens <= rest THEN config.maxTokens ELSE rest
  <2> DEFINE max == config.maxTokens
  <2>1. allowed = Smaller(max, rest) /\ max \in Int /\ max >= 1
    BY DEF MaxTokens
  <2> HIDE DEF allowed, rest, max
  <2>2. /\ allowed \in Int /\ allowed >= 1
        /\ allowed = IF max <= rest THEN max ELSE rest
    BY <1>1, <2>1, Lesser
  <2> QED BY <2>2 DEF max
<1>3. /\ cap >= 1 /\ cap <= MaxResponse /\ cap <= allowed
      /\ cap = IF allowed <= MaxResponse THEN allowed ELSE MaxResponse
  <2> DEFINE least == Smaller(allowed, MaxResponse)
  <2> HIDE DEF allowed, rest
  <2>1. least \in Int /\ least = IF allowed <= MaxResponse THEN allowed ELSE MaxResponse
    BY <1>0, <1>2, Lesser
  <2> HIDE DEF least
  <2>2. least >= 1
    BY <1>0, <1>2, <2>1
  <2>3. cap = least
    BY <2>1, <2>2, Larger DEF AtLeastOne, least
  <2> HIDE DEF cap
  <2> QED BY <1>0, <1>2, <2>1, <2>2, <2>3
<1> HIDE DEF rest, allowed
<1>4. /\ cap \in Int /\ minimum \in Int
      /\ minimum = IF MinResponse <= cap THEN MinResponse ELSE cap
  <2> HIDE DEF cap
  <2>1. cap \in Int
    BY <1>0, <1>2, <1>3
  <2> QED BY <1>0, <2>1, Lesser
<1>5. ResponseTokens(prompt) = {Clamp(n, minimum, cap) : n \in draws}
  BY DEF ResponseTokens, allowed
<1> HIDE DEF cap, minimum
<1>6. draws \subseteq Int
  <2>1. ChatMixture(minimum, cap) \subseteq Int
    BY <1>4, Draws
  <2> QED BY <1>4, <2>1
<1> HIDE DEF draws
<1>7. PICK n \in draws : t = Clamp(n, minimum, cap)
  BY <1>5
<1>8. t \in minimum..cap
  <2>1. n \in Int /\ minimum \in Int /\ cap \in Int /\ minimum <= cap
    BY <1>4, <1>6, <1>7
  <2>2. \A k, lo, hi \in Int : lo <= hi => Clamp(k, lo, hi) \in lo..hi
    BY Clamped
  <2> QED BY <1>7, <2>1, <2>2
<1>9. Max({MaxSequence, prompt + 1}) = IF MaxSequence >= prompt + 1 THEN MaxSequence ELSE prompt + 1
  BY <1>0, Larger
<1> DEFINE max == config.maxTokens
<1>10. max \in Int /\ allowed = IF max <= rest THEN max ELSE rest
  BY <1>2
<1> HIDE DEF max
<1>11. /\ t \in Int /\ 1 <= t /\ t <= MaxResponse /\ t <= max /\ t <= rest
       /\ t < MinResponse => t = max \/ t = rest
  BY <1>0, <1>1, <1>2, <1>3, <1>4, <1>8, <1>10
<1>12. t \in 1..MaxResponse /\ prompt + t <= Max({MaxSequence, prompt + 1})
  BY <1>0, <1>1, <1>9, <1>11
<1>13. t < MinResponse => t = max \/ prompt + t >= MaxSequence
  BY <1>0, <1>1, <1>11
<1> QED BY <1>11, <1>12, <1>13 DEF max

SampleInv == config \in Configs /\ ResponseFits

LEMMA NextSampleInv == ASSUME SampleInv, [Next]_vars PROVE SampleInv'
<1>1. UNCHANGED config /\ (UNCHANGED sample \/ Generate)
  BY DEF Next, vars, Activate, OthersRaise, Generate, GenerateRaises, Offload, GrantTrainer,
         Export, StartSync, SendWeights, FinishSync, WindowRaises, GrantRollout, Wake, RunAgain
<1>2. CASE UNCHANGED sample
  BY <1>1, <1>2 DEF SampleInv, ResponseFits
<1>3. CASE Generate
  <2> SUFFICES ASSUME config.backend = "mock" PROVE ResponseFits'
    BY <1>1 DEF SampleInv, ResponseFits
  <2>0. PICK prompt \in PromptSizes :
          \E t \in ResponseTokens(prompt) :
            sample' = [version |-> version, weights |-> backend.engine, prompt |-> prompt, tokens |-> t]
    BY <1>3 DEF Generate
  <2>1. PICK t \in ResponseTokens(prompt) :
          sample' = [version |-> version, weights |-> backend.engine, prompt |-> prompt, tokens |-> t]
    BY <2>0
  <2>2. sample'.prompt = prompt /\ sample'.tokens = t
    BY <2>1
  <2>3. /\ prompt \in Nat /\ config.lengths \in {"fixed", "uniform", "lognormal", "chat_mixture"}
        /\ config.maxTokens \in Nat \ {0}
    <3>1. config.maxTokens \in Nat /\ config.maxTokens >= 1
      BY <1>3, MockConfig DEF SampleInv, Configs, Generate, MayGenerate
    <3> QED BY <3>1, MockConfig DEF SampleInv, Configs
  <2>4. /\ t \in 1..MaxResponse /\ t <= config.maxTokens
        /\ prompt + t <= Max({MaxSequence, prompt + 1})
        /\ t < MinResponse => t = config.maxTokens \/ prompt + t >= MaxSequence
    BY <2>3, Lengths
  <2> QED BY <1>1, <2>2, <2>4 DEF ResponseFits
<1> QED BY <1>1, <1>2, <1>3

\* For every configured length, every cap of the sampling parameters and every
\* prompt, and whatever is drawn, a mock response is within its bounds and fits
\* the sequence, and is shorter than min_response_tokens only where the cap or
\* the sequence ends it (mock_rollout_backend.py:256-288, 446-467).
THEOREM ResponsesFit == Spec => []ResponseFits
<1>1. Init => SampleInv
  BY DEF Init, SampleInv, ResponseFits
<1>2. SampleInv /\ [Next]_vars => SampleInv'
  BY NextSampleInv
<1>3. SampleInv => ResponseFits
  BY DEF SampleInv
<1> QED BY <1>1, <1>2, <1>3, PTL DEF Spec

-----------------------------------------------------------------------------
(* What the engine computes with.  Three things keep a sample from lying    *)
(* about its weights: a rebuilt engine is told its weight, a weight that    *)
(* was synced stays until it is activated, and a version that did not get   *)
(* active is never exported over.                                           *)

Excused == CheckpointOnly \/ LostAsleep

\* A window failed between its export and its activation; so will the next.
Lost == exported # version /\ phase \notin Past /\ (Native \/ role = exported)

\* Where a natively synced engine holds the new version already, or half of it.
Ahead == {"sending", "finishing", "trained", "waking", "activating"}

InWindow == Leaving \union {"failed", "waking", "wakingFailed"}

Teardown == config.strategy = "teardown"

\* The engine holds the active weight, and will when it wakes.
Right(b)  == b.engine = b.active /\ (b.offloaded /\ ~config.keeps => b.slept = b.active)
Gone(b)   == b.engine = NoVersion /\ b.offloaded = TRUE /\ Teardown
Spoilt(b) == b.engine = Torn /\ b.offloaded = TRUE /\ Teardown

VllmServed ==
  /\ ~Shared => ~backend.offloaded
  /\ \/ Native /\ phase \in Ahead
     \/ Right(backend)
     \/ Gone(backend)
     \/ Spoilt(backend) /\ phase \in {"raised", "serving"}
  /\ phase = "activating" => ~backend.offloaded /\ backend.engine # NoVersion
  /\ Teardown /\ Shared /\ phase \in InWindow => backend.engine = NoVersion
  /\ ~Native => backend.synced = {}
  /\ Native =>
       /\ Teardown /\ Shared => phase \notin Ahead /\ backend.active = 0
       /\ phase \in {"sending", "finishing"} => backend.pending = exported
       /\ phase \in Ahead \ {"sending"} => backend.engine = exported
       /\ phase \in {"trained", "waking", "activating"} => exported \in backend.synced

HfServed(b) == b.loaded = b.active /\ b.engine \in {NoVersion, b.active}

MockServed(b) == Whole(b) /\ b.engine = b.active

RolloutLeases == [i \in DOMAIN GpuIds |-> [gpu |-> GpuIds[i], role |-> "rollout", holder |-> HolderIds[i]]]

EngineServed ==
  /\ phase = "bootstrap" => version = 0 /\ backend.synced = {}
  /\ backend.active # NoVersion =>
       /\ AcceptsLeases(RolloutLeases)
       /\ config.backend = "huggingface" /\ ~Lost => HfServed(backend)
       /\ config.backend = "vllm" /\ ~Lost /\ ~Excused => VllmServed

Served ==
  /\ phase \in {"starting", "sending", "finishing"} => Native
  /\ config.backend = "mock" => MockServed(backend)
  /\ config.backend # "mock" => EngineServed

ServeInv == IInv /\ FlagInv /\ Served

\* The backend's fields that neither offload nor wake nor activation touch.
SameSync(b, c) == c.synced = b.synced /\ c.pending = b.pending

LEMMA VllmOffloadsRight ==
  ASSUME config \in Configs, NEW b, Whole(b), NEW o \in VllmOffload(b)
  PROVE  /\ SameSync(b, o.b)
         /\ Teardown => Gone(o.b)
         /\ ~Teardown /\ Right(b) /\ b.engine # NoVersion => Right(o.b)
<1> DEFINE asleep == [b EXCEPT !.onGpu = FALSE, !.slept = b.engine, !.offloaded = TRUE]
           gone   == [b EXCEPT !.onGpu = FALSE, !.engine = NoVersion, !.offloaded = TRUE]
<1>1. /\ SameSync(b, asleep) /\ asleep.engine = b.engine /\ asleep.slept = b.engine
      /\ asleep.active = b.active
  BY DEF Whole, Fields, SameSync
<1>2. SameSync(b, gone) /\ gone.engine = NoVersion /\ gone.offloaded = TRUE
  BY DEF Whole, Fields, SameSync
<1>3. /\ Teardown => o \in Outcomes(gone)
      /\ b.engine # NoVersion /\ ~Teardown => o \in {Raised(b), Done(asleep), Raised(asleep)}
      /\ b.engine = NoVersion => o = Done(gone)
  <2>1. Teardown <=> config.strategy # "sleep"
    BY DEF Configs, Teardown
  <2>2. o \in (IF b.engine = NoVersion THEN {Done(gone)}
               ELSE IF config.strategy = "sleep" THEN {Raised(b)} \union Outcomes(asleep)
                                                 ELSE Outcomes(gone))
    BY DEF VllmOffload
  <2>3. Done(gone) \in Outcomes(gone)
    BY DEF Outcomes
  <2>4. Outcomes(asleep) = {Done(asleep), Raised(asleep)}
    BY DEF Outcomes
  <2> HIDE DEF asleep, gone
  <2> QED BY <2>1, <2>2, <2>3, <2>4, Zenon
<1> HIDE DEF asleep, gone
<1>4. /\ Teardown \/ b.engine = NoVersion => o.b = gone
      /\ b.engine # NoVersion /\ ~Teardown => o.b = b \/ o.b = asleep
  BY <1>3, Projections, Zenon DEF Outcomes
<1> QED BY <1>1, <1>2, <1>4 DEF Gone, Right, SameSync

LEMMA VllmWakesRight ==
  ASSUME NEW b, Whole(b), b.active # NoVersion, NEW o \in VllmWake(b)
  PROVE  /\ SameSync(b, o.b) /\ o.b.active = b.active
         /\ o.ok => o.b.offloaded = FALSE
         /\ b.engine # NoVersion /\ Right(b) => Right(o.b)
         /\ b.engine # NoVersion /\ (config.keeps \/ ~b.offloaded) => o.b.engine = b.engine
         /\ Gone(b) /\ (config.loader \/ b.active = 0) =>
              IF o.ok THEN Right(o.b) ELSE Gone(o.b) \/ Spoilt(o.b)
<1> DEFINE Awake(c) == {Done([c EXCEPT !.offloaded = FALSE])}
           Kept(c)  == Whole(c) /\ SameSync(b, c) /\ c.active = b.active
<1>0. Kept(b)
  BY DEF SameSync
<1>1. \A c, u : u \in Awake(c) /\ Kept(c) =>
        /\ u.ok /\ Kept(u.b) /\ u.b.offloaded = FALSE /\ u.b.engine = c.engine
  <2> SUFFICES ASSUME NEW c, NEW u, u \in Awake(c), Kept(c)
               PROVE  u.ok /\ Kept(u.b) /\ u.b.offloaded = FALSE /\ u.b.engine = c.engine
    OBVIOUS
  <2> DEFINE now == [c EXCEPT !.offloaded = FALSE]
  <2>1. Kept(now) /\ now.offloaded = FALSE /\ now.engine = c.engine
    BY DEF Whole, Fields, SameSync
  <2>2. u = Done(now)
    OBVIOUS
  <2> HIDE DEF now, Kept
  <2>3. u.ok /\ u.b = now
    BY <2>2, Projections
  <2> QED BY <2>1, <2>3
<1>2. CASE b.engine = NoVersion
  <2> DEFINE Rebuilt(c) == NotifyEngine(c, c.active)
             told    == Then(Construct(b), Rebuilt)
             built   == [b EXCEPT !.engine = 0, !.onGpu = TRUE]
             engaged == [built EXCEPT !.engine = built.active]
             spoiled == [built EXCEPT !.engine = Torn]
  <2>1. Kept(built) /\ built.engine = 0 /\ built.offloaded = b.offloaded
    BY DEF Whole, Fields, SameSync
  <2>2. /\ Kept(engaged) /\ engaged.engine = b.active
        /\ Kept(spoiled) /\ spoiled.engine = Torn /\ spoiled.offloaded = b.offloaded
    <3> HIDE DEF built
    <3> QED BY <2>1 DEF Whole, Fields, SameSync
  <2>3. VllmWake(b) = Then(told, Awake)
    BY <1>2, ZenonT(30) DEF VllmWake, Then
  <2>4. PICK w \in told : o \in (IF w.ok THEN Awake(w.b) ELSE {w})
    <3> HIDE DEF told
    <3> QED BY <2>3 DEF Then
  <2>5. PICK x \in Construct(b) : w \in (IF x.ok THEN Rebuilt(x.b) ELSE {x})
    BY DEF Then
  <2>6. x = Raised(b) \/ x = Done(built)
    BY <2>5 DEF Construct
  <2>7. \/ ~w.ok /\ w.b = b
        \/ IF config.loader THEN (w.ok /\ w.b = engaged) \/ (~w.ok /\ w.b = spoiled)
                            ELSE w.ok /\ w.b = built
    <3>1. CASE x = Raised(b)
      <4>1. ~x.ok /\ x.b = b
        BY <3>1, Projections
      <4> QED BY <2>5, <4>1
    <3>2. CASE x = Done(built)
      <4>1. x.ok /\ x.b = built
        <5> HIDE DEF built
        <5> QED BY <3>2, Projections
      <4>2. w \in NotifyEngine(built, built.active)
        BY <2>5, <4>1
      <4>3. IF config.loader THEN w \in {Done(engaged), Raised(spoiled)} ELSE w = Done(built)
        BY <4>2, Zenon DEF NotifyEngine
      <4> HIDE DEF built, engaged, spoiled
      <4> QED BY <4>3, Projections, Zenon
    <3> QED BY <2>6, <3>1, <3>2
  <2> HIDE DEF told, built, engaged, spoiled
  <2>8. CASE ~w.ok
    <3>1. o = w
      BY <2>4, <2>8
    <3>2. w.b = b \/ w.b = spoiled
      BY <2>7, <2>8
    <3> QED BY <1>0, <1>2, <2>2, <2>8, <3>1, <3>2 DEF Gone, Spoilt
  <2>9. CASE w.ok
    <3>1. o \in Awake(w.b)
      BY <2>4, <2>9
    <3>2. Kept(w.b) /\ (config.loader \/ b.active = 0 => w.b.engine = b.active)
      BY <2>1, <2>2, <2>7, <2>9
    <3> HIDE DEF Kept, Awake
    <3>3. o.ok /\ Kept(o.b) /\ o.b.offloaded = FALSE /\ o.b.engine = w.b.engine
      BY <1>1, <3>1, <3>2
    <3> QED BY <1>2, <3>2, <3>3 DEF Kept, Right
  <2> QED BY <2>8, <2>9
<1>3. CASE b.engine # NoVersion
  <2> DEFINE woken  == IF b.offloaded THEN EngineWake(b) ELSE {Done(b)}
             awoken == [b EXCEPT !.onGpu = TRUE, !.engine = IF config.keeps THEN @ ELSE b.slept]
  <2>1. Kept(awoken) /\ awoken.engine = IF config.keeps THEN b.engine ELSE b.slept
    BY DEF Whole, Fields, SameSync
  <2>2. VllmWake(b) = Then(woken, Awake)
    BY <1>3 DEF VllmWake, Then
  <2>3. PICK w \in woken : o \in (IF w.ok THEN Awake(w.b) ELSE {w})
    <3> HIDE DEF woken
    <3> QED BY <2>2 DEF Then
  <2>4. \/ ~w.ok /\ w.b = b
        \/ w.ok /\ b.offloaded /\ w.b = awoken
        \/ w.ok /\ ~b.offloaded /\ w.b = b
    <3>1. \/ b.offloaded /\ w \in {Raised(b), Done(awoken)}
          \/ ~b.offloaded /\ w = Done(b)
      BY Zenon DEF EngineWake
    <3> HIDE DEF woken, awoken
    <3> QED BY <3>1, Projections, Zenon
  <2> HIDE DEF woken, awoken
  <2>5. CASE ~w.ok
    BY <1>0, <1>3, <2>3, <2>4, <2>5 DEF Gone
  <2>6. CASE w.ok
    <3>1. o \in Awake(w.b)
      BY <2>3, <2>6
    <3>2. /\ Kept(w.b)
          /\ Right(b) => w.b.engine = b.active
          /\ config.keeps \/ ~b.offloaded => w.b.engine = b.engine
      BY <1>0, <2>1, <2>4, <2>6 DEF Right
    <3> HIDE DEF Kept, Awake
    <3>3. o.ok /\ Kept(o.b) /\ o.b.offloaded = FALSE /\ o.b.engine = w.b.engine
      BY <1>1, <3>1, <3>2
    <3> QED BY <1>3, <3>2, <3>3 DEF Kept, Right, Gone
  <2> QED BY <2>5, <2>6
<1> QED BY <1>2, <1>3

\* Activating in an engine that is awake tells it the weight, or leaves what
\* the engine has: what was synced, or the base model of a new engine.
LEMMA VllmActivatesRight ==
  ASSUME NEW b, Whole(b), b.engine = NoVersion \/ ~b.offloaded, NEW v,
         NEW o \in VllmActivate(b, v), o.ok
  PROVE  /\ SameSync(b, o.b) /\ o.b.active = v /\ ~o.b.offloaded
         /\ o.b.engine = IF v \notin b.synced /\ config.loader THEN v
                         ELSE IF b.engine = NoVersion THEN 0 ELSE b.engine
<1> DEFINE Fresh(c)   == {Done([c EXCEPT !.offloaded = FALSE])}
           Woken2(c)  == IF c.offloaded THEN VllmWake(c) ELSE {Done(c)}
           Told(c)    == IF v \in c.synced THEN {Done(c)} ELSE NotifyEngine(c, v)
           Current(c) == {Done([c EXCEPT !.active = v])}
           built == IF b.engine = NoVersion THEN Then(Construct(b), Fresh) ELSE {Done(b)}
           woken == Then(built, Woken2)
           told  == Then(woken, Told)
           Kept(c) == Whole(c) /\ SameSync(b, c) /\ ~c.offloaded
           base    == IF b.engine = NoVersion THEN 0 ELSE b.engine
<1>1. VllmActivate(b, v) = Then(told, Current)
  BY DEF VllmActivate, Then
<1>2. PICK t \in told : o \in (IF t.ok THEN Current(t.b) ELSE {t})
  <2> HIDE DEF told
  <2> QED BY <1>1 DEF Then
<1>3. PICK w \in woken : t \in (IF w.ok THEN Told(w.b) ELSE {w})
  <2> HIDE DEF woken
  <2> QED BY DEF Then
<1>4. PICK u \in built : w \in (IF u.ok THEN Woken2(u.b) ELSE {u})
  <2> HIDE DEF built
  <2> QED BY DEF Then
<1> HIDE DEF told, woken
<1>5. u.ok => Kept(u.b) /\ u.b.engine = base
  <2>1. CASE b.engine = NoVersion
    <3> DEFINE new   == [b EXCEPT !.engine = 0, !.onGpu = TRUE]
               fresh == [new EXCEPT !.offloaded = FALSE]
    <3>1. Kept(fresh) /\ fresh.engine = 0
      BY DEF Whole, Fields, SameSync
    <3>2. built = Then(Construct(b), Fresh)
      BY <2>1
    <3> HIDE DEF built, Kept
    <3>3. PICK x \in Construct(b) : u \in (IF x.ok THEN Fresh(x.b) ELSE {x})
      BY <3>2 DEF Then
    <3>4. x = Raised(b) \/ x = Done(new)
      BY <3>3 DEF Construct
    <3> HIDE DEF new, fresh
    <3>5. (~x.ok /\ x.b = b) \/ (x.ok /\ x.b = new)
      BY <3>4, Projections, Zenon
    <3>6. u.ok => u = Done(fresh)
      BY <3>3, <3>5, Zenon DEF fresh
    <3>7. u.ok => u.b = fresh
      BY <3>6, Projections
    <3> QED BY <2>1, <3>1, <3>7
  <2>2. CASE b.engine # NoVersion
    <3>1. u = Done(b)
      BY <2>2
    <3>2. u.b = b
      BY <3>1, Projections
    <3> HIDE DEF built
    <3> QED BY <2>2, <3>2 DEF SameSync
  <2> QED BY <2>1, <2>2
<1> HIDE DEF built, Kept, base
<1>6. w.ok => Kept(w.b) /\ w.b.engine = base
  <2> SUFFICES ASSUME w.ok PROVE Kept(w.b) /\ w.b.engine = base
    OBVIOUS
  <2>1. u.ok
    BY <1>4
  <2>2. ~u.b.offloaded
    BY <1>5, <2>1 DEF Kept
  <2>3. w = Done(u.b)
    BY <1>4, <2>1, <2>2
  <2>4. w.b = u.b
    BY <2>3, Projections
  <2> QED BY <1>5, <2>1, <2>4
<1>7. t.ok => /\ Kept(t.b)
              /\ t.b.engine = IF v \notin b.synced /\ config.loader THEN v ELSE base
  <2> SUFFICES ASSUME t.ok PROVE Kept(t.b) /\ t.b.engine = IF v \notin b.synced /\ config.loader THEN v ELSE base
    OBVIOUS
  <2> DEFINE c       == w.b
             engaged == [c EXCEPT !.engine = v]
             spoiled == [c EXCEPT !.engine = Torn]
  <2>1. w.ok /\ Kept(c) /\ c.engine = base /\ t \in Told(c)
    BY <1>3, <1>6
  <2>2. c.synced = b.synced
    BY <2>1 DEF Kept, SameSync
  <2>3. IF v \notin c.synced /\ config.loader THEN t \in {Done(engaged), Raised(spoiled)} ELSE t = Done(c)
    BY <2>1, Zenon DEF NotifyEngine
  <2> HIDE DEF c
  <2>4. Kept(engaged) /\ engaged.engine = v
    BY <2>1 DEF Kept, Whole, Fields, SameSync
  <2> HIDE DEF engaged, spoiled
  <2>5. IF v \notin c.synced /\ config.loader THEN t.b = engaged ELSE t.b = c
    BY <2>3, Projections, Zenon
  <2> QED BY <2>1, <2>2, <2>4, <2>5
<1>8. t.ok
  BY <1>2
<1> DEFINE d   == t.b
           now == [d EXCEPT !.active = v]
<1>9. o = Done(now)
  BY <1>2, <1>8
<1>10. Kept(d) /\ d.engine = IF v \notin b.synced /\ config.loader THEN v ELSE base
  BY <1>7, <1>8
<1> HIDE DEF d
<1>11. Kept(now) /\ now.active = v /\ now.engine = d.engine
  BY <1>10 DEF Kept, Whole, Fields, SameSync
<1> HIDE DEF now
<1>12. o.b = now
  BY <1>9, Projections
<1> QED BY <1>10, <1>11, <1>12 DEF Kept, base

\* A native update prepares, writes and records one weight.
LEMMA UpdateSyncs ==
  ASSUME NEW b, Whole(b), NEW v
  PROVE  /\ \A o \in StartUpdate(b, v) : o.ok =>
              o.b.pending = v /\ b.engine # NoVersion
         /\ \A o \in UpdateWeights(b, v) : o.ok =>
              o.b.pending = b.pending /\ o.b.engine = v
         /\ \A o \in FinishUpdate(b) : o.ok =>
              o.b.engine = b.engine /\ o.b.synced = b.synced \union {b.pending}
<1> DEFINE marked   == [b EXCEPT !.pending = v]
           written  == [b EXCEPT !.engine = v]
           spoiled  == [b EXCEPT !.engine = Torn]
           finished == [b EXCEPT !.synced = @ \union {b.pending}, !.pending = NoVersion]
<1>1. /\ marked.pending = v
      /\ written.pending = b.pending /\ written.engine = v
      /\ finished.engine = b.engine /\ finished.synced = b.synced \union {b.pending}
  BY DEF Whole, Fields
<1>2. ASSUME NEW o \in StartUpdate(b, v), o.ok PROVE o.b = marked /\ b.engine # NoVersion
  <2>1. IF b.engine # NoVersion THEN o \in {Raised(b), Done(marked)} ELSE o = Raised(b)
    BY <1>2, Zenon DEF StartUpdate, RequireEngine
  <2> HIDE DEF marked
  <2> QED BY <1>2, <2>1, Projections, Zenon
<1>3. ASSUME NEW o \in UpdateWeights(b, v), o.ok PROVE o.b = written
  <2>1. o \in {Raised(spoiled), Done(written), Raised(b)}
    BY <1>3, Zenon DEF UpdateWeights, RequireEngine
  <2> HIDE DEF written, spoiled
  <2> QED BY <1>3, <2>1, Projections, Zenon
<1>4. ASSUME NEW o \in FinishUpdate(b), o.ok PROVE o.b = finished
  <2>1. o \in {Raised(b), Done(finished)}
    BY <1>4, Zenon DEF FinishUpdate, RequireEngine
  <2> HIDE DEF finished
  <2> QED BY <1>4, <2>1, Projections, Zenon
<1> HIDE DEF marked, written, finished
<1> QED BY <1>1, <1>2, <1>3, <1>4

\* The Hugging Face model is the one that was loaded last, or none.
LEMMA HfKeepsModel ==
  ASSUME NEW b, Whole(b), HfServed(b)
  PROVE  /\ \A o \in HfOffload(b) : HfServed(o.b)
         /\ b.active # NoVersion => \A o \in HfWake(b) : HfServed(o.b)
<1> DEFINE Awake(c) == {Done([c EXCEPT !.offloaded = FALSE])}
           torn     == [b EXCEPT !.engine = NoVersion, !.onGpu = FALSE, !.offloaded = TRUE]
           moved    == [b EXCEPT !.onGpu = FALSE, !.offloaded = TRUE]
           awoken   == [b EXCEPT !.onGpu = TRUE]
           built    == [b EXCEPT !.engine = b.active, !.onGpu = FALSE]
           loaded   == [b EXCEPT !.engine = b.active, !.onGpu = TRUE, !.loaded = b.active, !.offloaded = FALSE]
           Kept(c)  == Whole(c) /\ HfServed(c)
<1>1. /\ Kept(torn) /\ Kept(moved) /\ Kept(awoken) /\ Kept(built) /\ Kept(loaded)
  BY DEF Whole, Fields, HfServed
<1>2. ASSUME NEW o \in HfOffload(b) PROVE HfServed(o.b)
  <2>1. o \in {Raised(b), Done(torn), Done(moved)}
    BY <1>2, Zenon DEF HfOffload
  <2> HIDE DEF torn, moved
  <2>2. o.b \in {b, torn, moved}
    BY <2>1, Projections, Zenon
  <2> HIDE DEF awoken, built, loaded
  <2> QED BY <1>1, <2>2
<1>3. ASSUME b.active # NoVersion, NEW o \in HfWake(b) PROVE HfServed(o.b)
  <2> DEFINE up == IF b.engine = NoVersion THEN HfLoad(b, b.active) ELSE {Raised(b), Done(awoken)}
  <2>1. HfWake(b) = Then(up, Awake)
    <3>1. CASE b.engine = NoVersion
      BY <1>3, <3>1, ZenonT(30) DEF HfWake, Then
    <3>2. CASE b.engine # NoVersion
      BY <1>3, <3>2 DEF HfWake, Then
    <3> QED BY <3>1, <3>2
  <2>2. PICK w \in up : o \in (IF w.ok THEN Awake(w.b) ELSE {w})
    <3> HIDE DEF up
    <3> QED BY <1>3, <2>1 DEF Then
  <2>3. w.b \in {b, awoken, built, loaded}
    <3>1. w \in {Raised(b), Raised(built), Done(loaded), Done(awoken)}
      BY <2>2, Zenon DEF HfLoad
    <3> HIDE DEF built, loaded, awoken, up
    <3> QED BY <3>1, Projections, Zenon
  <2>4. Kept(w.b)
    <3> HIDE DEF built, loaded, awoken, torn, moved, up, Kept
    <3>1. Kept(b)
      BY DEF Kept
    <3> QED BY <1>1, <2>3, <3>1
  <2> HIDE DEF up
  <2>5. CASE ~w.ok
    BY <2>2, <2>4, <2>5
  <2>6. CASE w.ok
    <3> DEFINE c   == w.b
               now == [c EXCEPT !.offloaded = FALSE]
    <3>1. o = Done(now) /\ Kept(c)
      BY <2>2, <2>4, <2>6
    <3> HIDE DEF c
    <3>2. HfServed(now)
      BY <3>1 DEF Whole, Fields, HfServed
    <3> HIDE DEF now
    <3>3. o.b = now
      BY <3>1, Projections
    <3> QED BY <3>2, <3>3
  <2> QED BY <2>5, <2>6
<1> QED BY <1>2, <1>3

\* An activation that returned has loaded the model it activated.
LEMMA HfActivatesModel ==
  ASSUME NEW b, Whole(b), b.engine = NoVersion \/ (b.active # NoVersion /\ HfServed(b)),
         NEW v, v # NoVersion, NEW o \in HfActivate(b, v), o.ok
  PROVE  HfServed(o.b)
<1> DEFINE Woken2(c)  == IF c.offloaded THEN HfWake(c) ELSE {Done(c)}
           Current(c) == {Done([c EXCEPT !.active = v])}
           loaded == IF b.engine = NoVersion \/ b.loaded # v THEN HfLoad(b, v) ELSE {Done(b)}
           woken  == Then(loaded, Woken2)
           Has(c) == Whole(c) /\ c.engine = v /\ c.loaded = v
<1>1. HfActivate(b, v) = Then(woken, Current)
  BY DEF HfActivate, Then
<1>2. PICK w \in woken : o \in (IF w.ok THEN Current(w.b) ELSE {w})
  <2> HIDE DEF woken
  <2> QED BY <1>1 DEF Then
<1>3. PICK u \in loaded : w \in (IF u.ok THEN Woken2(u.b) ELSE {u})
  <2> HIDE DEF loaded
  <2> QED BY DEF Then
<1> HIDE DEF woken
<1>4. u.ok => Has(u.b)
  <2>1. CASE b.engine = NoVersion \/ b.loaded # v
    <3> DEFINE built  == [b EXCEPT !.engine = v, !.onGpu = FALSE]
               moved  == [b EXCEPT !.engine = v, !.onGpu = TRUE, !.loaded = v, !.offloaded = FALSE]
    <3>1. Has(moved)
      BY DEF Whole, Fields
    <3>2. u \in {Raised(b), Raised(built), Done(moved)}
      BY <2>1, Zenon DEF HfLoad
    <3> HIDE DEF built, moved, loaded, Has
    <3>3. u.ok => u.b = moved
      BY <3>2, Projections, Zenon
    <3> QED BY <3>1, <3>3
  <2>2. CASE ~(b.engine = NoVersion \/ b.loaded # v)
    <3>1. u = Done(b)
      BY <2>2
    <3>2. u.b = b
      BY <3>1, Projections
    <3> HIDE DEF loaded
    <3> QED BY <2>2, <3>2 DEF HfServed
  <2> QED BY <2>1, <2>2
<1> HIDE DEF loaded
<1>5. w.ok => Has(w.b)
  <2> SUFFICES ASSUME w.ok PROVE Has(w.b)
    OBVIOUS
  <2>1. u.ok /\ Has(u.b) /\ w \in Woken2(u.b)
    BY <1>3, <1>4
  <2> DEFINE c        == u.b
             Awake(x) == {Done([x EXCEPT !.offloaded = FALSE])}
             awoken   == [c EXCEPT !.onGpu = TRUE]
             up       == IF c.active = NoVersion THEN {Done(c)} ELSE {Raised(c), Done(awoken)}
  <2>2. CASE ~c.offloaded
    <3>1. w = Done(c)
      BY <2>1, <2>2
    <3>2. w.b = c
      BY <3>1, Projections
    <3> QED BY <2>1, <3>2
  <2>3. CASE c.offloaded
    <3>1. w \in HfWake(c) /\ Has(c)
      BY <2>1, <2>3
    <3> HIDE DEF c
    <3>2. c.engine # NoVersion
      BY <3>1
    <3>3. HfWake(c) = Then(up, Awake)
      <4>1. CASE c.active = NoVersion
        <5>1. HfWake(c) = Awake(c)
          BY <4>1, ZenonT(30) DEF HfWake, Then
        <5>2. Done(c).ok /\ Done(c).b = c
          BY Projections
        <5>3. Then({Done(c)}, Awake) = Awake(c)
          <6> DEFINE done == Done(c)
          <6>1. done.ok /\ done.b = c
            BY <5>2
          <6> HIDE DEF done
          <6> QED BY <6>1 DEF Then, done
        <5> QED BY <4>1, <5>1, <5>3
      <4>2. CASE c.active # NoVersion
        BY <3>2, <4>2 DEF HfWake, Then
      <4> QED BY <4>1, <4>2
    <3>4. PICK x \in up : w \in (IF x.ok THEN Awake(x.b) ELSE {x})
      <4> HIDE DEF up
      <4> QED BY <3>1, <3>3 DEF Then
    <3>5. Has(awoken)
      BY <3>1 DEF Whole, Fields
    <3>6. x.ok /\ Has(x.b)
      <4>1. x.ok
        <5> HIDE DEF up
        <5> QED BY <3>4
      <4>2. x \in {Done(c), Raised(c), Done(awoken)}
        BY <3>4, Zenon
      <4> HIDE DEF awoken, up, Has
      <4>3. x.b = c \/ x.b = awoken
        BY <4>2, Projections, Zenon
      <4> QED BY <3>1, <3>5, <4>1, <4>3
    <3> DEFINE d   == x.b
               now == [d EXCEPT !.offloaded = FALSE]
    <3>7. w = Done(now) /\ Has(d)
      BY <3>4, <3>6
    <3> HIDE DEF d
    <3>8. Has(now)
      BY <3>7 DEF Whole, Fields
    <3> HIDE DEF now
    <3>9. w.b = now
      BY <3>7, Projections
    <3> QED BY <3>8, <3>9
  <2> QED BY <2>2, <2>3
<1> DEFINE d   == w.b
           now == [d EXCEPT !.active = v]
<1>6. o = Done(now) /\ Has(d)
  BY <1>2, <1>5
<1> HIDE DEF d
<1>7. HfServed(now)
  BY <1>6 DEF Whole, Fields, HfServed
<1> HIDE DEF now
<1>8. o.b = now
  BY <1>6, Projections
<1> QED BY <1>7, <1>8

LEMMA MockCalls ==
  ASSUME config.backend = "mock", MockServed(backend), NEW v
  PROVE  /\ \A o \in Activated(v) : MockServed(o.b)
         /\ \A o \in Offloaded \union Woken : MockServed(o.b)
<1> DEFINE activated == [backend EXCEPT !.engine = v, !.active = v, !.offloaded = FALSE]
           put       == [backend EXCEPT !.offloaded = TRUE]
           up        == [backend EXCEPT !.offloaded = FALSE]
<1>1. MockServed(activated) /\ MockServed(put) /\ MockServed(up)
  BY DEF MockServed, Whole, Fields
<1>2. Activated(v) \subseteq {Raised(backend), Done(activated)}
  BY DEF Activated, WithLease, MockActivate
<1>3. Offloaded \union Woken \subseteq {Raised(backend), Done(put), Done(up)}
  BY DEF Offloaded, Woken, WithLease, MockOffload, MockWake
<1> HIDE DEF activated, put, up
<1>4. \A o \in Activated(v) : o.b = backend \/ o.b = activated
  BY <1>2, Projections, Zenon
<1>5. \A o \in Offloaded \union Woken : o.b \in {backend, put, up}
  BY <1>3, Projections, Zenon
<1> QED BY <1>1, <1>4, <1>5

-----------------------------------------------------------------------------
(* The loop: a version that is lost stays lost, because the next window     *)
(* finds it in the registry; otherwise each step keeps what the engine has. *)

LEMMA LostStays ==
  ASSUME FlagInv, config.backend # "mock", Next, Lost
  PROVE  Lost'
<1>1. /\ version \in Nat /\ exported = version + 1 /\ exported \in registered
      /\ phase \notin Past /\ phase # "bootstrap" /\ (Native \/ role = exported)
  BY DEF FlagInv, Course, Flagged, Lost
<1>2. Native' = Native
  <2>1. config' = config
    BY DEF Next, Activate, OthersRaise, Generate, GenerateRaises, Offload, GrantTrainer, Export,
           StartSync, SendWeights, FinishSync, WindowRaises, GrantRollout, Wake, RunAgain
  <2> QED BY <2>1 DEF Native
<1>3. /\ version' = version /\ role' = role /\ exported' = exported
      /\ phase' \notin Past
  <2>1. ~Activate /\ ~OthersRaise /\ ~StartSync /\ ~SendWeights /\ ~FinishSync
    BY <1>1 DEF Past, Activate, OthersRaise, StartSync, SendWeights, FinishSync
  <2>2. CASE Generate \/ GenerateRaises \/ GrantTrainer \/ WindowRaises \/ RunAgain
    BY <1>1, <2>2 DEF Past, Generate, GenerateRaises, GrantTrainer, WindowRaises, RunAgain
  <2>3. CASE Offload
    BY <1>1, <2>3 DEF Past, Offload
  <2>4. CASE Export
    BY <1>1, <2>4 DEF Past, Export
  <2>5. CASE GrantRollout \/ Wake
    BY <1>1, <2>5 DEF Past, GrantRollout, Wake
  <2> QED BY <2>1, <2>2, <2>3, <2>4, <2>5 DEF Next
<1> QED BY <1>1, <1>2, <1>3 DEF Lost

\* Outside of the bootstrap a step has to keep the backend's own part.
LEMMA ServedKept ==
  ASSUME ServeInv, config.backend # "mock", Next, config' = config,
         phase # "bootstrap", phase' # "bootstrap",
         backend.active # NoVersion,
         config.backend = "huggingface" /\ ~Lost' /\ HfServed(backend) => HfServed(backend'),
         config.backend = "vllm" /\ ~Lost' /\ ~Excused /\ VllmServed => VllmServed'
  PROVE  EngineServed'
<1>1. EngineServed
  BY DEF ServeInv, Served
<1>2. ~Lost' => ~Lost
  BY LostStays DEF ServeInv
<1>3. /\ Native' = Native /\ Excused' = Excused
      /\ RolloutLeases' = RolloutLeases
  BY DEF Native, Excused, CheckpointOnly, LostAsleep, Shared, RolloutLeases
<1>4. AcceptsLeases(RolloutLeases)'
  BY <1>1, <1>3 DEF EngineServed, AcceptsLeases
<1>5. /\ (config.backend = "huggingface" /\ ~Lost)' => HfServed(backend)'
      /\ (config.backend = "vllm" /\ ~Lost /\ ~Excused)' => VllmServed'
  BY <1>1, <1>2, <1>3 DEF EngineServed
<1> QED BY <1>4, <1>5 DEF EngineServed

LEMMA SameBackend ==
  ASSUME UNCHANGED <<config, backend>>
  PROVE  /\ Native' = Native /\ Shared' = Shared /\ Teardown' = Teardown
         /\ Right(backend)' = Right(backend) /\ Gone(backend)' = Gone(backend)
         /\ Spoilt(backend)' = Spoilt(backend)
BY DEF Native, Shared, Teardown, Right, Gone, Spoilt

\* The steps of the loop that call nothing on the replica.
LEMMA LoopServed ==
  ASSUME ServeInv, config.backend # "mock",
         Generate \/ GenerateRaises \/ GrantTrainer \/ Export \/ WindowRaises
           \/ GrantRollout \/ RunAgain
  PROVE  EngineServed'
<1>1. /\ UNCHANGED <<config, backend>>
      /\ phase # "bootstrap" /\ phase' # "bootstrap"
      /\ backend.active # NoVersion
  BY DEF ServeInv, FlagInv, Flagged, Generate, GenerateRaises, GrantTrainer, Export,
         WindowRaises, GrantRollout, RunAgain
<1>2. Next
  BY Zenon DEF Next
<1>3. /\ EngineServed /\ Course /\ (phase \in {"starting", "sending", "finishing"} => Native)
  BY DEF ServeInv, Served, FlagInv
<1>4. /\ Native' = Native /\ Shared' = Shared /\ Teardown' = Teardown
      /\ Right(backend)' = Right(backend) /\ Gone(backend)' = Gone(backend)
      /\ Spoilt(backend)' = Spoilt(backend)
  BY <1>1, SameBackend
<1>5. ASSUME VllmServed, ~Lost', config.backend = "vllm" PROVE VllmServed'
  <2>1. CASE Generate \/ GenerateRaises \/ RunAgain
    <3>1. /\ phase \in {"raised", "serving"} /\ phase' \in {"raised", "serving"}
      BY <2>1 DEF Generate, GenerateRaises, RunAgain
    <3> QED BY <1>1, <1>4, <1>5, <3>1 DEF VllmServed, Ahead, InWindow, Leaving
  <2>2. CASE GrantTrainer
    <3>1. phase = "granting" /\ phase' = "training"
      BY <2>2 DEF GrantTrainer
    <3> QED BY <1>1, <1>4, <1>5, <3>1 DEF VllmServed, Ahead, InWindow, Leaving
  <2>3. CASE Export
    <3>1. /\ phase = "training" /\ phase' \in {"failed", "starting", "trained"}
          /\ phase' = "trained" => ~Native
      BY <2>3, Zenon DEF Export
    <3> QED BY <1>1, <1>4, <1>5, <3>1 DEF VllmServed, Ahead, InWindow, Leaving
  <2>4. CASE WindowRaises
    <3>1. phase \in Leaving /\ phase' = "failed" /\ exported' = exported /\ version' = version
      BY <2>4 DEF WindowRaises, Leaving
    <3>2. Native => phase \notin Ahead
      <4> SUFFICES ASSUME Native, phase \in Ahead PROVE FALSE
        OBVIOUS
      <4>1. exported # version
        BY <1>3 DEF Course, Ahead, Past
      <4>2. Lost'
        BY <1>4, <3>1, <4>1 DEF Lost, Past
      <4> QED BY <1>5, <4>2
    <3> QED BY <1>1, <1>4, <1>5, <3>1, <3>2 DEF VllmServed, Ahead, InWindow, Leaving
  <2>5. CASE GrantRollout
    <3>1. /\ phase \in {"trained", "failed"} /\ exported' = exported
          /\ phase' = IF phase = "trained" THEN "waking" ELSE "wakingFailed"
      BY <2>5 DEF GrantRollout
    <3> QED BY <1>1, <1>4, <1>5, <3>1 DEF VllmServed, Ahead, InWindow, Leaving
  <2> QED BY <2>1, <2>2, <2>3, <2>4, <2>5
<1>6. HfServed(backend) => HfServed(backend')
  BY <1>1
<1> QED BY <1>1, <1>2, <1>5, <1>6, ServedKept

\* The native update: what does not return is lost.
LEMMA SyncServed ==
  ASSUME ServeInv, config.backend # "mock", StartSync \/ SendWeights \/ FinishSync
  PROVE  EngineServed'
<1>1. /\ config' = config /\ exported' = exported /\ version' = version
      /\ phase \in {"starting", "sending", "finishing"} /\ phase' # "bootstrap"
      /\ backend.active # NoVersion /\ Whole(backend)
  BY DEF ServeInv, FlagInv, Flagged, StartSync, SendWeights, FinishSync
<1>2. Next
  BY Zenon DEF Next
<1>3. EngineServed /\ Course /\ Native /\ config.backend = "vllm"
  BY <1>1 DEF ServeInv, Served, FlagInv, Native
<1>4. exported # version /\ exported \in Nat /\ exported # NoVersion
  BY <1>1, <1>3, Markers DEF Course, Past
<1>5. /\ Native' = Native /\ Shared' = Shared /\ Teardown' = Teardown
  BY <1>1 DEF Native, Shared, Teardown
<1>6. phase' = "failed" => Lost'
  BY <1>1, <1>3, <1>4, <1>5 DEF Lost, Past
<1>7. \A o \in StartUpdate(backend, exported) \union UpdateWeights(backend, exported) \union FinishUpdate(backend) :
        /\ o.b.active = backend.active /\ o.b.offloaded = backend.offloaded
        /\ o.b.engine = NoVersion <=> backend.engine = NoVersion
  BY <1>1, <1>4, UpdateKeepsFlag
<1>8. /\ \A o \in StartUpdate(backend, exported) : o.ok =>
           o.b.pending = exported /\ backend.engine # NoVersion
      /\ \A o \in UpdateWeights(backend, exported) : o.ok =>
           o.b.pending = backend.pending /\ o.b.engine = exported
      /\ \A o \in FinishUpdate(backend) : o.ok =>
           o.b.engine = backend.engine /\ o.b.synced = backend.synced \union {backend.pending}
  BY <1>1, UpdateSyncs
<1>9. ASSUME VllmServed, ~Lost' PROVE VllmServed'
  <2>1. CASE StartSync
    <3>1. PICK o \in StartUpdate(backend, exported) :
            backend' = o.b /\ phase' = IF o.ok THEN "sending" ELSE "failed"
      BY <2>1 DEF StartSync
    <3>2. o.ok /\ phase = "starting" /\ phase' = "sending"
      BY <1>6, <1>9, <2>1, <3>1 DEF StartSync
    <3>3. /\ backend'.active = backend.active /\ backend'.offloaded = backend.offloaded
          /\ backend'.pending = exported /\ backend.engine # NoVersion
      BY <1>7, <1>8, <3>1, <3>2
    <3>4. ~(Teardown /\ Shared) /\ (~Shared => ~backend.offloaded)
      BY <1>9, <3>2, <3>3 DEF VllmServed, InWindow, Leaving
    <3> QED BY <1>1, <1>3, <1>5, <3>2, <3>3, <3>4 DEF VllmServed, Ahead, InWindow, Leaving
  <2>2. CASE SendWeights
    <3>1. PICK o \in UpdateWeights(backend, exported) :
            backend' = o.b /\ phase' = IF o.ok THEN "finishing" ELSE "failed"
      BY <2>2 DEF SendWeights
    <3>2. o.ok /\ phase = "sending" /\ phase' = "finishing"
      BY <1>6, <1>9, <2>2, <3>1 DEF SendWeights
    <3>3. /\ backend'.active = backend.active /\ backend'.offloaded = backend.offloaded
          /\ backend'.pending = backend.pending /\ backend'.engine = exported
      BY <1>7, <1>8, <3>1, <3>2
    <3>4. /\ ~(Teardown /\ Shared) /\ (~Shared => ~backend.offloaded)
          /\ backend.pending = exported
      BY <1>3, <1>9, <3>2 DEF VllmServed, Ahead
    <3> QED BY <1>1, <1>3, <1>5, <3>2, <3>3, <3>4 DEF VllmServed, Ahead, InWindow, Leaving
  <2>3. CASE FinishSync
    <3>1. PICK o \in FinishUpdate(backend) :
            backend' = o.b /\ phase' = IF o.ok THEN "trained" ELSE "failed"
      BY <2>3 DEF FinishSync
    <3>2. o.ok /\ phase = "finishing" /\ phase' = "trained"
      BY <1>6, <1>9, <2>3, <3>1 DEF FinishSync
    <3>3. /\ backend'.active = backend.active /\ backend'.offloaded = backend.offloaded
          /\ backend'.engine = backend.engine /\ backend.pending \in backend'.synced
      BY <1>7, <1>8, <3>1, <3>2
    <3>4. /\ ~(Teardown /\ Shared) /\ (~Shared => ~backend.offloaded)
          /\ backend.pending = exported /\ backend.engine = exported
      BY <1>3, <1>9, <3>2 DEF VllmServed, Ahead
    <3> QED BY <1>1, <1>3, <1>5, <3>2, <3>3, <3>4 DEF VllmServed, Ahead, InWindow, Leaving
  <2> QED BY <2>1, <2>2, <2>3
<1>10. phase # "bootstrap" /\ config.backend # "huggingface"
  BY <1>1, <1>3
<1> QED BY <1>1, <1>2, <1>3, <1>9, <1>10, ServedKept

\* _offload_shared_rollouts, at the end of the rollout phase.
LEMMA OffloadServed == ASSUME ServeInv, config.backend # "mock", Offload PROVE EngineServed'
<1>1. PICK o \in (IF Shared THEN Offloaded ELSE {Done(backend)}) :
        backend' = o.b /\ phase' = IF o.ok THEN "granting" ELSE "failed"
  BY DEF Offload
<1>2. /\ config' = config /\ phase = "serving" /\ phase' \in {"granting", "failed"}
      /\ backend.active # NoVersion /\ Whole(backend) /\ config \in Configs
  BY <1>1 DEF Offload, ServeInv, FlagInv, Flagged, IInv
<1>3. Next
  BY Zenon DEF Next
<1>4. /\ Native' = Native /\ Shared' = Shared /\ Teardown' = Teardown /\ config.keeps' = config.keeps
  BY <1>2 DEF Native, Shared, Teardown
<1>5. EngineServed
  BY DEF ServeInv, Served
<1>6. Leases = RolloutLeases /\ AcceptsLeases(Leases)
  <2>1. leaseRole = "rollout"
    BY <1>2 DEF ServeInv, IInv, Leaving
  <2>2. Leases = RolloutLeases
    BY <2>1 DEF Leases, RolloutLeases
  <2> QED BY <1>2, <1>5, <2>2 DEF EngineServed
<1>7. CASE ~Shared
  <2>1. backend' = backend
    <3>1. o = Done(backend)
      BY <1>1, <1>7
    <3> QED BY <1>1, <3>1, Projections
  <2>2. ASSUME VllmServed PROVE VllmServed'
    <3>1. ~backend.offloaded /\ Right(backend)
      BY <1>2, <1>7, <2>2 DEF VllmServed, Ahead, Gone, Spoilt
    <3>2. Right(backend)'
      BY <1>2, <2>1, <3>1 DEF Right
    <3> QED BY <1>2, <1>4, <1>7, <2>1, <2>2, <3>1, <3>2 DEF VllmServed, Ahead, InWindow, Leaving
  <2> QED BY <1>2, <1>3, <2>1, <2>2, ServedKept
<1>8. CASE Shared /\ config.backend = "vllm"
  <2>1. o \in VllmOffload(backend)
    BY <1>1, <1>6, <1>8, Zenon DEF Offloaded, WithLease
  <2>2. /\ SameSync(backend, o.b)
        /\ Teardown => Gone(o.b)
        /\ ~Teardown /\ Right(backend) /\ backend.engine # NoVersion => Right(o.b)
    BY <1>2, <2>1, VllmOffloadsRight
  <2>3. o.b.active = backend.active
    BY <1>2, <2>1, EngineOffloads
  <2>4. ASSUME VllmServed PROVE VllmServed'
    <3>1. ~Teardown => Right(backend) /\ backend.engine # NoVersion
      BY <1>2, <2>4 DEF VllmServed, Ahead, Gone, Spoilt, Right
    <3>2. (Gone(o.b) /\ Teardown) \/ Right(o.b)
      BY <2>2, <3>1
    <3>3. (Gone(backend)' /\ Teardown) \/ Right(backend)'
      BY <1>1, <1>2, <3>2 DEF Gone, Right, Teardown
    <3>4. Teardown => backend'.engine = NoVersion
      BY <1>1, <2>2 DEF Gone
    <3>5. Native /\ Teardown => backend'.active = 0
      BY <1>1, <1>8, <2>3, <2>4 DEF VllmServed
    <3>6. ~Native => backend'.synced = {}
      BY <1>1, <2>2, <2>4 DEF VllmServed, SameSync
    <3> QED BY <1>2, <1>4, <1>8, <3>3, <3>4, <3>5, <3>6 DEF VllmServed, Ahead, InWindow, Leaving
  <2>5. phase # "bootstrap" /\ phase' # "bootstrap" /\ config.backend # "huggingface"
    BY <1>2, <1>8
  <2> QED BY <1>2, <1>3, <2>4, <2>5, ServedKept
<1>9. CASE Shared /\ config.backend = "huggingface"
  <2>1. o \in HfOffload(backend)
    BY <1>1, <1>6, <1>9, Zenon DEF Offloaded, WithLease
  <2>2. HfServed(backend) => HfServed(backend')
    BY <1>1, <1>2, <2>1, HfKeepsModel
  <2>3. phase # "bootstrap" /\ phase' # "bootstrap" /\ config.backend # "vllm"
    BY <1>2, <1>9
  <2> QED BY <1>2, <1>3, <2>2, <2>3, ServedKept
<1> QED BY <1>2, <1>7, <1>8, <1>9 DEF Configs

\* The wake after a window, and the one of its clean-up.
LEMMA WakeServed == ASSUME ServeInv, config.backend # "mock", Wake PROVE EngineServed'
<1>1. PICK o \in (IF Shared THEN Woken ELSE {Done(backend)}) :
        backend' = o.b /\ phase' = IF o.ok /\ phase = "waking" THEN "activating" ELSE "raised"
  BY DEF Wake
<1>2. /\ config' = config /\ version' = version /\ exported' = exported
      /\ phase \in {"waking", "wakingFailed"} /\ phase' \in {"activating", "raised"}
      /\ backend.active # NoVersion /\ Whole(backend) /\ config \in Configs
  BY <1>1 DEF Wake, ServeInv, FlagInv, Flagged, IInv
<1>3. Next
  BY Zenon DEF Next
<1>4. /\ Native' = Native /\ Shared' = Shared /\ Teardown' = Teardown
  BY <1>2 DEF Native, Shared, Teardown
<1>5. EngineServed /\ Course
  BY DEF ServeInv, Served, FlagInv
<1>6. Leases = RolloutLeases /\ AcceptsLeases(Leases)
  <2>1. leaseRole = "rollout"
    BY <1>2 DEF ServeInv, IInv, Leaving
  <2>2. Leases = RolloutLeases
    BY <2>1 DEF Leases, RolloutLeases
  <2> QED BY <1>2, <1>5, <2>2 DEF EngineServed
<1>7. Native /\ phase = "waking" /\ phase' = "raised" => Lost'
  BY <1>2, <1>4, <1>5 DEF Course, Past, Lost
<1>8. CASE ~Shared
  <2>1. o.ok /\ backend' = backend
    <3>1. o = Done(backend)
      BY <1>1, <1>8
    <3> QED BY <1>1, <3>1, Projections
  <2>2. ASSUME VllmServed PROVE VllmServed'
    <3>1. ~backend.offloaded
      BY <1>8, <2>2 DEF VllmServed
    <3>2. \/ Native /\ phase = "waking" /\ backend.engine = exported
          \/ Right(backend)
      BY <1>2, <2>2, <3>1 DEF VllmServed, Ahead, Gone, Spoilt
    <3>3. backend.engine # NoVersion
      BY <1>2, <1>5, <3>2, Markers DEF Right, Course
    <3>4. (Native /\ phase = "waking") \/ Right(backend)'
      BY <1>2, <2>1, <3>2 DEF Right
    <3>5. phase' = IF phase = "waking" THEN "activating" ELSE "raised"
      BY <1>1, <2>1
    <3> QED BY <1>2, <1>4, <1>8, <2>1, <2>2, <3>1, <3>3, <3>4, <3>5 DEF VllmServed, Ahead, InWindow, Leaving
  <2> QED BY <1>2, <1>3, <2>1, <2>2, ServedKept
<1>9. CASE Shared /\ config.backend = "vllm"
  <2>1. o \in VllmWake(backend)
    BY <1>1, <1>6, <1>9, Zenon DEF Woken, WithLease
  <2>2. /\ SameSync(backend, o.b) /\ o.b.active = backend.active
        /\ o.ok => o.b.offloaded = FALSE
        /\ backend.engine # NoVersion /\ Right(backend) => Right(o.b)
        /\ backend.engine # NoVersion /\ config.keeps => o.b.engine = backend.engine
        /\ Gone(backend) /\ (config.loader \/ backend.active = 0) =>
             IF o.ok THEN Right(o.b) ELSE Gone(o.b) \/ Spoilt(o.b)
    BY <1>2, <2>1, VllmWakesRight
  <2>3. ASSUME VllmServed, ~Lost', ~Excused PROVE VllmServed'
    <3>1. CASE Native /\ phase = "waking"
      <4>1. /\ backend.engine = exported /\ exported \in backend.synced /\ ~Teardown
            /\ config.keeps
        BY <1>9, <2>3, <3>1 DEF VllmServed, Ahead, Excused, LostAsleep
      <4>2. phase' = "activating" /\ o.ok
        BY <1>1, <1>2, <1>7, <2>3, <3>1
      <4>3. exported # NoVersion
        BY <1>5, Markers DEF Course
      <4>4. backend'.engine = exported /\ backend'.synced = backend.synced /\ ~backend'.offloaded
        BY <1>1, <2>2, <4>1, <4>2, <4>3 DEF SameSync
      <4> QED BY <1>2, <1>4, <1>9, <3>1, <4>1, <4>2, <4>3, <4>4 DEF VllmServed, Ahead, InWindow, Leaving
    <3>2. CASE ~(Native /\ phase = "waking")
      <4>1. Right(backend) \/ Gone(backend)
        BY <1>2, <2>3, <3>2 DEF VllmServed, Ahead
      <4>2. Native => phase' = "raised"
        BY <1>1, <1>2, <3>2
      <4>3. Gone(backend) => config.loader \/ backend.active = 0
        BY <1>2, <1>9, <2>3 DEF Gone, VllmServed, Excused, CheckpointOnly, Native
      <4>4. \/ Right(o.b)
            \/ ~o.ok /\ (Gone(o.b) \/ Spoilt(o.b))
        BY <1>2, <2>2, <4>1, <4>3 DEF Right
      <4>5. phase' = "activating" => o.ok
        BY <1>1
      <4>6. \/ Right(backend)'
            \/ phase' = "raised" /\ (Gone(backend)' \/ Spoilt(backend)')
        BY <1>1, <1>2, <4>4, <4>5 DEF Right, Gone, Spoilt, Teardown
      <4>7. phase' = "activating" => ~backend'.offloaded /\ backend'.engine # NoVersion
        BY <1>1, <1>2, <2>2, <4>4, <4>5 DEF Right
      <4>8. /\ ~Native => backend'.synced = {}
            /\ Native /\ Teardown => backend'.active = 0
        BY <1>1, <1>9, <2>2, <2>3 DEF VllmServed, SameSync
      <4> QED BY <1>2, <1>4, <1>9, <4>2, <4>6, <4>7, <4>8 DEF VllmServed, Ahead, InWindow, Leaving
    <3> QED BY <3>1, <3>2
  <2>4. phase # "bootstrap" /\ phase' # "bootstrap" /\ config.backend # "huggingface"
    BY <1>2, <1>9
  <2> QED BY <1>2, <1>3, <2>3, <2>4, ServedKept
<1>10. CASE Shared /\ config.backend = "huggingface"
  <2>1. o \in HfWake(backend)
    BY <1>1, <1>6, <1>10, Zenon DEF Woken, WithLease
  <2>2. HfServed(backend) => HfServed(backend')
    BY <1>1, <1>2, <2>1, HfKeepsModel
  <2>3. phase # "bootstrap" /\ phase' # "bootstrap" /\ config.backend # "vllm"
    BY <1>2, <1>10
  <2> QED BY <1>2, <1>3, <2>2, <2>3, ServedKept
<1> QED BY <1>2, <1>8, <1>9, <1>10 DEF Configs

\* Activating the version of a window, or the base model at the bootstrap:
\* it returns with the weight in the engine, or the version is lost.
LEMMA ActivateServed ==
  ASSUME ServeInv, config.backend # "mock", Activate \/ OthersRaise
  PROVE  EngineServed'
<1>1. PICK o \in Activated(exported) :
        /\ backend' = o.b
        /\ phase' = "serving" => o.ok
        /\ phase' \in {"serving", "raised"}
        /\ phase' = "raised" => version' = version
        /\ o.ok /\ phase = "bootstrap" => phase' = "serving"
        /\ AcceptsLeases(Leases) => role' = exported
  <2>1. CASE Activate
    BY <2>1, Zenon DEF Activate
  <2>2. CASE OthersRaise
    BY <2>2 DEF OthersRaise
  <2> QED BY <2>1, <2>2
<1>2. /\ config' = config /\ exported' = exported /\ leaseRole' = leaseRole
      /\ phase \in {"bootstrap", "activating"} /\ config \in Configs
  BY DEF Activate, OthersRaise, ServeInv, IInv
<1>3. /\ EngineServed /\ Course /\ Flagged /\ Whole(backend)
  BY DEF ServeInv, Served, FlagInv, Flagged
<1>4. exported \in Nat /\ exported # NoVersion /\ (phase = "activating" => exported # version)
  BY <1>3, Markers DEF Course, Past
<1>5. Leases = RolloutLeases
  <2>1. leaseRole = "rollout"
    BY <1>2 DEF ServeInv, IInv, Leaving
  <2> QED BY <2>1 DEF Leases, RolloutLeases
<1>6. o.ok => AcceptsLeases(RolloutLeases)
  <2> SUFFICES ASSUME ~AcceptsLeases(Leases) PROVE ~o.ok
    BY <1>5
  <2>1. o = Raised(backend)
    BY DEF Activated, WithLease
  <2> QED BY <2>1, Projections
<1>7. /\ Native' = Native /\ Excused' = Excused /\ Teardown' = Teardown /\ Shared' = Shared
      /\ RolloutLeases' = RolloutLeases
  BY <1>2 DEF Native, Excused, CheckpointOnly, LostAsleep, Shared, RolloutLeases, Teardown
<1>8. backend'.active = IF o.ok THEN exported ELSE backend.active
  <2>1. /\ config.backend \in {"vllm", "huggingface"}
        /\ backend.active # NoVersion \/ backend.engine = NoVersion
        /\ config.backend = "huggingface" /\ backend.active # NoVersion => Emptied(backend)
    BY <1>2, <1>3 DEF Flagged, Configs
  <2>2. Truthful(backend)
    BY <1>2, <1>3 DEF Flagged, Half, Past, Truthful
  <2>3. o.b.active = IF o.ok THEN exported ELSE backend.active
    BY <1>3, <1>4, <2>1, <2>2, EngineActivates
  <2> QED BY <1>1, <2>3
<1>9. CASE phase' = "raised"
  <2>1. CASE phase = "bootstrap"
    <3>1. backend'.active = NoVersion
      BY <1>1, <1>3, <1>8, <1>9, <2>1 DEF Flagged
    <3> QED BY <1>9, <3>1 DEF EngineServed
  <2>2. CASE phase = "activating"
    <3>1. backend.active # NoVersion
      BY <1>3, <2>2 DEF Flagged
    <3>2. AcceptsLeases(RolloutLeases)
      BY <1>3, <3>1 DEF EngineServed
    <3>3. role' = exported
      BY <1>1, <1>5, <3>2
    <3>4. Lost'
      BY <1>1, <1>2, <1>4, <1>9, <2>2, <3>3 DEF Lost, Past
    <3>5. AcceptsLeases(RolloutLeases)'
      BY <1>7, <3>2 DEF AcceptsLeases
    <3> QED BY <1>9, <3>4, <3>5 DEF EngineServed
  <2> QED BY <1>2, <2>1, <2>2
<1>10. CASE phase' = "serving"
  <2>1. o.ok /\ AcceptsLeases(RolloutLeases) /\ backend'.active = exported
    BY <1>1, <1>6, <1>8, <1>10
  <2>2. AcceptsLeases(RolloutLeases)'
    BY <1>7, <2>1 DEF AcceptsLeases
  <2>3. ASSUME config.backend = "huggingface" PROVE HfServed(backend')
    <3>1. o \in HfActivate(backend, exported)
      BY <1>5, <2>1, <2>3, Zenon DEF Activated, WithLease
    <3>2. backend.engine = NoVersion \/ (backend.active # NoVersion /\ HfServed(backend))
      BY <1>2, <1>3, <2>3 DEF Flagged, EngineServed, Lost, Past
    <3>3. HfServed(o.b)
      BY <1>3, <1>4, <2>1, <3>1, <3>2, HfActivatesModel
    <3> QED BY <1>1, <3>3
  <2>4. ASSUME config.backend = "vllm", ~Excused PROVE VllmServed'
    <3>1. o \in VllmActivate(backend, exported)
      BY <1>5, <2>1, <2>4, Zenon DEF Activated, WithLease
    <3>2. phase = "activating" => backend.active # NoVersion /\ VllmServed
      BY <1>3, <2>4 DEF Flagged, EngineServed, Lost, Past
    <3>3. backend.engine = NoVersion \/ ~backend.offloaded
      BY <1>2, <1>3, <3>2 DEF Flagged, VllmServed
    <3>4. /\ SameSync(backend, o.b) /\ o.b.active = exported /\ ~o.b.offloaded
          /\ o.b.engine = IF exported \notin backend.synced /\ config.loader THEN exported
                          ELSE IF backend.engine = NoVersion THEN 0 ELSE backend.engine
      BY <1>3, <2>1, <3>1, <3>3, VllmActivatesRight
    <3>5. /\ o.b.engine = exported
          /\ ~Native => o.b.synced = {}
          /\ Native /\ Teardown /\ Shared => exported = 0
      <4>1. CASE phase = "bootstrap"
        <5>1. backend.engine = NoVersion /\ exported = 0 /\ backend.synced = {}
          BY <1>3, <4>1 DEF Flagged, EngineServed
        <5> QED BY <3>4, <5>1 DEF SameSync
      <4>2. CASE phase = "activating" /\ Native
        <5>1. /\ backend.engine = exported /\ exported \in backend.synced
              /\ ~(Teardown /\ Shared) /\ backend.engine # NoVersion
          BY <3>2, <4>2 DEF VllmServed, Ahead
        <5> QED BY <3>4, <4>2, <5>1
      <4>3. CASE phase = "activating" /\ ~Native
        <5>1. backend.synced = {} /\ config.loader
          BY <2>4, <3>2, <4>3 DEF VllmServed, Excused, CheckpointOnly, Native
        <5> QED BY <3>4, <4>3, <5>1 DEF SameSync
      <4> QED BY <1>2, <4>1, <4>2, <4>3
    <3>6. backend'.engine = exported /\ backend'.active = exported /\ ~backend'.offloaded
      BY <1>1, <3>4, <3>5
    <3>7. Right(backend)'
      BY <3>6 DEF Right
    <3> QED BY <1>1, <1>7, <1>10, <3>5, <3>6, <3>7 DEF VllmServed, Ahead, InWindow, Leaving
  <2> QED BY <1>2, <1>7, <1>10, <2>2, <2>3, <2>4 DEF EngineServed
<1> QED BY <1>1, <1>9, <1>10

LEMMA MockStays == ASSUME ServeInv, config.backend = "mock", Next PROVE MockServed(backend')
<1>1. MockServed(backend) /\ ~Native /\ phase \notin {"starting", "sending", "finishing"}
  BY DEF ServeInv, Served, Native
<1>2. /\ \A v : \A o \in Activated(v) : MockServed(o.b)
      /\ \A o \in Offloaded \union Woken : MockServed(o.b)
  BY <1>1, MockCalls
<1>3. CASE Activate \/ OthersRaise
  BY <1>2, <1>3 DEF Activate, OthersRaise
<1>4. CASE Offload \/ Wake
  <2>1. PICK o \in Offloaded \union Woken \union {Done(backend)} : backend' = o.b
    BY <1>4, Zenon DEF Offload, Wake
  <2>2. o = Done(backend) => o.b = backend
    BY Projections
  <2> QED BY <1>1, <1>2, <2>1, <2>2
<1>5. CASE StartSync \/ SendWeights \/ FinishSync
  BY <1>1, <1>5 DEF StartSync, SendWeights, FinishSync
<1>6. CASE Generate \/ GenerateRaises \/ GrantTrainer \/ Export \/ WindowRaises \/ GrantRollout \/ RunAgain
  BY <1>1, <1>6 DEF Generate, GenerateRaises, GrantTrainer, Export, WindowRaises, GrantRollout, RunAgain
<1> QED BY <1>3, <1>4, <1>5, <1>6 DEF Next

LEMMA InitServeInv == Init => ServeInv
<1> SUFFICES ASSUME Init PROVE Served
  BY InitIInv, InitFlagInv DEF ServeInv
<1> QED BY DEF Init, Served, EngineServed, MockServed, Whole, Fields

LEMMA NextServeInv == ASSUME ServeInv, [Next]_vars PROVE ServeInv'
<1>1. IInv' /\ FlagInv'
  BY NextIInv, NextFlagInv DEF ServeInv
<1>2. CASE UNCHANGED vars
  <2>1. /\ UNCHANGED <<config, backend, phase, version, exported, role>>
    BY <1>2 DEF vars
  <2>2. /\ Native' = Native /\ Lost' = Lost /\ Excused' = Excused /\ VllmServed' = VllmServed
        /\ RolloutLeases' = RolloutLeases
    BY <2>1 DEF Native, Lost, Excused, VllmServed, CheckpointOnly, LostAsleep, Shared, RolloutLeases,
                Right, Gone, Spoilt, Teardown
  <2>3. AcceptsLeases(RolloutLeases)' = AcceptsLeases(RolloutLeases)
    BY <2>2 DEF AcceptsLeases
  <2>4. Served'
    BY <2>1, <2>2, <2>3 DEF ServeInv, Served, EngineServed
  <2> QED BY <1>1, <2>4 DEF ServeInv
<1>3. CASE Next
  <2>1. config' = config
    BY <1>3 DEF Next, Activate, OthersRaise, Generate, GenerateRaises, Offload, GrantTrainer, Export,
           StartSync, SendWeights, FinishSync, WindowRaises, GrantRollout, Wake, RunAgain
  <2>2. phase' \in {"starting", "sending", "finishing"} => Native'
    <3>1. Native' = Native
      BY <2>1 DEF Native
    <3>2. phase \in {"starting", "sending", "finishing"} => Native
      BY DEF ServeInv, Served
    <3>3. ~Native => phase' \notin {"starting", "sending", "finishing"}
      BY <1>3, <3>2 DEF Next, Activate, OthersRaise, Generate, GenerateRaises, Offload, GrantTrainer, Export,
           StartSync, SendWeights, FinishSync, WindowRaises, GrantRollout, Wake, RunAgain
    <3> QED BY <3>1, <3>3
  <2>3. config.backend = "mock" => MockServed(backend)'
    BY <1>3, MockStays
  <2>4. ASSUME config.backend # "mock" PROVE EngineServed'
    <3>1. CASE Activate \/ OthersRaise
      BY <2>4, <3>1, ActivateServed
    <3>2. CASE Offload
      BY <2>4, <3>2, OffloadServed
    <3>3. CASE Wake
      BY <2>4, <3>3, WakeServed
    <3>4. CASE StartSync \/ SendWeights \/ FinishSync
      BY <2>4, <3>4, SyncServed
    <3>5. CASE Generate \/ GenerateRaises \/ GrantTrainer \/ Export \/ WindowRaises \/ GrantRollout \/ RunAgain
      BY <2>4, <3>5, LoopServed
    <3> QED BY <1>3, <3>1, <3>2, <3>3, <3>4, <3>5 DEF Next
  <2>5. Served'
    BY <2>1, <2>2, <2>3, <2>4 DEF Served
  <2> QED BY <1>1, <2>5 DEF ServeInv
<1> QED BY <1>2, <1>3

\* A sample is computed with the weights of the version it is recorded under,
\* whatever way the engine was offloaded, woken, synced or loaded, and whatever
\* failed before: for any versions, GPUs and configuration that can deliver a
\* weight, and unless a version was left half taken over.
THEOREM SamplesTellTheirWeights == Spec => ServesItsVersion
<1>1. ASSUME ServeInv, Generate
      PROVE  \/ sample'.weights = sample'.version
             \/ CheckpointOnly \/ LostAsleep \/ HalfTakenOver
  <2> SUFFICES ASSUME ~CheckpointOnly, ~LostAsleep, ~HalfTakenOver
               PROVE  sample'.weights = sample'.version
    OBVIOUS
  <2>1. sample'.weights = backend.engine /\ sample'.version = version
    BY <1>1 DEF Generate
  <2>2. /\ phase = "serving" /\ backend.active = version /\ ~backend.offloaded
        /\ backend.engine # NoVersion
    BY <1>1 DEF Generate, MayGenerate
  <2>3. backend.active # NoVersion /\ config \in Configs
    BY <1>1, <2>2, Markers DEF ServeInv, FlagInv, Course
  <2>4. ~Lost /\ ~Excused
    BY DEF Lost, HalfTakenOver, Excused
  <2>5. CASE config.backend = "mock"
    BY <1>1, <2>1, <2>2, <2>5 DEF ServeInv, Served, MockServed
  <2>6. CASE config.backend = "huggingface"
    BY <1>1, <2>1, <2>2, <2>3, <2>4, <2>6 DEF ServeInv, Served, EngineServed, HfServed
  <2>7. CASE config.backend = "vllm"
    <3>1. VllmServed
      BY <1>1, <2>3, <2>4, <2>7 DEF ServeInv, Served, EngineServed
    <3> QED BY <2>1, <2>2, <3>1 DEF VllmServed, Right, Gone, Spoilt, Ahead
  <2> QED BY <2>3, <2>5, <2>6, <2>7 DEF Configs
<1> QED BY <1>1, InitServeInv, NextServeInv, PTL DEF Spec, ServesItsVersion

-----------------------------------------------------------------------------
(***************************************************************************)
(* The types.  A call leaves a well formed backend only if it found one,   *)
(* and the wake of a vLLM engine only if there is something to wake: an    *)
(* engine that sleeps keeps the weight it will wake with, and one that was *)
(* torn down is gone until the wake (VllmTyped).                           *)
(***************************************************************************)
Backends == [engine: Versions \union {NoVersion, Torn}, onGpu: BOOLEAN,
             slept: Versions \union {NoVersion, Torn}, active: Versions \union {NoVersion},
             offloaded: BOOLEAN, pending: Versions \union {NoVersion},
             synced: SUBSET Versions, loaded: Versions \union {NoVersion}]

Typed(b) == b \in Backends /\ (b.engine = NoVersion => ~b.onGpu)
Rests(b) == b.offloaded /\ b.engine # NoVersion => b.slept # NoVersion

\* What the parts of a wake and of an activation leave of a backend.
Follows(b, c) == /\ Typed(c) /\ SameSync(b, c)
                 /\ c.slept = b.slept /\ c.active = b.active
                 /\ c.offloaded => b.offloaded
                 /\ b.engine # NoVersion => c.engine # NoVersion

LEMMA FollowsOn ==
  \A b, c, d : Follows(b, c) /\ Follows(c, d) => Follows(b, d)
BY DEF Follows, SameSync

\* A version is no marker.
LEMMA NoMarker == \A v \in Versions : v # NoVersion /\ v # Torn
BY Markers DEF Versions

\* The single writes to a backend.
LEMMA Writes ==
  ASSUME NEW b, Typed(b), NEW v \in Versions \union {Torn}, NEW on \in BOOLEAN
  PROVE  /\ Follows(b, b)
         /\ Follows(b, [b EXCEPT !.engine = v])
         /\ Follows(b, [b EXCEPT !.engine = v, !.onGpu = on])
         /\ Follows(b, [b EXCEPT !.offloaded = FALSE]) /\ ~[b EXCEPT !.offloaded = FALSE].offloaded
         /\ b.engine # NoVersion => Follows(b, [b EXCEPT !.onGpu = TRUE])
<1>1. v # NoVersion
  BY Markers, NoMarker
<1>2. Follows(b, b)
  BY DEF Follows, SameSync
<1>3. Follows(b, [b EXCEPT !.engine = v])
  BY <1>1 DEF Follows, SameSync, Typed, Backends
<1>4. Follows(b, [b EXCEPT !.engine = v, !.onGpu = on])
  BY <1>1 DEF Follows, SameSync, Typed, Backends
<1>5. Follows(b, [b EXCEPT !.offloaded = FALSE]) /\ ~[b EXCEPT !.offloaded = FALSE].offloaded
  BY DEF Follows, SameSync, Typed, Backends
<1>6. b.engine # NoVersion => Follows(b, [b EXCEPT !.onGpu = TRUE])
  BY DEF Follows, SameSync, Typed, Backends
<1> QED BY <1>2, <1>3, <1>4, <1>5, <1>6

LEMMA EngineFollows ==
  ASSUME NEW b, Typed(b), NEW v \in Versions
  PROVE  /\ \A o \in Construct(b) : Follows(b, o.b) /\ (o.ok => o.b.engine # NoVersion)
         /\ b.engine # NoVersion =>
              \A o \in NotifyEngine(b, v) : Follows(b, o.b) /\ o.b.offloaded = b.offloaded
         /\ b.engine # NoVersion /\ b.slept # NoVersion => \A o \in EngineWake(b) : Follows(b, o.b)
<1>1. 0 \in Versions
  BY Markers DEF Versions
<1>2. ASSUME NEW o \in Construct(b) PROVE Follows(b, o.b) /\ (o.ok => o.b.engine # NoVersion)
  <2> DEFINE new == [b EXCEPT !.engine = 0, !.onGpu = TRUE]
  <2>1. Follows(b, b) /\ Follows(b, new)
    BY <1>1, Writes
  <2>2. new.engine # NoVersion
    BY <1>1, NoMarker DEF Typed, Backends
  <2>3. o = Raised(b) \/ o = Done(new)
    BY <1>2 DEF Construct
  <2> HIDE DEF new
  <2> QED BY <2>1, <2>2, <2>3, Projections, Zenon
<1>3. ASSUME b.engine # NoVersion, NEW o \in NotifyEngine(b, v)
      PROVE  Follows(b, o.b) /\ o.b.offloaded = b.offloaded
  <2> DEFINE engaged == [b EXCEPT !.engine = v]
             spoiled == [b EXCEPT !.engine = Torn]
  <2>1. Follows(b, b) /\ Follows(b, engaged) /\ Follows(b, spoiled)
    BY Writes
  <2>2. engaged.offloaded = b.offloaded /\ spoiled.offloaded = b.offloaded
    BY DEF Typed, Backends
  <2>3. o \in {Done(engaged), Raised(spoiled), Done(b)}
    BY <1>3, Zenon DEF NotifyEngine
  <2> HIDE DEF engaged, spoiled
  <2> QED BY <2>1, <2>2, <2>3, Projections, Zenon
<1>4. ASSUME b.engine # NoVersion, b.slept # NoVersion, NEW o \in EngineWake(b)
      PROVE  Follows(b, o.b)
  <2> DEFINE weight == IF config.keeps THEN b.engine ELSE b.slept
             awoken == [b EXCEPT !.engine = weight, !.onGpu = TRUE]
  <2>1. weight \in Versions \union {Torn}
    BY <1>4 DEF Typed, Backends
  <2> HIDE DEF weight
  <2>2. Follows(b, b) /\ Follows(b, awoken)
    BY <2>1, Writes
  <2>3. o = Raised(b) \/ o = Done(awoken)
    BY <1>4 DEF EngineWake, weight, Typed, Backends
  <2> HIDE DEF awoken
  <2> QED BY <2>2, <2>3, Projections, Zenon
<1> QED BY <1>2, <1>3, <1>4

LEMMA VllmWakeFollows ==
  ASSUME NEW b, Typed(b), Rests(b), NEW o \in VllmWake(b)
  PROVE  Follows(b, o.b) /\ (o.ok => ~o.b.offloaded)
<1>4. /\ \A x \in Construct(b) : Follows(b, x.b) /\ (x.ok => x.b.engine # NoVersion)
      /\ b.engine # NoVersion /\ b.slept # NoVersion => \A x \in EngineWake(b) : Follows(b, x.b)
  <2>1. 0 \in Versions
    BY Markers DEF Versions
  <2> QED BY <2>1, EngineFollows
<1> DEFINE Awake(c) == {Done([c EXCEPT !.offloaded = FALSE])}
<1>0. ASSUME NEW c, Follows(b, c), NEW p \in Awake(c)
      PROVE  Follows(b, p.b) /\ p.ok /\ ~p.b.offloaded
  <2> DEFINE up == [c EXCEPT !.offloaded = FALSE]
  <2>1. Follows(c, up) /\ ~up.offloaded
    BY <1>0, Writes, Zenon DEF Follows
  <2>2. p = Done(up)
    BY <1>0
  <2> HIDE DEF up
  <2> QED BY <1>0, <2>1, <2>2, FollowsOn, Projections
<1>1. CASE b.active = NoVersion
  <2>1. o \in Awake(b)
    BY <1>1, ZenonT(30) DEF VllmWake, Then
  <2>2. Follows(b, b)
    BY DEF Follows, SameSync
  <2> QED BY <1>0, <2>1, <2>2
<1>2. CASE b.active # NoVersion /\ b.engine = NoVersion
  <2> DEFINE Rebuilt(c) == NotifyEngine(c, c.active)
             told == Then(Construct(b), Rebuilt)
  <2>1. VllmWake(b) = Then(told, Awake)
    BY <1>2, ZenonT(30) DEF VllmWake, Then
  <2>2. ASSUME NEW w \in told PROVE Follows(b, w.b)
    <3>1. PICK x \in Construct(b) : w \in (IF x.ok THEN Rebuilt(x.b) ELSE {x})
      BY <2>2 DEF Then
    <3>2. Follows(b, x.b) /\ (x.ok => x.b.engine # NoVersion)
      BY <1>4, <3>1
    <3>3. CASE ~x.ok
      BY <3>1, <3>2, <3>3
    <3>4. CASE x.ok
      <4>1. x.b.active \in Versions /\ Typed(x.b)
        BY <1>2, <3>2 DEF Follows, Typed, Backends
      <4>2. w \in NotifyEngine(x.b, x.b.active)
        BY <3>1, <3>4
      <4>3. Follows(x.b, w.b)
        BY <3>2, <3>4, <4>1, <4>2, EngineFollows
      <4> QED BY <3>2, <4>3, FollowsOn
    <3> QED BY <3>3, <3>4
  <2> HIDE DEF told
  <2>3. PICK w \in told : o \in (IF w.ok THEN Awake(w.b) ELSE {w})
    BY <2>1 DEF Then
  <2> HIDE DEF Awake
  <2> QED BY <1>0, <2>2, <2>3
<1>3. CASE b.active # NoVersion /\ b.engine # NoVersion
  <2> DEFINE woken == IF b.offloaded THEN EngineWake(b) ELSE {Done(b)}
  <2>1. VllmWake(b) = Then(woken, Awake)
    BY <1>3 DEF VllmWake, Then
  <2>2. ASSUME NEW w \in woken PROVE Follows(b, w.b)
    <3>1. CASE b.offloaded
      BY <1>3, <1>4, <2>2, <3>1 DEF Rests
    <3>2. CASE ~b.offloaded
      <4>1. w = Done(b) /\ Follows(b, b)
        BY <2>2, <3>2 DEF Follows, SameSync
      <4> QED BY <4>1, Projections
    <3> QED BY <3>1, <3>2
  <2> HIDE DEF woken
  <2>3. PICK w \in woken : o \in (IF w.ok THEN Awake(w.b) ELSE {w})
    BY <2>1 DEF Then
  <2> HIDE DEF Awake
  <2> QED BY <1>0, <2>2, <2>3
<1> QED BY <1>1, <1>2, <1>3

\* What an activation leaves: the version becomes active only with an engine
\* that is up.
Activates(b, v, o) ==
  /\ Typed(o.b) /\ SameSync(b, o.b)
  /\ o.b.slept = b.slept
  /\ o.b.offloaded => b.offloaded
  /\ b.engine # NoVersion => o.b.engine # NoVersion
  /\ IF o.ok THEN o.b.active = v /\ o.b.engine # NoVersion /\ ~o.b.offloaded
             ELSE o.b.active = b.active

\* The last write of an activation.
LEMMA Settles ==
  ASSUME NEW b, NEW c, Follows(b, c), c.engine # NoVersion, ~c.offloaded, NEW v \in Versions
  PROVE  Activates(b, v, Done([c EXCEPT !.active = v]))
<1> DEFINE new == [c EXCEPT !.active = v]
<1>1. /\ Typed(new) /\ SameSync(c, new) /\ new.slept = c.slept /\ new.engine = c.engine
      /\ new.offloaded = c.offloaded /\ new.active = v
  BY DEF Follows, Typed, Backends, SameSync
<1> HIDE DEF new
<1>2. Done(new).b = new /\ Done(new).ok
  BY Projections
<1>3. /\ SameSync(b, new) /\ new.slept = b.slept /\ (new.offloaded => b.offloaded)
  BY <1>1 DEF Follows, SameSync
<1>4. Activates(b, v, Done(new))
  <2>1. /\ Typed(Done(new).b) /\ SameSync(b, Done(new).b)
        /\ Done(new).b.slept = b.slept /\ (Done(new).b.offloaded => b.offloaded)
        /\ Done(new).b.engine # NoVersion /\ Done(new).b.active = v /\ ~Done(new).b.offloaded
    BY <1>1, <1>2, <1>3, Zenon
  <2> QED BY <1>2, <2>1, Zenon DEF Activates
<1> QED BY <1>4 DEF new

LEMMA VllmActivateTyped ==
  ASSUME NEW b, Typed(b), Rests(b), NEW v \in Versions, NEW o \in VllmActivate(b, v)
  PROVE  Activates(b, v, o)
<1> DEFINE Fresh(c)   == {Done([c EXCEPT !.offloaded = FALSE])}
           Woken2(c)  == IF c.offloaded THEN VllmWake(c) ELSE {Done(c)}
           Told(c)    == IF v \in c.synced THEN {Done(c)} ELSE NotifyEngine(c, v)
           Current(c) == {Done([c EXCEPT !.active = v])}
           built == IF b.engine = NoVersion THEN Then(Construct(b), Fresh) ELSE {Done(b)}
           woken == Then(built, Woken2)
           told  == Then(woken, Told)
           Up(c) == c.engine # NoVersion /\ ~c.offloaded
<1>0. Follows(b, b)
  BY DEF Follows, SameSync
<1>1. ASSUME NEW w \in built
      PROVE  Follows(b, w.b) /\ (w.ok => w.b.engine # NoVersion /\ Rests(w.b))
  <2>1. CASE b.engine = NoVersion
    <3>1. PICK x \in Construct(b) : w \in (IF x.ok THEN Fresh(x.b) ELSE {x})
      BY <1>1, <2>1 DEF Then
    <3>2. Follows(b, x.b) /\ (x.ok => x.b.engine # NoVersion)
      BY EngineFollows
    <3>3. CASE ~x.ok
      BY <3>1, <3>2, <3>3
    <3>4. CASE x.ok
      <4> DEFINE new == [x.b EXCEPT !.offloaded = FALSE]
      <4>1. Follows(x.b, new) /\ ~new.offloaded
        BY <3>2, Writes, Zenon DEF Follows
      <4>2. w = Done(new)
        BY <3>1, <3>4
      <4> HIDE DEF new
      <4>3. w.b = new
        BY <4>2, Projections
      <4>4. Follows(b, new) /\ new.engine # NoVersion
        BY <3>2, <3>4, <4>1, FollowsOn DEF Follows
      <4> QED BY <4>1, <4>3, <4>4 DEF Rests
    <3> QED BY <3>3, <3>4
  <2>2. CASE b.engine # NoVersion
    <3>1. w = Done(b)
      BY <1>1, <2>2
    <3> QED BY <1>0, <2>2, <3>1, Projections
  <2> QED BY <2>1, <2>2
<1>2. ASSUME NEW w \in woken
      PROVE  Follows(b, w.b) /\ (w.ok => Up(w.b))
  <2>1. PICK x \in built : w \in (IF x.ok THEN Woken2(x.b) ELSE {x})
    <3> HIDE DEF built
    <3> QED BY <1>2 DEF Then
  <2>2. Follows(b, x.b) /\ (x.ok => x.b.engine # NoVersion /\ Rests(x.b))
    BY <1>1
  <2> HIDE DEF built, woken
  <2>3. CASE ~x.ok
    BY <2>1, <2>2, <2>3
  <2>4. CASE x.ok /\ x.b.offloaded
    <3>1. w \in VllmWake(x.b) /\ Typed(x.b)
      BY <2>1, <2>2, <2>4 DEF Follows
    <3>2. Follows(x.b, w.b) /\ (w.ok => ~w.b.offloaded)
      BY <2>2, <2>4, <3>1, VllmWakeFollows
    <3>3. Follows(b, w.b)
      BY <2>2, <3>2, FollowsOn
    <3> QED BY <2>2, <2>4, <3>2, <3>3 DEF Follows
  <2>5. CASE x.ok /\ ~x.b.offloaded
    <3>1. w = Done(x.b)
      BY <2>1, <2>5
    <3> QED BY <2>2, <2>5, <3>1, Projections
  <2> QED BY <2>3, <2>4, <2>5
<1>3. ASSUME NEW w \in told
      PROVE  Follows(b, w.b) /\ (w.ok => Up(w.b))
  <2>1. PICK x \in woken : w \in (IF x.ok THEN Told(x.b) ELSE {x})
    <3> HIDE DEF woken
    <3> QED BY <1>3 DEF Then
  <2>2. Follows(b, x.b) /\ (x.ok => Up(x.b))
    BY <1>2
  <2> HIDE DEF woken, told
  <2>3. CASE ~x.ok
    BY <2>1, <2>2, <2>3
  <2>4. CASE x.ok
    <3>1. Typed(x.b) /\ Follows(x.b, x.b)
      BY <2>2 DEF Follows, SameSync
    <3>2. w = Done(x.b) \/ w \in NotifyEngine(x.b, v)
      BY <2>1, <2>4
    <3>3. Follows(x.b, w.b) /\ w.b.offloaded = x.b.offloaded
      BY <2>2, <2>4, <3>1, <3>2, EngineFollows, Projections
    <3>4. Follows(b, w.b)
      BY <2>2, <3>3, FollowsOn
    <3> QED BY <2>2, <2>4, <3>3, <3>4 DEF Follows
  <2> QED BY <2>3, <2>4
<1>4. VllmActivate(b, v) = Then(told, Current)
  BY DEF VllmActivate, Then
<1> HIDE DEF told
<1>5. PICK w \in told : o \in (IF w.ok THEN Current(w.b) ELSE {w})
  BY <1>4 DEF Then
<1>6. CASE ~w.ok
  BY <1>3, <1>5, <1>6 DEF Activates, Follows
<1>7. CASE w.ok
  <2>1. o = Done([w.b EXCEPT !.active = v])
    BY <1>5, <1>7
  <2> QED BY <1>3, <1>7, <2>1, Settles
<1> QED BY <1>6, <1>7

\* A Hugging Face model is loaded, moved and activated alike.
LEMMA HfFollows ==
  ASSUME NEW b, Typed(b), NEW v \in Versions
  PROVE  /\ \A o \in HfLoad(b, v) : Follows(b, o.b) /\ (o.ok => o.b.engine # NoVersion)
         /\ \A o \in HfWake(b) : Follows(b, o.b) /\ (o.ok => ~o.b.offloaded)
<1>1. ASSUME NEW u \in Versions, NEW o \in HfLoad(b, u)
      PROVE  Follows(b, o.b) /\ (o.ok => o.b.engine # NoVersion)
  <2> DEFINE cold == [b EXCEPT !.engine = u, !.onGpu = FALSE]
             warm == [b EXCEPT !.engine = u, !.onGpu = TRUE, !.loaded = u, !.offloaded = FALSE]
  <2>1. u # NoVersion
    BY NoMarker
  <2>2. Follows(b, b) /\ Follows(b, cold)
    BY Writes
  <2>3. Follows(b, warm) /\ warm.engine # NoVersion
    BY <2>1 DEF Follows, SameSync, Typed, Backends
  <2>4. o \in {Raised(b), Raised(cold), Done(warm)}
    BY <1>1, Zenon DEF HfLoad
  <2> HIDE DEF cold, warm
  <2> QED BY <2>2, <2>3, <2>4, Projections, Zenon
<1> DEFINE Awake(c) == {Done([c EXCEPT !.offloaded = FALSE])}
<1>2. ASSUME NEW c, Follows(b, c), NEW o \in Awake(c)
      PROVE  Follows(b, o.b) /\ o.ok /\ ~o.b.offloaded
  <2> DEFINE up == [c EXCEPT !.offloaded = FALSE]
  <2>1. Follows(c, up) /\ ~up.offloaded
    BY <1>2, Writes, Zenon DEF Follows
  <2>2. o = Done(up)
    BY <1>2
  <2> HIDE DEF up
  <2> QED BY <1>2, <2>1, <2>2, FollowsOn, Projections
<1>3. ASSUME NEW o \in HfWake(b) PROVE Follows(b, o.b) /\ (o.ok => ~o.b.offloaded)
  <2>1. CASE b.active = NoVersion
    <3>1. o \in Awake(b)
      BY <1>3, <2>1, ZenonT(30) DEF HfWake, Then
    <3>2. Follows(b, b)
      BY DEF Follows, SameSync
    <3> QED BY <1>2, <3>1, <3>2
  <2>2. CASE b.active # NoVersion /\ b.engine = NoVersion
    <3>1. HfWake(b) = Then(HfLoad(b, b.active), Awake)
      BY <2>2, ZenonT(30) DEF HfWake, Then
    <3>2. b.active \in Versions
      BY <2>2 DEF Typed, Backends
    <3>3. PICK w \in HfLoad(b, b.active) : o \in (IF w.ok THEN Awake(w.b) ELSE {w})
      BY <1>3, <3>1 DEF Then
    <3>4. Follows(b, w.b)
      BY <1>1, <3>2, <3>3
    <3> HIDE DEF Awake
    <3> QED BY <1>2, <3>3, <3>4
  <2>3. CASE b.active # NoVersion /\ b.engine # NoVersion
    <3> DEFINE awoken == [b EXCEPT !.onGpu = TRUE]
               woken  == {Raised(b), Done(awoken)}
    <3>1. HfWake(b) = Then(woken, Awake)
      BY <2>3 DEF HfWake, Then
    <3>2. Follows(b, b) /\ Follows(b, awoken)
      BY <2>3, Writes DEF Follows, SameSync
    <3> HIDE DEF awoken
    <3>3. \A w \in woken : Follows(b, w.b)
      BY <3>2, Projections, Zenon
    <3> HIDE DEF woken
    <3>4. PICK w \in woken : o \in (IF w.ok THEN Awake(w.b) ELSE {w})
      BY <1>3, <3>1 DEF Then
    <3> HIDE DEF Awake
    <3> QED BY <1>2, <3>3, <3>4
  <2> QED BY <2>1, <2>2, <2>3
<1> QED BY <1>1, <1>3

LEMMA HfActivateTyped ==
  ASSUME NEW b, Typed(b), NEW v \in Versions, NEW o \in HfActivate(b, v)
  PROVE  Activates(b, v, o)
<1> DEFINE Woken2(c)  == IF c.offloaded THEN HfWake(c) ELSE {Done(c)}
           Current(c) == {Done([c EXCEPT !.active = v])}
           loaded == IF b.engine = NoVersion \/ b.loaded # v THEN HfLoad(b, v) ELSE {Done(b)}
           woken  == Then(loaded, Woken2)
<1>1. ASSUME NEW w \in loaded
      PROVE  Follows(b, w.b) /\ (w.ok => w.b.engine # NoVersion)
  <2>1. CASE w \in HfLoad(b, v)
    BY <2>1, HfFollows
  <2>2. CASE b.engine # NoVersion /\ w = Done(b)
    <3>1. Follows(b, b)
      BY DEF Follows, SameSync
    <3> QED BY <2>2, <3>1, Projections
  <2> QED BY <1>1, <2>1, <2>2
<1>2. ASSUME NEW w \in woken
      PROVE  Follows(b, w.b) /\ (w.ok => w.b.engine # NoVersion /\ ~w.b.offloaded)
  <2>1. PICK x \in loaded : w \in (IF x.ok THEN Woken2(x.b) ELSE {x})
    <3> HIDE DEF loaded
    <3> QED BY <1>2 DEF Then
  <2>2. Follows(b, x.b) /\ (x.ok => x.b.engine # NoVersion)
    BY <1>1
  <2> HIDE DEF loaded, woken
  <2>3. CASE ~x.ok
    BY <2>1, <2>2, <2>3
  <2>4. CASE x.ok /\ x.b.offloaded
    <3>1. w \in HfWake(x.b) /\ Typed(x.b)
      BY <2>1, <2>2, <2>4 DEF Follows
    <3>2. Follows(x.b, w.b) /\ (w.ok => ~w.b.offloaded)
      BY <3>1, HfFollows
    <3>3. Follows(b, w.b)
      BY <2>2, <3>2, FollowsOn
    <3> QED BY <2>2, <2>4, <3>2, <3>3 DEF Follows
  <2>5. CASE x.ok /\ ~x.b.offloaded
    <3>1. w = Done(x.b)
      BY <2>1, <2>5
    <3> QED BY <2>2, <2>5, <3>1, Projections
  <2> QED BY <2>3, <2>4, <2>5
<1>3. HfActivate(b, v) = Then(woken, Current)
  BY DEF HfActivate, Then
<1> HIDE DEF woken
<1>4. PICK w \in woken : o \in (IF w.ok THEN Current(w.b) ELSE {w})
  BY <1>3 DEF Then
<1>5. CASE ~w.ok
  BY <1>2, <1>4, <1>5 DEF Activates, Follows
<1>6. CASE w.ok
  <2>1. o = Done([w.b EXCEPT !.active = v])
    BY <1>4, <1>6
  <2> QED BY <1>2, <1>6, <2>1, Settles
<1> QED BY <1>5, <1>6

\* What an offload leaves: an engine that sleeps knows what it had.
Offloads(b, c) ==
  /\ Typed(c) /\ SameSync(b, c) /\ c.active = b.active
  /\ Teardown => c.engine = NoVersion
  /\ ~Teardown /\ b.engine # NoVersion /\ Rests(b) => c.engine # NoVersion /\ Rests(c)

LEMMA OffloadTyped ==
  ASSUME config \in Configs, NEW b, Typed(b)
  PROVE  /\ \A o \in VllmOffload(b) : Offloads(b, o.b)
         /\ \A o \in HfOffload(b) : Typed(o.b) /\ SameSync(b, o.b) /\ o.b.active = b.active
<1> DEFINE asleep == [b EXCEPT !.onGpu = FALSE, !.slept = b.engine, !.offloaded = TRUE]
           gone   == [b EXCEPT !.onGpu = FALSE, !.engine = NoVersion, !.offloaded = TRUE]
           torn   == [b EXCEPT !.engine = NoVersion, !.onGpu = FALSE, !.offloaded = TRUE]
           moved  == [b EXCEPT !.onGpu = FALSE, !.offloaded = TRUE]
<1>1. /\ Typed(asleep) /\ SameSync(b, asleep) /\ asleep.active = b.active
      /\ asleep.engine = b.engine /\ asleep.slept = b.engine
  BY DEF Typed, Backends, SameSync
<1>2. Typed(gone) /\ SameSync(b, gone) /\ gone.active = b.active /\ gone.engine = NoVersion
  BY DEF Typed, Backends, SameSync
<1>3. /\ Typed(torn) /\ SameSync(b, torn) /\ torn.active = b.active
      /\ Typed(moved) /\ SameSync(b, moved) /\ moved.active = b.active
  BY DEF Typed, Backends, SameSync
<1>4. Typed(b) /\ SameSync(b, b)
  BY DEF SameSync
<1>5. ASSUME NEW o \in VllmOffload(b) PROVE Offloads(b, o.b)
  <2>1. Teardown <=> config.strategy # "sleep"
    BY DEF Configs, Teardown
  <2>2. o \in (IF b.engine = NoVersion THEN {Done(gone)}
               ELSE IF config.strategy = "sleep" THEN {Raised(b)} \union Outcomes(asleep)
                                                 ELSE Outcomes(gone))
    BY <1>5 DEF VllmOffload
  <2> HIDE DEF asleep, gone
  <2>3. /\ Teardown \/ b.engine = NoVersion => o.b = gone
        /\ b.engine # NoVersion /\ ~Teardown => o.b = b \/ o.b = asleep
    BY <2>1, <2>2, Projections, Zenon DEF Outcomes
  <2> QED BY <1>1, <1>2, <1>4, <2>3 DEF Offloads, Rests
<1>6. ASSUME NEW o \in HfOffload(b)
      PROVE  Typed(o.b) /\ SameSync(b, o.b) /\ o.b.active = b.active
  <2>1. o \in {Raised(b), Done(torn), Done(moved)}
    BY <1>6, Zenon DEF HfOffload
  <2> HIDE DEF torn, moved
  <2> QED BY <1>3, <1>4, <2>1, Projections, Zenon
<1> QED BY <1>5, <1>6

LEMMA UpdateTyped ==
  ASSUME NEW b, Typed(b), NEW v \in Versions,
         NEW o \in StartUpdate(b, v) \union UpdateWeights(b, v) \union FinishUpdate(b)
  PROVE  /\ Typed(o.b) /\ o.b.active = b.active
         /\ o.b.slept = b.slept /\ o.b.offloaded = b.offloaded
         /\ o.b.engine = NoVersion <=> b.engine = NoVersion
         /\ o.b.pending \in {b.pending, v, NoVersion}
         /\ o.b.synced \subseteq b.synced \union ({b.pending} \ {NoVersion})
<1> DEFINE marked   == [b EXCEPT !.pending = v]
           written  == [b EXCEPT !.engine = v]
           spoiled  == [b EXCEPT !.engine = Torn]
           finished == [b EXCEPT !.synced = @ \union {b.pending}, !.pending = NoVersion]
           Fine(c) == /\ Typed(c) /\ c.active = b.active
                      /\ c.slept = b.slept /\ c.offloaded = b.offloaded
                      /\ c.engine = NoVersion <=> b.engine = NoVersion
                      /\ c.pending \in {b.pending, v, NoVersion}
                      /\ c.synced \subseteq b.synced \union ({b.pending} \ {NoVersion})
<1>1. v # NoVersion /\ Torn # NoVersion
  BY NoMarker, Markers
<1>2. Fine(b) /\ Fine(marked)
  BY DEF Typed, Backends
<1>3. b.engine # NoVersion => Fine(written) /\ Fine(spoiled)
  BY <1>1 DEF Typed, Backends
<1>4. b.pending # NoVersion => Fine(finished)
  BY DEF Typed, Backends
<1>5. \/ o = Raised(b) \/ o = Done(marked)
      \/ b.engine # NoVersion /\ (o = Raised(spoiled) \/ o = Done(written))
      \/ b.pending # NoVersion /\ o = Done(finished)
  <2> HIDE DEF marked, written, spoiled, finished
  <2>1. CASE o \in StartUpdate(b, v)
    BY <2>1, Zenon DEF StartUpdate, RequireEngine, marked
  <2>2. CASE o \in UpdateWeights(b, v)
    BY <2>2, Zenon DEF UpdateWeights, RequireEngine, written, spoiled
  <2>3. CASE o \in FinishUpdate(b)
    BY <2>3, Zenon DEF FinishUpdate, RequireEngine, finished
  <2> QED BY <2>1, <2>2, <2>3
<1> HIDE DEF marked, written, spoiled, finished, Fine
<1>6. Fine(o.b)
  BY <1>2, <1>3, <1>4, <1>5, Projections, Zenon
<1> QED BY <1>6 DEF Fine

\* A vLLM engine that sleeps knows its weight, a torn down one is gone when
\* the window begins, and one with GPUs of its own never sleeps.
VllmTyped ==
  /\ ~Shared => ~backend.offloaded
  /\ Teardown /\ backend.offloaded /\ phase \notin {"raised", "serving"} => backend.engine = NoVersion
  /\ ~Teardown /\ backend.active # NoVersion => backend.engine # NoVersion /\ Rests(backend)

LoopTyped ==
  /\ Sensible(config)
  /\ exported \in Versions /\ registered \subseteq Versions
  /\ phase \in {"granting", "training"} => version < MaxVersion
  /\ role \in Versions \union {NoVersion}

SyncTyped == backend.synced \subseteq registered /\ backend.pending \in registered \union {NoVersion}

TypeInv ==
  /\ ServeInv /\ LoopTyped
  /\ Typed(backend) /\ SyncTyped
  /\ config.backend = "vllm" => VllmTyped

LEMMA InitTypeInv == Init => TypeInv
<1> SUFFICES ASSUME Init PROVE TypeInv
  OBVIOUS
<1>1. ServeInv
  BY InitServeInv
<1>2. LoopTyped
  BY Markers DEF Init, LoopTyped, Versions
<1>3. Typed(backend) /\ SyncTyped
  BY DEF Init, Typed, Backends, SyncTyped
<1>4. VllmTyped
  BY DEF Init, VllmTyped
<1> QED BY <1>1, <1>2, <1>3, <1>4 DEF TypeInv

\* What the types have to know of the loop, at each step.
LEMMA NextLoopTyped == ASSUME TypeInv, [Next]_vars PROVE LoopTyped'
<1>1. /\ LoopTyped /\ Course
  BY DEF TypeInv, ServeInv, FlagInv
<1>2. CASE Activate \/ OthersRaise
  BY <1>1, <1>2 DEF Activate, OthersRaise, LoopTyped, Sensible
<1>3. CASE Export
  <2>1. version + 1 \in Versions
    BY <1>1, <1>3, Markers DEF Export, LoopTyped, Course, Versions
  <2>2. phase' \notin {"granting", "training"} /\ registered' = registered \union {version + 1}
    BY <1>3 DEF Export
  <2> QED BY <1>1, <1>3, <2>1, <2>2 DEF Export, LoopTyped, Sensible
<1>4. CASE Offload
  BY <1>1, <1>4 DEF Offload, LoopTyped, Sensible
<1>5. CASE GrantTrainer
  BY <1>1, <1>5 DEF GrantTrainer, LoopTyped, Sensible
<1>6. CASE Generate \/ GenerateRaises \/ StartSync \/ SendWeights \/ FinishSync
  <2>1. /\ UNCHANGED <<config, version, exported, registered, role>>
        /\ phase' \notin {"granting", "training"}
    BY <1>6 DEF Generate, GenerateRaises, StartSync, SendWeights, FinishSync
  <2> QED BY <1>1, <2>1 DEF LoopTyped, Sensible
<1>7. CASE WindowRaises \/ GrantRollout \/ Wake \/ RunAgain
  <2>1. /\ UNCHANGED <<config, version, exported, registered, role>>
        /\ phase' \notin {"granting", "training"}
    BY <1>7 DEF WindowRaises, GrantRollout, Wake, RunAgain
  <2> QED BY <1>1, <2>1 DEF LoopTyped, Sensible
<1>8. CASE UNCHANGED vars
  BY <1>1, <1>8 DEF vars, LoopTyped, Sensible
<1> QED BY <1>2, <1>3, <1>4, <1>5, <1>6, <1>7, <1>8 DEF Next

\* The calls of the actor.
LEMMA ActivatedTyped ==
  ASSUME config \in Configs, Typed(backend), config.backend = "vllm" => Rests(backend),
         NEW v \in Versions, NEW o \in Activated(v)
  PROVE  Activates(backend, v, o)
<1>1. CASE o = Raised(backend)
  <2>1. o.b = backend /\ ~o.ok
    BY <1>1, Projections
  <2> QED BY <2>1 DEF Activates, SameSync
<1>2. CASE config.backend = "vllm" /\ o \in VllmActivate(backend, v)
  BY <1>2, VllmActivateTyped
<1>3. CASE config.backend = "huggingface" /\ o \in HfActivate(backend, v)
  BY <1>3, HfActivateTyped
<1>4. CASE config.backend = "mock" /\ o \in MockActivate(backend, v)
  <2> DEFINE new == [backend EXCEPT !.engine = v, !.active = v, !.offloaded = FALSE]
  <2>1. v # NoVersion
    BY NoMarker
  <2>2. /\ Typed(new) /\ SameSync(backend, new) /\ new.slept = backend.slept
        /\ new.engine = v /\ new.active = v /\ ~new.offloaded
    BY <2>1 DEF Typed, Backends, SameSync
  <2>3. o = Done(new)
    BY <1>4 DEF MockActivate
  <2> HIDE DEF new
  <2>4. o.b = new /\ o.ok
    BY <2>3, Projections
  <2> QED BY <2>1, <2>2, <2>4 DEF Activates
<1>5. config.backend \in {"vllm", "huggingface", "mock"}
  BY DEF Configs
<1> QED BY <1>1, <1>2, <1>3, <1>4, <1>5 DEF Activated, WithLease

LEMMA MovedTyped ==
  ASSUME config \in Configs, Typed(backend), NEW o,
         o \in Offloaded \/ (o \in Woken /\ (config.backend = "vllm" => Rests(backend)))
  PROVE  Typed(o.b) /\ SameSync(backend, o.b) /\ o.b.active = backend.active
<1>1. CASE o = Raised(backend)
  BY <1>1, Projections DEF SameSync
<1>2. CASE /\ config.backend = "vllm"
           /\ o \in VllmOffload(backend) \/ (o \in VllmWake(backend) /\ Rests(backend))
  BY <1>2, OffloadTyped, VllmWakeFollows DEF Offloads, Follows
<1>3. CASE config.backend = "huggingface" /\ (o \in HfOffload(backend) \/ o \in HfWake(backend))
  <2>1. 0 \in Versions
    BY Markers DEF Versions
  <2> QED BY <1>3, <2>1, OffloadTyped, HfFollows DEF Follows
<1>4. CASE config.backend = "mock" /\ (o \in MockOffload(backend) \/ o \in MockWake(backend))
  <2> DEFINE put == [backend EXCEPT !.offloaded = TRUE]
             up  == [backend EXCEPT !.offloaded = FALSE]
  <2>1. /\ Typed(put) /\ SameSync(backend, put) /\ put.active = backend.active
        /\ Typed(up) /\ SameSync(backend, up) /\ up.active = backend.active
    BY DEF Typed, Backends, SameSync
  <2>2. o = Done(put) \/ o = Done(up)
    BY <1>4 DEF MockOffload, MockWake
  <2> HIDE DEF put, up
  <2> QED BY <2>1, <2>2, Projections
<1>5. config.backend \in {"vllm", "huggingface", "mock"}
  BY DEF Configs
<1> QED BY <1>1, <1>2, <1>3, <1>4, <1>5 DEF Offloaded, Woken, WithLease

LEMMA Rested ==
  ASSUME TypeInv, config.backend = "vllm", phase \notin {"raised", "serving"}
  PROVE  Rests(backend)
<1>1. VllmTyped /\ Flagged
  BY DEF TypeInv, ServeInv, FlagInv
<1>2. CASE Teardown
  BY <1>1, <1>2 DEF VllmTyped, Rests
<1>3. CASE ~Teardown /\ phase # "bootstrap"
  BY <1>1, <1>3 DEF VllmTyped, Flagged
<1>4. CASE phase = "bootstrap"
  BY <1>1, <1>4 DEF Flagged, Rests
<1> QED BY <1>2, <1>3, <1>4

BackendTyped == Typed(backend) /\ SyncTyped /\ (config.backend = "vllm" => VllmTyped)

LEMMA ActivateBackend == ASSUME TypeInv, Activate \/ OthersRaise PROVE BackendTyped'
<1>1. PICK o \in Activated(exported) : backend' = o.b
  BY DEF Activate, OthersRaise
<1>2. /\ UNCHANGED <<config, registered>> /\ phase \in {"bootstrap", "activating"}
      /\ phase' \in {"serving", "raised"}
  BY DEF Activate, OthersRaise
<1>3. /\ config \in Configs /\ exported \in Versions /\ Typed(backend)
      /\ config.backend = "vllm" => Rests(backend)
  BY <1>2, Rested DEF TypeInv, ServeInv, IInv, LoopTyped
<1>4. Activates(backend, exported, o)
  BY <1>3, ActivatedTyped
<1>5. Typed(backend') /\ SyncTyped'
  BY <1>1, <1>2, <1>4 DEF TypeInv, SyncTyped, Activates, SameSync
<1>6. ASSUME config.backend = "vllm" PROVE VllmTyped'
  <2>1. VllmTyped /\ Rests(backend)
    BY <1>3, <1>6 DEF TypeInv
  <2>2. Shared' = Shared /\ Teardown' = Teardown
    BY <1>2 DEF Shared, Teardown
  <2>3. ASSUME ~Teardown, backend'.active # NoVersion
        PROVE  backend'.engine # NoVersion /\ Rests(backend')
    <3>1. CASE o.ok
      BY <1>1, <1>4, <3>1 DEF Activates, Rests
    <3>2. CASE ~o.ok
      BY <1>1, <1>4, <2>1, <2>3, <3>2 DEF Activates, VllmTyped, Rests
    <3> QED BY <3>1, <3>2
  <2>4. ~Shared => ~backend'.offloaded
    BY <1>1, <1>4, <2>1 DEF Activates, VllmTyped
  <2> QED BY <1>2, <2>2, <2>3, <2>4 DEF VllmTyped
<1> QED BY <1>2, <1>5, <1>6 DEF BackendTyped

LEMMA SyncBackend == ASSUME TypeInv, StartSync \/ SendWeights \/ FinishSync PROVE BackendTyped'
<1>1. PICK o \in StartUpdate(backend, exported) \union UpdateWeights(backend, exported)
                 \union FinishUpdate(backend) : backend' = o.b
  BY DEF StartSync, SendWeights, FinishSync
<1>2. /\ UNCHANGED <<config, registered>> /\ phase \in {"starting", "sending", "finishing"}
  BY DEF StartSync, SendWeights, FinishSync
<1>3. exported \in Versions /\ exported \in registered /\ Typed(backend) /\ SyncTyped
  BY DEF TypeInv, ServeInv, FlagInv, Course, LoopTyped
<1>4. /\ Typed(backend') /\ backend'.active = backend.active
      /\ backend'.slept = backend.slept /\ backend'.offloaded = backend.offloaded
      /\ backend'.engine = NoVersion <=> backend.engine = NoVersion
      /\ backend'.pending \in {backend.pending, exported, NoVersion}
      /\ backend'.synced \subseteq backend.synced \union ({backend.pending} \ {NoVersion})
  BY <1>1, <1>3, UpdateTyped
<1>5. SyncTyped'
  BY <1>2, <1>3, <1>4 DEF SyncTyped
<1>6. Shared' = Shared /\ Teardown' = Teardown /\ config' = config
  BY <1>2 DEF Shared, Teardown
<1>7. config.backend = "vllm" => VllmTyped'
  BY <1>2, <1>4, <1>6 DEF TypeInv, VllmTyped, Rests
<1> QED BY <1>4, <1>5, <1>6, <1>7 DEF BackendTyped

LEMMA OffloadBackend == ASSUME TypeInv, Offload PROVE BackendTyped'
<1>1. UNCHANGED <<config, registered, leaseRole>> /\ phase = "serving" /\ config \in Configs
  BY DEF Offload, TypeInv, ServeInv, IInv
<1>2. Shared' = Shared /\ Teardown' = Teardown /\ Typed(backend) /\ SyncTyped
  BY <1>1 DEF Shared, Teardown, TypeInv
<1>3. CASE ~Shared
  <2>1. backend' = backend
    BY <1>3, Projections DEF Offload
  <2>2. SyncTyped' /\ Typed(backend)'
    BY <1>1, <1>2, <2>1 DEF SyncTyped
  <2> QED BY <1>1, <1>2, <1>3, <2>1, <2>2 DEF BackendTyped, TypeInv, VllmTyped
<1>4. CASE Shared
  <2>1. PICK o \in Offloaded : backend' = o.b
    BY <1>4 DEF Offload
  <2>2. Typed(o.b) /\ SameSync(backend, o.b) /\ o.b.active = backend.active
    BY <1>1, <1>2, MovedTyped
  <2>3. Typed(backend') /\ SyncTyped'
    BY <1>1, <1>2, <2>1, <2>2 DEF SyncTyped, SameSync
  <2>4. ASSUME config.backend = "vllm" PROVE VllmTyped'
    <3>1. VllmTyped /\ EngineServed /\ Flagged /\ backend.active # NoVersion
      BY <1>1, <2>4 DEF TypeInv, ServeInv, Served, FlagInv, Flagged
    <3>2. AcceptsLeases(Leases)
      <4>1. leaseRole = "rollout"
        BY <1>1 DEF TypeInv, ServeInv, IInv, Leaving
      <4>2. Leases = RolloutLeases
        BY <4>1 DEF Leases, RolloutLeases
      <4> QED BY <3>1, <4>2 DEF EngineServed
    <3>3. o \in VllmOffload(backend)
      BY <2>1, <2>4, <3>2 DEF Offloaded, WithLease
    <3>4. Offloads(backend, backend')
      BY <1>1, <1>2, <2>1, <3>3, OffloadTyped
    <3> QED BY <1>1, <1>2, <1>4, <3>1, <3>4 DEF Offloads, VllmTyped
  <2> QED BY <1>1, <2>3, <2>4 DEF BackendTyped
<1> QED BY <1>3, <1>4

LEMMA WakeBackend == ASSUME TypeInv, Wake PROVE BackendTyped'
<1>1. /\ UNCHANGED <<config, registered>> /\ phase \in {"waking", "wakingFailed"}
      /\ phase' \in {"activating", "raised"} /\ config \in Configs
  BY DEF Wake, TypeInv, ServeInv, IInv
<1>2. Shared' = Shared /\ Teardown' = Teardown /\ Typed(backend) /\ SyncTyped
  BY <1>1 DEF Shared, Teardown, TypeInv
<1>3. CASE ~Shared
  <2>1. backend' = backend
    BY <1>3, Projections DEF Wake
  <2>2. SyncTyped' /\ Typed(backend)'
    BY <1>1, <1>2, <2>1 DEF SyncTyped
  <2> QED BY <1>1, <1>2, <1>3, <2>1, <2>2 DEF BackendTyped, TypeInv, VllmTyped
<1>4. CASE Shared
  <2>1. PICK o \in Woken : backend' = o.b /\ (phase' = "activating" => o.ok)
    BY <1>4 DEF Wake
  <2>2. config.backend = "vllm" => Rests(backend)
    BY <1>1, Rested
  <2>3. Typed(o.b) /\ SameSync(backend, o.b) /\ o.b.active = backend.active
    BY <1>1, <1>2, <2>2, MovedTyped
  <2>4. Typed(backend') /\ SyncTyped'
    BY <1>1, <1>2, <2>1, <2>3 DEF SyncTyped, SameSync
  <2>5. ASSUME config.backend = "vllm" PROVE VllmTyped'
    <3>1. o \in VllmWake(backend) \/ (o.b = backend /\ ~o.ok)
      <4>1. o \in VllmWake(backend) \/ o = Raised(backend)
        BY <2>1, <2>5 DEF Woken, WithLease
      <4> QED BY <4>1, Projections
    <3>2. Follows(backend, backend') /\ (o.ok => ~backend'.offloaded)
      BY <1>2, <2>1, <2>2, <2>5, <3>1, VllmWakeFollows DEF Follows, SameSync
    <3> QED BY <1>1, <1>2, <1>4, <2>1, <2>2, <2>5, <3>2 DEF TypeInv, VllmTyped, Follows, Rests
  <2> QED BY <1>1, <2>4, <2>5 DEF BackendTyped
<1> QED BY <1>3, <1>4

LEMMA NextTypeInv == ASSUME TypeInv, [Next]_vars PROVE TypeInv'
<1>1. ServeInv'
  BY NextServeInv DEF TypeInv
<1>2. LoopTyped'
  BY NextLoopTyped
<1>3. BackendTyped'
  <2>1. CASE Activate \/ OthersRaise
    BY <2>1, ActivateBackend
  <2>2. CASE Offload
    BY <2>2, OffloadBackend
  <2>3. CASE StartSync \/ SendWeights \/ FinishSync
    BY <2>3, SyncBackend
  <2>4. CASE Wake
    BY <2>4, WakeBackend
  <2>5. CASE \/ Generate \/ GenerateRaises \/ GrantTrainer \/ Export
             \/ WindowRaises \/ GrantRollout \/ RunAgain \/ UNCHANGED vars
    <3>1. /\ UNCHANGED <<config, backend>> /\ registered \subseteq registered'
          /\ phase' \in {"raised", "serving"} => phase \in {"raised", "serving"}
          /\ phase' \notin {"raised", "serving"} =>
               phase \notin {"raised", "serving"} \/ phase' = phase
      BY <2>5 DEF Generate, GenerateRaises, GrantTrainer, Export, WindowRaises, GrantRollout,
                  RunAgain, vars
    <3>2. Shared' = Shared /\ Teardown' = Teardown
      BY <3>1 DEF Shared, Teardown
    <3>3. Typed(backend)' /\ SyncTyped'
      BY <3>1 DEF TypeInv, SyncTyped
    <3>4. config.backend = "vllm" => VllmTyped'
      BY <3>1, <3>2 DEF TypeInv, VllmTyped
    <3> QED BY <3>1, <3>3, <3>4 DEF BackendTyped
  <2> QED BY <2>1, <2>2, <2>3, <2>4, <2>5 DEF Next
<1> QED BY <1>1, <1>2, <1>3 DEF TypeInv, BackendTyped

\* The actor and its backend keep to their types through any calls and
\* failures; and a vLLM engine that is to wake has a weight to wake with
\* (vllm_backend.py wake_for_rollout, offload_for_training).
WokenWithWeight ==
  config.backend = "vllm" /\ phase \in {"waking", "wakingFailed", "activating"} => Rests(backend)

THEOREM ReplicaTypeCorrect == Spec => [](TypeOK /\ WokenWithWeight)
<1>1. TypeInv => TypeOK
  <2> SUFFICES ASSUME TypeInv PROVE TypeOK
    OBVIOUS
  <2>1. /\ version \in Nat /\ exported \in {version, version + 1} /\ config \in Configs
        /\ leaseRole \in {"rollout", "trainer"}
    BY DEF TypeInv, ServeInv, IInv, FlagInv, Course
  <2>2. version \in Versions /\ version <= exported
    BY <2>1, Markers DEF TypeInv, LoopTyped, Versions
  <2>3. /\ backend.engine \in Versions \union {NoVersion, Torn}
        /\ backend.active \in Versions \union {NoVersion}
        /\ backend.pending \in Versions \union {NoVersion}
        /\ backend.engine = NoVersion => ~backend.onGpu
    BY DEF TypeInv, Typed, Backends
  <2> QED BY <2>1, <2>2, <2>3 DEF TypeOK, TypeInv, LoopTyped, SyncTyped
<1>2. TypeInv => WokenWithWeight
  BY Rested DEF WokenWithWeight
<1> QED BY <1>1, <1>2, InitTypeInv, NextTypeInv, PTL DEF Spec
=============================================================================
