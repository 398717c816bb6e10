------------------------ MODULE LocalControllerProofs ------------------------
(***************************************************************************)
(* The local controller, for any GPUs, replicas, prompts and number of     *)
(* iterations, however many of them raise.  Each invariant is of what an   *)
(* iteration finds and leaves behind: VersionInv of the versions of        *)
(* registry and roles, GpuInv of the GPUs, RoomInv of the samples, which   *)
(* needs the first and OneBatch, ExportInv of the ranks' train steps,      *)
(* Slots of what the replicas owe, and Course of the phases.  With them    *)
(* every step is a step of the queue, of the registry and of the residency *)
(* manager as they are specified, so that what is proved of each of them   *)
(* under any caller holds of it in the loop.                               *)
(***************************************************************************)
EXTENDS LocalController, FiniteSetTheorems, TLAPS

-----------------------------------------------------------------------------
(* Versions.  The next version is the only one that can have failed, the   *)
(* one an iteration exports, and the one it activates.                     *)

NextVersion == IF latestActive = NoVersion THEN 0 ELSE latestActive + 1

Numbered ==
  /\ pc \in Phases /\ iteration \in 0..MaxIterations
  /\ latestActive \in 0..MaxIterations \cup {NoVersion}
  /\ NextVersion <= iteration + 1
  /\ pc # "idle" => iteration >= 1 /\ NextVersion <= iteration
  /\ pc \in {"pump", "enter", "reserve", "optimize", "return"} => latestActive # NoVersion
  /\ pc = "bootstrap" => latestActive = NoVersion
  /\ pc = "return" => target \in {NoVersion, NextVersion}
  /\ pc \in {"begin_activation", "activate"} => target = NextVersion

\* Where the activation of the next version is.
Activating ==
  /\ status = [v \in 0..MaxIterations |-> status[v]]
  /\ \A v \in 0..MaxIterations : status[v] = "FAILED" => v = NextVersion
  /\ at \in Nat
  /\ pc = "activate" =>
       /\ at < Len(ReplicaOrder) /\ status[target] = "ACTIVATING"
       /\ activation = [version |-> target, required |-> Replicas,
                        acked |-> {ReplicaOrder[i] : i \in 1..at}]

Serving ==
  /\ roleVersion = [p \in Replicas |-> roleVersion[p]]
  /\ paused \in BOOLEAN
  /\ paused => pc = "activate" \/ SomeFailed
  /\ ~SomeFailed /\ pc # "activate" => \A p \in Replicas : roleVersion[p] = latestActive
  /\ ~SomeFailed /\ pc = "activate" =>
       \A i \in DOMAIN ReplicaOrder :
         roleVersion[ReplicaOrder[i]] = IF i <= at THEN target ELSE latestActive

VersionInv == Numbered /\ Activating /\ Serving

-----------------------------------------------------------------------------
LEMMA Limits ==
  /\ MaxIterations \in Nat \ {0} /\ MaxPrompts \in Nat \ {0} /\ HighWatermark \in Nat \ {0}
  /\ NoVersion \notin 0..MaxIterations
  /\ Len(RankGpus) \in Nat /\ Len(ReplicaOrder) \in Nat \ {0}
  /\ DOMAIN RankGpus = 1..Len(RankGpus) /\ DOMAIN ReplicaOrder = 1..Len(ReplicaOrder)
<1>1. Queue!QueueAssumption /\ Registry!RegistryAssumption
  BY PartsAssumption
<1>2. HighWatermark \in Nat \ {0} /\ NoVersion \notin 0..MaxIterations
  BY <1>1 DEF Queue!QueueAssumption, Registry!RegistryAssumption
<1>3. RankGpus \in Seq(Shared) /\ ReplicaOrder \in Seq(Replicas) /\ ReplicaOrder # <<>>
  BY ControllerAssumption
<1> QED BY <1>2, <1>3, ControllerAssumption

LEMMA InitVersions == Init => VersionInv
<1> SUFFICES ASSUME Init PROVE VersionInv
  OBVIOUS
<1>1. /\ pc = "idle" /\ iteration = 0 /\ latestActive = NoVersion /\ at = 0 /\ paused = FALSE
      /\ status = [v \in 0..MaxIterations |-> "absent"]
      /\ roleVersion = [p \in Replicas |-> NoVersion]
  BY DEF Init, Registry!RegistryInit
<1>2. NextVersion = 0
  BY <1>1 DEF NextVersion
<1>3. Numbered
  BY <1>1, <1>2, Limits DEF Numbered, Phases
<1>4. Activating
  BY <1>1 DEF Activating
<1>5. Serving
  BY <1>1 DEF Serving
<1> QED BY <1>3, <1>4, <1>5 DEF VersionInv

-----------------------------------------------------------------------------
\* Off the activation nothing but the registry and the roles counts.
LEMMA OffActivation ==
  ASSUME VersionInv, pc # "activate", pc' # "activate", at' \in Nat,
         UNCHANGED <<latestActive, status, roleVersion, paused>>
  PROVE  Activating' /\ Serving'
<1>1. NextVersion' = NextVersion /\ (SomeFailed' <=> SomeFailed)
  BY DEF NextVersion, SomeFailed
<1>2. Activating'
  BY <1>1 DEF VersionInv, Activating
<1>3. Serving'
  BY <1>1 DEF VersionInv, Serving
<1> QED BY <1>2, <1>3

LEMMA NumbersStay ==
  ASSUME VersionInv, pc # "idle", UNCHANGED <<iteration, latestActive>>,
         pc' \in Phases,
         pc' \in {"pump", "enter", "reserve", "optimize", "return"} => latestActive # NoVersion,
         pc' = "bootstrap" => latestActive = NoVersion,
         pc' = "return" => target' \in {NoVersion, NextVersion},
         pc' \in {"begin_activation", "activate"} => target' = NextVersion
  PROVE  Numbered'
<1>1. NextVersion' = NextVersion
  BY DEF NextVersion
<1> QED BY <1>1 DEF VersionInv, Numbered

LEMMA BeginVersions == ASSUME VersionInv, NEW n \in 1..MaxPrompts, Begin(n) PROVE VersionInv'
<1>1. /\ pc = "idle" /\ iteration < MaxIterations /\ iteration' = iteration + 1
      /\ UNCHANGED <<at, latestActive, status, roleVersion, paused>>
      /\ IF latestActive = NoVersion THEN pc' = "bootstrap" ELSE pc' = "pump"
  BY DEF Begin, roleVars, registryVars
<1>2. Activating' /\ Serving'
  <2>1. at' \in Nat /\ pc' # "activate"
    BY <1>1 DEF VersionInv, Activating
  <2> QED BY <1>1, <2>1, OffActivation
<1>3. Numbered'
  <2>1. NextVersion' = NextVersion
    BY <1>1 DEF NextVersion
  <2>2. iteration \in Nat /\ iteration' \in 1..MaxIterations /\ pc' \in {"bootstrap", "pump"}
    BY <1>1, Limits DEF VersionInv, Numbered
  <2>3. NextVersion <= iteration'
    BY <1>1, <2>2 DEF VersionInv, Numbered
  <2>0. MaxIterations \in Nat
    BY Limits
  <2>4. latestActive \in Nat \/ latestActive = NoVersion
    <3>1. latestActive \in 0..MaxIterations \cup {NoVersion}
      BY DEF VersionInv, Numbered
    <3> QED BY <2>0, <3>1
  <2>5. NextVersion \in Nat
    BY <2>4 DEF NextVersion
  <2>6. /\ pc' \in Phases /\ latestActive' = latestActive
        /\ latestActive \in 0..MaxIterations \cup {NoVersion}
        /\ pc' = "pump" => latestActive # NoVersion
        /\ pc' = "bootstrap" => latestActive = NoVersion
    BY <1>1, <2>2 DEF VersionInv, Numbered, Phases
  <2>7. iteration' \in 0..MaxIterations /\ iteration' >= 1
    BY <2>0, <2>2
  <2>8. NextVersion <= iteration' + 1
    <3>1. iteration' \in Nat
      BY <2>0, <2>2
    <3>2. \A a, b \in Nat : a <= b => a <= b + 1
      OBVIOUS
    <3> QED BY <2>3, <2>5, <3>1, <3>2, Zenon
  <2> QED BY <2>1, <2>2, <2>3, <2>6, <2>7, <2>8 DEF Numbered
<1> QED BY <1>2, <1>3 DEF VersionInv

\* What a step does that no version is concerned by.
LEMMA PumpVersions ==
  ASSUME VersionInv, Dispatch \/ PumpEnds \/ Generate \/ PumpRaises
  PROVE  VersionInv'
<1>1. /\ pc = "pump" /\ pc' \in {"pump", "enter", "idle"} /\ at' \in {at, 0}
      /\ UNCHANGED <<iteration, latestActive, status, roleVersion, paused>>
  BY DEF Dispatch, PumpEnds, Generate, PumpRaises, Raises, Goto, dataVars, roleVars,
         registryVars, managerVars
<1>2. Activating' /\ Serving'
  <2>1. at' \in Nat
    BY <1>1 DEF VersionInv, Activating
  <2> QED BY <1>1, <2>1, OffActivation
<1>3. Numbered'
  <2>1. latestActive # NoVersion
    BY <1>1 DEF VersionInv, Numbered
  <2> QED BY <1>1, <2>1, NumbersStay DEF Phases
<1> QED BY <1>2, <1>3 DEF VersionInv

LEMMA EnterVersions ==
  ASSUME VersionInv, EnterNext \/ EnterRaises \/ Entered
  PROVE  VersionInv'
<1>1. /\ pc = "enter" /\ pc' \in {"enter", "reserve", "idle"} /\ at' \in {at + 1, 0}
      /\ UNCHANGED <<iteration, latestActive, status, roleVersion, paused>>
  BY DEF EnterNext, EnterRaises, Entered, Raises, Goto, NextTurn, dataVars, roleVars,
         registryVars, managerVars
<1>2. Activating' /\ Serving'
  <2>1. at' \in Nat
    BY <1>1 DEF VersionInv, Activating
  <2> QED BY <1>1, <2>1, OffActivation
<1>3. Numbered'
  <2>1. latestActive # NoVersion
    BY <1>1 DEF VersionInv, Numbered
  <2> QED BY <1>1, <2>1, NumbersStay DEF Phases
<1> QED BY <1>2, <1>3 DEF VersionInv

LEMMA TrainVersions ==
  ASSUME VersionInv, Reserve \/ Optimize \/ WindowRaises
  PROVE  VersionInv'
<1>1. /\ pc \in {"reserve", "optimize"} /\ pc' \in {"optimize", "return"} /\ at' \in {at + 1, 0}
      /\ pc' = "return" => target' = NoVersion
      /\ UNCHANGED <<iteration, latestActive, status, roleVersion, paused>>
  BY DEF Reserve, Optimize, WindowRaises, Abandon, Goto, NextTurn, dataVars, roleVars,
         registryVars, managerVars
<1>2. Activating' /\ Serving'
  <2>1. at' \in Nat
    BY <1>1 DEF VersionInv, Activating
  <2> QED BY <1>1, <2>1, OffActivation
<1>3. Numbered'
  <2>1. latestActive # NoVersion
    BY <1>1 DEF VersionInv, Numbered
  <2> QED BY <1>1, <2>1, NumbersStay DEF Phases
<1> QED BY <1>2, <1>3 DEF VersionInv

LEMMA ReturnVersions ==
  ASSUME VersionInv, ReturnNext \/ ReturnRaises \/ Returned
  PROVE  VersionInv'
<1>0. at' \in {at + 1, 0}
  BY DEF ReturnNext, ReturnRaises, Returned, Raises, Goto, NextTurn
<1>1. /\ pc = "return"
      /\ UNCHANGED <<iteration, latestActive, status, roleVersion, paused>>
      /\ \/ pc' = "return" /\ target' \in {target, NoVersion}
         \/ pc' = "begin_activation" /\ target # NoVersion /\ target' = target
         \/ pc' = "idle"
  BY DEF ReturnNext, ReturnRaises, Returned, Raises, Goto, NextTurn, dataVars, roleVars,
         registryVars, managerVars
<1>2. Activating' /\ Serving'
  <2>1. at' \in Nat
    BY <1>0 DEF VersionInv, Activating
  <2> QED BY <1>1, <2>1, OffActivation
<1>3. Numbered'
  <2>1. target \in {NoVersion, NextVersion} /\ latestActive # NoVersion
    BY <1>1 DEF VersionInv, Numbered
  <2> QED BY <1>1, <2>1, NumbersStay DEF Phases
<1> QED BY <1>2, <1>3 DEF VersionInv

LEMMA StandingVersions ==
  ASSUME VersionInv, UNCHANGED <<pc, iteration, target, at, latestActive, status, activation,
                                 roleVersion, paused>>
  PROVE  VersionInv'
<1>1. NextVersion' = NextVersion /\ (SomeFailed' <=> SomeFailed)
  BY DEF NextVersion, SomeFailed
<1> QED BY <1>1 DEF VersionInv, Numbered, Activating, Serving

\* A registration makes no version failed and none active.
LEMMA RegisterVersions ==
  ASSUME VersionInv, pc # "activate", pc' # "activate", at' \in Nat, NEW v, NEW c,
         Registry!Register(v, c), UNCHANGED <<roleVersion, paused>>
  PROVE  Activating' /\ Serving' /\ latestActive' = latestActive
<1>1. latestActive' = latestActive
  BY DEF Registry!Register, Registry!registryVars
<1>2. /\ status' = [u \in 0..MaxIterations |-> status'[u]]
      /\ \A u \in 0..MaxIterations : status'[u] = "FAILED" <=> status[u] = "FAILED"
  <2>1. status = [u \in 0..MaxIterations |-> status[u]]
    BY DEF VersionInv, Activating
  <2>2. CASE UNCHANGED status
    BY <2>1, <2>2
  <2>3. CASE status[v] = "absent" /\ status' = [status EXCEPT ![v] = "REGISTERED"]
    BY <2>1, <2>3
  <2> QED BY <2>2, <2>3 DEF Registry!Register, Registry!Registered, Registry!registryVars
<1>3. NextVersion' = NextVersion /\ (SomeFailed' <=> SomeFailed)
  BY <1>1, <1>2 DEF NextVersion, SomeFailed
<1>4. Activating'
  BY <1>2, <1>3 DEF VersionInv, Activating
<1>5. Serving'
  BY <1>1, <1>3 DEF VersionInv, Serving
<1> QED BY <1>1, <1>4, <1>5

LEMMA BootstrapVersions == ASSUME VersionInv, Bootstrap PROVE VersionInv'
<1>1. /\ pc = "bootstrap" /\ pc' = "begin_activation" /\ at' = 0 /\ target' = 0
      /\ Registry!Register(0, ChecksumOf[0]) /\ UNCHANGED <<iteration, roleVersion, paused>>
  BY DEF Bootstrap, Goto, roleVars, managerVars
<1>2. Activating' /\ Serving' /\ latestActive' = latestActive
  BY <1>1, RegisterVersions
<1>3. NextVersion = 0
  BY <1>1 DEF VersionInv, Numbered, NextVersion
<1>4. Numbered'
  BY <1>1, <1>2, <1>3, NumbersStay DEF Phases
<1> QED BY <1>2, <1>4 DEF VersionInv

LEMMA PublishVersions == ASSUME VersionInv, Publish PROVE VersionInv'
<1>1. /\ pc = "optimize" /\ pc' = "return" /\ at' = 0 /\ target' = NewVersion
      /\ Registry!Register(NewVersion, NewChecksum) /\ UNCHANGED <<iteration, roleVersion, paused>>
  BY DEF Publish, Goto, roleVars, managerVars
<1>2. Activating' /\ Serving' /\ latestActive' = latestActive
  BY <1>1, RegisterVersions
<1>3. NewVersion = NextVersion /\ latestActive # NoVersion
  BY <1>1 DEF VersionInv, Numbered, NextVersion, NewVersion
<1>4. Numbered'
  BY <1>1, <1>2, <1>3, NumbersStay DEF Phases
<1> QED BY <1>2, <1>4 DEF VersionInv

-----------------------------------------------------------------------------
\* The version activated is one of the versions.
LEMMA TargetInRange ==
  ASSUME VersionInv, pc \in {"begin_activation", "activate"}
  PROVE  /\ target = NextVersion /\ target \in 0..MaxIterations /\ target <= iteration
         /\ iteration \in 1..MaxIterations /\ target # NoVersion
<1>1. MaxIterations \in Nat /\ NoVersion \notin 0..MaxIterations
  BY Limits
<1>2. /\ target = NextVersion /\ NextVersion <= iteration /\ iteration >= 1
      /\ iteration \in 0..MaxIterations /\ latestActive \in 0..MaxIterations \cup {NoVersion}
  BY DEF VersionInv, Numbered
<1>3. NextVersion \in Nat
  BY <1>1, <1>2 DEF NextVersion
<1>4. target \in Nat /\ target <= iteration /\ iteration \in Nat /\ iteration <= MaxIterations
  BY <1>1, <1>2, <1>3
<1>5. target \in 0..MaxIterations
  BY <1>1, <1>4
<1> QED BY <1>1, <1>2, <1>4, <1>5

LEMMA BeginActivationVersions == ASSUME VersionInv, BeginActivation PROVE VersionInv'
<1>1. pc = "begin_activation" /\ paused' = TRUE /\ UNCHANGED roleVersion
  BY DEF BeginActivation, roleVars
<1>2. target = NextVersion /\ target \in 0..MaxIterations /\ at \in Nat
  BY <1>1, TargetInRange DEF VersionInv, Activating
<1>3. CASE Registry!BeginActivation(target, Replicas) /\ Goto("activate", target, 0)
  <2>1. /\ pc' = "activate" /\ at' = 0 /\ UNCHANGED <<target, iteration, latestActive>>
        /\ status[target] # "FAILED"
        /\ status' = [status EXCEPT ![target] = "ACTIVATING"]
        /\ activation' = [version |-> target, required |-> Replicas, acked |-> {}]
    BY <1>3 DEF Registry!BeginActivation, Goto
  <2>2. NextVersion' = NextVersion
    BY <2>1 DEF NextVersion
  <2>3. Numbered'
    BY <1>1, <1>2, <2>1, NumbersStay DEF Phases
  <2>4. status = [v \in 0..MaxIterations |-> status[v]]
    BY DEF VersionInv, Activating
  <2>5. /\ status' = [v \in 0..MaxIterations |-> status'[v]] /\ status'[target] = "ACTIVATING"
        /\ \A v \in 0..MaxIterations : status'[v] = "FAILED" => status[v] = "FAILED"
    BY <1>2, <2>1, <2>4
  <2>6. \A v \in 0..MaxIterations : status[v] # "FAILED"
    BY <1>2, <2>1 DEF VersionInv, Activating
  <2>7. ~SomeFailed /\ ~SomeFailed'
    BY <2>5, <2>6 DEF SomeFailed
  <2>8. activation' = [version |-> target', required |-> Replicas,
                       acked |-> {ReplicaOrder[i] : i \in 1..at'}]
    BY <2>1
  <2>9. Activating'
    <3>1. at' \in Nat /\ at' < Len(ReplicaOrder) /\ status'[target'] = "ACTIVATING"
      BY <2>1, <2>5, Limits
    <3>2. \A v \in 0..MaxIterations : status'[v] # "FAILED"
      BY <2>5, <2>6
    <3> QED BY <2>5, <2>8, <3>1, <3>2 DEF Activating
  <2>10. \A i \in DOMAIN ReplicaOrder : ReplicaOrder[i] \in Replicas /\ ~(i <= 0)
    BY Limits DEF Replicas
  <2>11. Serving'
    BY <1>1, <2>1, <2>7, <2>10 DEF VersionInv, Serving
  <2> QED BY <2>3, <2>9, <2>11 DEF VersionInv
<1>4. CASE status[target] = "FAILED" /\ Raises /\ UNCHANGED registryVars
  <2>1. pc' = "idle" /\ at' = 0 /\ UNCHANGED <<iteration, latestActive, status>>
    BY <1>4 DEF Raises, Goto, registryVars
  <2>2. Numbered'
    BY <1>1, <2>1, NumbersStay DEF Phases
  <2>3. NextVersion' = NextVersion /\ SomeFailed /\ SomeFailed'
    BY <1>2, <1>4, <2>1 DEF NextVersion, SomeFailed
  <2>4. Activating' /\ Serving'
    BY <1>1, <2>1, <2>3 DEF VersionInv, Activating, Serving
  <2> QED BY <2>2, <2>4 DEF VersionInv
<1> QED BY <1>3, <1>4 DEF BeginActivation

\* The replicas ack in their order, so that the last ack, and no earlier one,
\* completes the set.
LEMMA AcksInOrder ==
  ASSUME VersionInv, pc = "activate"
  PROVE  /\ at + 1 \in DOMAIN ReplicaOrder
         /\ Registry!Acked(ReplicaOrder[at + 1]) = {ReplicaOrder[i] : i \in 1..at + 1}
         /\ activation.required = Replicas
         /\ Registry!Acked(ReplicaOrder[at + 1]) = Replicas <=> at + 1 = Len(ReplicaOrder)
<1>1. /\ at \in Nat /\ at < Len(ReplicaOrder)
      /\ activation.required = Replicas /\ activation.acked = {ReplicaOrder[i] : i \in 1..at}
  BY DEF VersionInv, Activating
<1>2. at + 1 \in DOMAIN ReplicaOrder /\ DOMAIN ReplicaOrder = 1..Len(ReplicaOrder)
      /\ Len(ReplicaOrder) \in Nat
  BY <1>1, Limits
<1>3. Registry!Acked(ReplicaOrder[at + 1]) = {ReplicaOrder[i] : i \in 1..at + 1}
  <2>1. \A i : i \in 1..at + 1 <=> i \in 1..at \/ i = at + 1
    BY <1>1
  <2> QED BY <1>1, <2>1 DEF Registry!Acked
<1>4. ASSUME at + 1 = Len(ReplicaOrder) PROVE {ReplicaOrder[i] : i \in 1..at + 1} = Replicas
  BY <1>2, <1>4 DEF Replicas
<1>5. ASSUME at + 1 # Len(ReplicaOrder) PROVE {ReplicaOrder[i] : i \in 1..at + 1} # Replicas
  <2>1. at + 2 \in DOMAIN ReplicaOrder
    <3>1. at \in Nat /\ at < Len(ReplicaOrder)
      BY <1>1
    <3>2. \A n \in Nat : at < n /\ at + 1 # n => at + 2 \in 1..n
      BY <3>1
    <3> QED BY <1>2, <1>5, <3>1, <3>2
  <2>2. \A i \in 1..at + 1 : ReplicaOrder[i] # ReplicaOrder[at + 2]
    <3>1. \A i \in 1..at + 1 : i \in DOMAIN ReplicaOrder /\ i # at + 2
      BY <1>1, <1>2
    <3> QED BY <2>1, <3>1, ControllerAssumption
  <2>3. ReplicaOrder[at + 2] \in Replicas
    BY <2>1 DEF Replicas
  <2> QED BY <2>2, <2>3
<1> QED BY <1>1, <1>2, <1>3, <1>4, <1>5

LEMMA ActivateVersions == ASSUME VersionInv, pc = "activate", Activate PROVE VersionInv'
<1> DEFINE w == ReplicaOrder[at + 1]
<1>1. /\ at + 1 < Len(ReplicaOrder) /\ Registry!Ack(target, w)
      /\ roleVersion' = [roleVersion EXCEPT ![w] = target]
      /\ at' = at + 1 /\ UNCHANGED <<pc, iteration, target, paused>>
  BY DEF Activate, SwitchNext, NextTurn
<1>2. /\ at + 1 \in DOMAIN ReplicaOrder /\ at \in Nat
      /\ Registry!Acked(w) = {ReplicaOrder[i] : i \in 1..at + 1}
      /\ activation.required = Replicas /\ Registry!Acked(w) # Replicas
  BY <1>1, AcksInOrder, Limits DEF VersionInv, Activating
<1> HIDE DEF w
<1>3. /\ UNCHANGED <<status, latestActive>>
      /\ activation' = [activation EXCEPT !.acked = Registry!Acked(w)]
  BY <1>1, <1>2 DEF Registry!Ack
<1>4. NextVersion' = NextVersion /\ (SomeFailed' <=> SomeFailed)
  BY <1>3 DEF NextVersion, SomeFailed
<1>5. Numbered'
  BY <1>1, <1>3, <1>4 DEF VersionInv, Numbered
<1>6. Activating'
  <2>1. activation' = [version |-> target, required |-> Replicas,
                       acked |-> {ReplicaOrder[i] : i \in 1..at'}]
    <3>1. activation = [version |-> target, required |-> Replicas,
                        acked |-> {ReplicaOrder[i] : i \in 1..at}]
      BY DEF VersionInv, Activating
    <3>2. activation' = [version |-> target, required |-> Replicas, acked |-> Registry!Acked(w)]
      BY <1>3, <3>1
    <3> QED BY <1>1, <1>2, <3>2
  <2>2. at' \in Nat /\ at' < Len(ReplicaOrder)
    BY <1>1, <1>2
  <2> QED BY <1>1, <1>3, <1>4, <2>1, <2>2 DEF VersionInv, Activating
<1>7. Serving'
  <2>1. w \in Replicas /\ roleVersion = [p \in Replicas |-> roleVersion[p]]
    BY <1>2 DEF w, Replicas, VersionInv, Serving
  <2>2. /\ roleVersion' = [p \in Replicas |-> roleVersion'[p]] /\ roleVersion'[w] = target
        /\ \A p \in Replicas : p # w => roleVersion'[p] = roleVersion[p]
    BY <1>1, <2>1
  <2>3. ASSUME ~SomeFailed, NEW i \in DOMAIN ReplicaOrder
        PROVE  roleVersion'[ReplicaOrder[i]] = IF i <= at' THEN target ELSE latestActive
    <3>1. CASE i = at + 1
      BY <1>1, <1>2, <2>2, <3>1 DEF w
    <3>2. CASE i # at + 1
      <4>1. ReplicaOrder[i] # w /\ ReplicaOrder[i] \in Replicas
        BY <1>2, <3>2, ControllerAssumption DEF w, Replicas
      <4>2. i \in Nat /\ (i <= at + 1 <=> i <= at)
        BY <1>2, <3>2, Limits
      <4>3. roleVersion[ReplicaOrder[i]] = IF i <= at THEN target ELSE latestActive
        BY <1>1, <2>3 DEF VersionInv, Serving
      <4> QED BY <1>1, <2>2, <4>1, <4>2, <4>3
    <3> QED BY <3>1, <3>2
  <2> QED BY <1>1, <1>3, <1>4, <2>2, <2>3 DEF VersionInv, Serving
<1> QED BY <1>5, <1>6, <1>7 DEF VersionInv

LEMMA ActivateLastVersions ==
  ASSUME VersionInv, pc = "activate", ActivateLast
  PROVE  VersionInv' /\ latestActive' = NextVersion /\ ~SomeFailed
<1> DEFINE w == ReplicaOrder[at + 1]
<1>1. /\ at + 1 = Len(ReplicaOrder) /\ Registry!Ack(target, w)
      /\ roleVersion' = [roleVersion EXCEPT ![w] = target]
      /\ paused' = FALSE /\ at' = 0 /\ UNCHANGED iteration
      /\ IF target = 0 THEN pc' = "pump" ELSE pc' = "idle"
  BY DEF ActivateLast, SwitchNext, Goto, Resume
<1>2. /\ at + 1 \in DOMAIN ReplicaOrder /\ at \in Nat
      /\ Registry!Acked(w) = activation.required
  BY <1>1, AcksInOrder DEF VersionInv, Activating
<1> HIDE DEF w
<1>3. status' = [status EXCEPT ![target] = "ACTIVE_GLOBAL"] /\ latestActive' = target
  BY <1>1, <1>2 DEF Registry!Ack
<1>4. /\ target = NextVersion /\ target \in 0..MaxIterations /\ target <= iteration
      /\ iteration \in 1..MaxIterations /\ target # NoVersion
      /\ status[target] = "ACTIVATING" /\ status = [v \in 0..MaxIterations |-> status[v]]
  BY TargetInRange DEF VersionInv, Activating
<1>5. \A v \in 0..MaxIterations : status[v] # "FAILED"
  BY <1>4 DEF VersionInv, Activating
<1>6. /\ status' = [v \in 0..MaxIterations |-> status'[v]]
      /\ \A v \in 0..MaxIterations : status'[v] # "FAILED"
  BY <1>3, <1>4, <1>5
<1>7. ~SomeFailed /\ ~SomeFailed'
  BY <1>5, <1>6 DEF SomeFailed
<1>8. NextVersion' = target + 1
  BY <1>3, <1>4 DEF NextVersion
<1>9. Numbered'
  <2>1. /\ target \in Nat /\ iteration \in Nat /\ iteration >= 1 /\ iteration <= MaxIterations
        /\ target + 1 <= iteration + 1 /\ (target = 0 => target + 1 <= iteration)
        /\ iteration \in 0..MaxIterations
    BY <1>4, Limits
  <2>2. pc' \in {"pump", "idle"} /\ (pc' = "pump" => target = 0)
    BY <1>1
  <2> QED BY <1>1, <1>3, <1>4, <1>8, <2>1, <2>2 DEF Numbered, Phases
<1>10. Activating'
  BY <1>1, <1>6 DEF Activating
<1>11. Serving'
  <2>1. w \in Replicas /\ roleVersion = [p \in Replicas |-> roleVersion[p]]
    BY <1>2 DEF w, Replicas, VersionInv, Serving
  <2>2. /\ roleVersion' = [p \in Replicas |-> roleVersion'[p]] /\ roleVersion'[w] = target
        /\ \A p \in Replicas : p # w => roleVersion'[p] = roleVersion[p]
    BY <1>1, <2>1
  <2>3. ASSUME NEW p \in Replicas PROVE roleVersion'[p] = target
    <3>1. PICK i \in DOMAIN ReplicaOrder : p = ReplicaOrder[i]
      BY DEF Replicas
    <3>2. CASE p = w
      BY <2>2, <3>2
    <3>3. CASE p # w
      <4>1. i <= at
        BY <1>1, <1>2, <3>1, <3>3, Limits DEF w
      <4>2. roleVersion[p] = target
        BY <1>7, <3>1, <4>1 DEF VersionInv, Serving
      <4> QED BY <2>2, <3>3, <4>2
    <3> QED BY <3>2, <3>3
  <2> QED BY <1>1, <1>3, <1>7, <2>2, <2>3 DEF Serving
<1> QED BY <1>3, <1>4, <1>7, <1>9, <1>10, <1>11 DEF VersionInv

LEMMA ActivateRaisesVersions == ASSUME VersionInv, ActivateRaises PROVE VersionInv'
<1>1. /\ pc = "activate" /\ pc' = "idle" /\ at' = 0 /\ paused' = FALSE
      /\ Registry!MarkFailed(target) /\ UNCHANGED <<iteration, roleVersion>>
  BY DEF ActivateRaises, Raises, Goto, Resume, roleVars
<1>2. status' = [status EXCEPT ![target] = "FAILED"] /\ UNCHANGED latestActive
  BY <1>1 DEF Registry!MarkFailed
<1>3. target = NextVersion /\ target \in 0..MaxIterations
      /\ status = [v \in 0..MaxIterations |-> status[v]]
  BY <1>1, TargetInRange DEF VersionInv, Activating
<1>4. NextVersion' = NextVersion
  BY <1>2 DEF NextVersion
<1>5. /\ status' = [v \in 0..MaxIterations |-> status'[v]] /\ status'[target] = "FAILED"
      /\ \A v \in 0..MaxIterations : status'[v] = "FAILED" => v = target \/ status[v] = "FAILED"
  BY <1>2, <1>3
<1>6. SomeFailed'
  BY <1>3, <1>5 DEF SomeFailed
<1>7. Numbered'
  BY <1>1, <1>2, NumbersStay DEF Phases
<1>8. Activating'
  BY <1>1, <1>3, <1>4, <1>5 DEF VersionInv, Activating
<1>9. Serving'
  BY <1>1, <1>6 DEF VersionInv, Serving
<1> QED BY <1>7, <1>8, <1>9 DEF VersionInv

LEMMA NextVersions == VersionInv /\ [Next]_vars => VersionInv'
<1> SUFFICES ASSUME VersionInv, [Next]_vars PROVE VersionInv'
  OBVIOUS
<1>1. CASE UNCHANGED vars
  BY <1>1, StandingVersions DEF vars, controlVars, dataVars, managerVars, roleVars, registryVars
<1>2. CASE HookReturns \/ Tick
  BY <1>2, StandingVersions DEF HookReturns, Tick, controlVars, managerVars, roleVars, registryVars
<1>3. CASE \E n \in 1..MaxPrompts : Begin(n)
  BY <1>3, BeginVersions
<1>4. CASE Dispatch \/ PumpEnds \/ Generate \/ PumpRaises \/ EnterNext \/ EnterRaises \/ Entered
           \/ Reserve \/ Optimize \/ WindowRaises \/ ReturnNext \/ ReturnRaises \/ Returned
  BY <1>4, PumpVersions, EnterVersions, TrainVersions, ReturnVersions
<1>5. CASE Bootstrap \/ Publish \/ BeginActivation \/ ActivateRaises
  BY <1>5, BootstrapVersions, PublishVersions, BeginActivationVersions, ActivateRaisesVersions
<1>6. CASE Activate \/ ActivateLast
  BY <1>6, ActivateVersions, ActivateLastVersions DEF Activate, ActivateLast, SwitchNext
<1> QED BY <1>1, <1>2, <1>3, <1>4, <1>5, <1>6 DEF Next, Controller

(***************************************************************************)
(* Between iterations every replica serves the version the registry calls  *)
(* active and the manager takes requests, unless an activation failed.     *)
(***************************************************************************)
THEOREM RolesServeTheActive == Spec => []ServesActive
<1>1. VersionInv => ServesActive
  BY DEF VersionInv, Serving, ServesActive
<1> QED BY <1>1, InitVersions, NextVersions, PTL DEF Spec

\* Only the last ack of an activation makes a version the active one.
LEMMA OnlyLastActivates ==
  ASSUME VersionInv, [Next]_vars, ~ActivateLast
  PROVE  latestActive' = latestActive
<1>1. CASE Activate
  <2>1. pc = "activate" /\ Registry!Ack(target, ReplicaOrder[at + 1])
        /\ at + 1 < Len(ReplicaOrder)
    BY <1>1 DEF Activate, SwitchNext
  <2>2. Registry!Acked(ReplicaOrder[at + 1]) # activation.required
    <3>1. at + 1 # Len(ReplicaOrder)
      BY <2>1, Limits DEF VersionInv, Activating
    <3> QED BY <2>1, <3>1, AcksInOrder
  <2> QED BY <2>1, <2>2 DEF Registry!Ack
<1>2. CASE ~Activate
  <2>1. CASE UNCHANGED registryVars
    BY <2>1 DEF registryVars
  <2>2. CASE Bootstrap \/ Publish \/ BeginActivation \/ ActivateRaises
    BY <2>2 DEF Bootstrap, Publish, BeginActivation, ActivateRaises, Registry!Register,
                Registry!registryVars, Registry!BeginActivation, Registry!MarkFailed, registryVars
  <2> QED BY <1>2, <2>1, <2>2
        DEF Next, Controller, vars, dataVars, HookReturns, Tick, Begin, Dispatch, PumpEnds,
            Generate, PumpRaises, EnterNext, EnterRaises, Entered, Reserve, Optimize,
            WindowRaises, ReturnNext, ReturnRaises, Returned
<1> QED BY <1>1, <1>2

LEMMA ActiveMoves ==
  ASSUME VersionInv, [Next]_vars, latestActive' # latestActive
  PROVE  latestActive' = NextVersion /\ ~SomeFailed
<1>1. pc = "activate" /\ ActivateLast
  BY OnlyLastActivates DEF ActivateLast, SwitchNext
<1> QED BY <1>1, ActivateLastVersions

(***************************************************************************)
(* Versions become active in order, and none after one that failed.        *)
(***************************************************************************)
THEOREM HistoryHasNoGap == Spec => NoGapInHistory
<1>1. VersionInv /\ [Next]_vars =>
        [latestActive' # latestActive =>
           /\ latestActive' = IF latestActive = NoVersion THEN 0 ELSE latestActive + 1
           /\ ~SomeFailed]_vars
  BY ActiveMoves DEF NextVersion
<1> QED BY <1>1, InitVersions, NextVersions, PTL DEF Spec, NoGapInHistory

-----------------------------------------------------------------------------
(* GPUs.  Unless a toggle failed, an iteration takes them one by one to    *)
(* the trainer and one by one back.                                        *)

InRole(g, role) ==
  /\ IF role = "rollout" THEN WithRollout(g) ELSE WithTrainer(g)
  /\ residency[g] = Residency!Active(role)
  /\ resident[g] = {role}

AllIn(role) == \A i \in DOMAIN RankGpus : InRole(Gpu(i), role)

NextHolder(g, from) == IF from = "rollout" THEN RankHolder[g] ELSE FirstHolder[g]

\* The hook that runs on g, and what it finds there.
Crossing(g, from) ==
  /\ call.token.gpu = g /\ call.next = NextHolder(g, from)
  /\ \/ /\ call.hook = "offload" /\ call.token.role = from
        /\ resident[g] = {from}
     \/ /\ call.hook = "hydrate" /\ call.token.role = Residency!Other(from)
        /\ resident[g] = {}
        /\ Residency!Holds(g, Residency!Other(from), NextHolder(g, from))

Along(from) ==
  \A i \in DOMAIN RankGpus :
    /\ i < at \/ (i = at /\ call = NoCall) => InRole(Gpu(i), Residency!Other(from))
    /\ i = at /\ call # NoCall => Crossing(Gpu(i), from)
    /\ i > at => InRole(Gpu(i), from)

\* The second return of an iteration without a batch finds the GPUs returned.
GpuPhases ==
  /\ pc = "enter" => Along("rollout")
  /\ pc \in {"reserve", "optimize"} => AllIn("trainer")
  /\ pc = "return" => Along("trainer") \/ (AllIn("rollout") /\ at = 0)
  /\ pc \notin {"enter", "reserve", "optimize", "return"} => AllIn("rollout")

Calls ==
  /\ residency = [g \in Shared |-> residency[g]] /\ resident = [g \in Shared |-> resident[g]]
  /\ lease = [g \in Gpus |-> lease[g]] /\ \A g \in Gpus : lease[g].failed = FALSE /\ lease[g].epoch \in Nat
  /\ at \in Nat /\ (pc \in {"enter", "return"} => at <= Len(RankGpus))
  /\ call # NoCall =>
       /\ pc \in {"enter", "return"} /\ at # 0
       /\ call \in Residency!Call /\ call.token.gpu \in Shared
       /\ residency[call.token.gpu] # "DEGRADED"

GpuInv == pc \in Phases /\ Calls /\ (ToggleFailed \/ GpuPhases)

LEMMA RankFacts ==
  /\ \A i \in DOMAIN RankGpus : Gpu(i) \in Shared /\ i \in Nat /\ i >= 1
  /\ \A i, j \in DOMAIN RankGpus : Gpu(i) = Gpu(j) => i = j
  /\ \A g \in Shared : \E i \in DOMAIN RankGpus : Gpu(i) = g
  /\ DOMAIN RankGpus = 1..Len(RankGpus) /\ Len(RankGpus) \in Nat
<1>1. RankGpus \in Seq(Shared)
  BY ControllerAssumption
<1> QED BY <1>1, ControllerAssumption DEF Gpu

LEMMA SharedFacts ==
  /\ \A g \in Shared : /\ g \in Gpus /\ RankHolder[g] \in Holders /\ FirstHolder[g] \in Holders
                       /\ "rollout" \in Supported[g] /\ "trainer" \in Supported[g]
  /\ NoCall \notin Residency!Call
  /\ Residency!Roles = {"rollout", "trainer"}
<1>1. Residency!LeaseAssumption /\ NoCall \notin Residency!Call
  BY PartsAssumption DEF Residency!ResidencyAssumption
<1>2. \A g \in Shared : g \in Gpus /\ "trainer" \in Supported[g]
  BY DEF Shared, Residency!Shared
<1>3. Residency!Roles = {"rollout", "trainer"}
  BY DEF Residency!Roles
<1> QED BY <1>1, <1>2, <1>3, ControllerAssumption DEF Residency!LeaseAssumption

LEMMA InitGpus == Init => GpuInv
<1> SUFFICES ASSUME Init PROVE GpuInv
  OBVIOUS
<1>1. /\ pc = "idle" /\ at = 0 /\ call = NoCall
      /\ residency = [g \in Shared |-> "ROLLOUT_ACTIVE"]
      /\ resident = [g \in Shared |-> {"rollout"}]
  BY DEF Init, Residency!Init, Shared
<1>2. /\ lease = [g \in Gpus |-> lease[g]]
      /\ \A g \in Gpus : lease[g].failed = FALSE /\ lease[g].epoch \in Nat
      /\ \A g \in Shared : lease[g].role = "rollout" /\ lease[g].holder = FirstHolder[g]
  BY SharedFacts DEF Init, Residency!Init, Residency!LeaseInit
<1>3. Calls
  BY <1>1, <1>2 DEF Calls
<1>4. AllIn("rollout")
  BY <1>1, <1>2, RankFacts DEF AllIn, InRole, WithRollout, Residency!Holds, Residency!Active
<1> QED BY <1>1, <1>3, <1>4 DEF GpuInv, GpuPhases, Phases

-----------------------------------------------------------------------------
\* A step that leaves the GPUs alone: only where the iteration is may change.
LEMMA GpusStay ==
  ASSUME UNCHANGED gpuVars
  PROVE  /\ \A g : InRole(g, "rollout")' <=> InRole(g, "rollout")
         /\ \A g : InRole(g, "trainer")' <=> InRole(g, "trainer")
         /\ AllIn("rollout")' <=> AllIn("rollout")
         /\ AllIn("trainer")' <=> AllIn("trainer")
         /\ ToggleFailed' <=> ToggleFailed
<1>1. UNCHANGED <<lease, residency, resident>>
  BY DEF gpuVars
<1>2. /\ \A g : InRole(g, "rollout")' <=> InRole(g, "rollout")
      /\ \A g : InRole(g, "trainer")' <=> InRole(g, "trainer")
  BY <1>1 DEF InRole, WithRollout, WithTrainer, Residency!Holds
<1> QED BY <1>1, <1>2 DEF AllIn, ToggleFailed

LEMMA PhaseMoves ==
  ASSUME GpuInv, UNCHANGED gpuVars, call = NoCall, pc' \in Phases, at' \in Nat,
         pc' \in {"enter", "return"} => at' <= Len(RankGpus),
         ~ToggleFailed => GpuPhases'
  PROVE  GpuInv'
<1>1. UNCHANGED <<lease, residency, resident, call>>
  BY DEF gpuVars
<1>2. Calls'
  BY <1>1 DEF GpuInv, Calls
<1> QED BY <1>2, GpusStay DEF GpuInv

\* A loop over the GPUs begins where all are in one role.
LEMMA LoopBegins ==
  ASSUME call' = NoCall, at' = 0
  PROVE  /\ AllIn("rollout")' => Along("rollout")'
         /\ AllIn("trainer")' => Along("trainer")'
<1>1. \A i \in DOMAIN RankGpus : ~(i < at') /\ i # at'
  BY RankFacts
<1> QED BY <1>1 DEF AllIn, Along

LEMMA LoopEnds ==
  ASSUME call = NoCall, at = Len(RankGpus)
  PROVE  /\ Along("rollout") => AllIn("trainer")
         /\ Along("trainer") => AllIn("rollout")
<1>1. \A i \in DOMAIN RankGpus : i < at \/ i = at
  BY RankFacts
<1>2. Residency!Other("rollout") = "trainer" /\ Residency!Other("trainer") = "rollout"
  BY DEF Residency!Other
<1> QED BY <1>1, <1>2 DEF AllIn, Along

\* No call runs outside the loops over the GPUs.
LEMMA NoCallOutside ==
  ASSUME GpuInv, pc \notin {"enter", "return"}
  PROVE  call = NoCall
BY DEF GpuInv, Calls

LEMMA RolloutPhases ==
  ASSUME GpuInv, UNCHANGED gpuVars, at' \in Nat,
         pc \notin {"enter", "reserve", "optimize", "return"},
         pc' \in Phases \ {"enter", "reserve", "optimize", "return"}
  PROVE  GpuInv'
<1>1. call = NoCall
  BY NoCallOutside
<1>2. ~ToggleFailed => GpuPhases'
  BY GpusStay DEF GpuInv, GpuPhases
<1> QED BY <1>1, <1>2, PhaseMoves

LEMMA RolloutStepGpus ==
  ASSUME GpuInv,
         \/ \E n \in 1..MaxPrompts : Begin(n)
         \/ Bootstrap \/ Dispatch \/ Generate \/ PumpRaises
         \/ BeginActivation \/ (pc = "activate" /\ Activate)
         \/ (pc = "activate" /\ ActivateLast) \/ ActivateRaises
  PROVE  GpuInv'
<1>1. at' \in {at, 0, at + 1} /\ UNCHANGED gpuVars
  BY DEF Begin, Bootstrap, Dispatch, Generate, PumpRaises, BeginActivation, Activate, ActivateLast,
         SwitchNext, ActivateRaises, Raises, Goto, NextTurn, dataVars
<1>2. /\ pc \in {"idle", "bootstrap", "pump", "begin_activation", "activate"}
      /\ pc' \in {"idle", "bootstrap", "pump", "begin_activation", "activate"}
  BY DEF Begin, Bootstrap, Dispatch, Generate, PumpRaises, BeginActivation, Activate, ActivateLast,
         SwitchNext, ActivateRaises, Raises, Goto, NextTurn
<1>3. at' \in Nat
  BY <1>1 DEF GpuInv, Calls
<1> QED BY <1>1, <1>2, <1>3, RolloutPhases DEF Phases

LEMMA PumpEndsGpus == ASSUME GpuInv, PumpEnds PROVE GpuInv'
<1>1. pc = "pump" /\ pc' = "enter" /\ at' = 0 /\ UNCHANGED gpuVars
  BY DEF PumpEnds, Goto, dataVars
<1>2. call = NoCall /\ call' = NoCall
  BY <1>1, NoCallOutside DEF gpuVars
<1>3. ~ToggleFailed => GpuPhases'
  BY <1>1, <1>2, GpusStay, LoopBegins DEF GpuInv, GpuPhases
<1> QED BY <1>1, <1>2, <1>3, PhaseMoves, RankFacts DEF Phases

LEMMA WindowGpus ==
  ASSUME GpuInv, Reserve \/ Optimize \/ Publish \/ WindowRaises
  PROVE  GpuInv'
<1>1. /\ pc \in {"reserve", "optimize"} /\ UNCHANGED gpuVars
      /\ \/ pc' = "optimize" /\ at' \in {at + 1, 0}
         \/ pc' = "return" /\ at' = 0
  BY DEF Reserve, Optimize, Publish, WindowRaises, Abandon, Goto, NextTurn
<1>2. call = NoCall /\ call' = NoCall /\ at \in Nat
  BY <1>1, NoCallOutside DEF gpuVars, GpuInv, Calls
<1>3. ASSUME ~ToggleFailed PROVE GpuPhases'
  <2>1. AllIn("trainer")'
    BY <1>1, <1>3, GpusStay DEF GpuInv, GpuPhases
  <2> QED BY <1>1, <1>2, <2>1, LoopBegins DEF GpuPhases
<1>4. at' \in Nat /\ pc' \in Phases
  BY <1>1, <1>2 DEF Phases
<1> QED BY <1>1, <1>2, <1>3, <1>4, PhaseMoves, RankFacts

-----------------------------------------------------------------------------
\* The GPUs other than the one a step is about are as they were.
Untouched(g) == lease'[g] = lease[g] /\ residency'[g] = residency[g] /\ resident'[g] = resident[g]

LEMMA UntouchedRole ==
  ASSUME NEW g, NEW role, Untouched(g)
  PROVE  InRole(g, role)' <=> InRole(g, role)
BY DEF Untouched, InRole, WithRollout, WithTrainer, Residency!Holds

\* The next GPU's call begins: what holds of the GPUs before and behind it.
LEMMA StartMoves ==
  ASSUME GpuInv, NEW from \in {"rollout", "trainer"}, NEW g, g = Gpu(at + 1),
         pc \in {"enter", "return"}, at < Len(RankGpus), pc' = pc, at' = at + 1,
         IF from = "rollout" THEN WithRollout(g) ELSE WithTrainer(g),
         Residency!Start(from, Token(g), NextHolder(g, from))
  PROVE  /\ Calls'
         /\ ToggleFailed => ToggleFailed'
         /\ Along(from) => Along(from)'
<1>1. at \in Nat /\ at + 1 \in DOMAIN RankGpus /\ g \in Shared
  BY RankFacts DEF GpuInv, Calls
<1>2. /\ call = NoCall /\ residency[g] = Residency!Active(from)
      /\ residency' = [residency EXCEPT ![g] = Residency!Leaving(from)]
      /\ call' = [hook |-> "offload", token |-> Token(g), next |-> NextHolder(g, from)]
      /\ UNCHANGED <<lease, resident>>
  BY DEF Residency!Start, Token, Residency!TokenOf
<1>3. /\ g \in Gpus /\ NextHolder(g, from) \in Holders
      /\ lease[g].role = from /\ lease[g].holder \in Holders /\ lease[g].epoch \in Nat
  BY <1>1, SharedFacts DEF NextHolder, WithRollout, WithTrainer, Residency!Holds, GpuInv, Calls
<1>4. Token(g) \in Residency!Token /\ Token(g).gpu = g /\ Token(g).role = from
  BY <1>3, SharedFacts DEF Token, Residency!TokenOf, Residency!Token
<1>5. call' \in Residency!Call /\ call' # NoCall
  BY <1>2, <1>3, <1>4, SharedFacts DEF Residency!Call
<1>6. residency = [h \in Shared |-> residency[h]] /\ resident = [h \in Shared |-> resident[h]]
  BY DEF GpuInv, Calls
<1>7. residency'[g] # "DEGRADED" /\ \A h \in Shared \ {g} : Untouched(h)
  BY <1>1, <1>2, <1>6 DEF Residency!Leaving, Untouched
<1>8. Calls'
  <2>1. /\ residency' = [h \in Shared |-> residency'[h]] /\ resident' = [h \in Shared |-> resident'[h]]
    BY <1>2, <1>6
  <2>2. lease = [h \in Gpus |-> lease[h]] /\ \A h \in Gpus : lease[h].failed = FALSE /\ lease[h].epoch \in Nat
    BY DEF GpuInv, Calls
  <2>3. call'.token.gpu = g
    BY <1>2, <1>4
  <2>4. at' \in Nat /\ at' <= Len(RankGpus) /\ at' # 0
    BY <1>1, RankFacts
  <2> QED BY <1>1, <1>2, <1>5, <1>7, <2>1, <2>2, <2>3, <2>4 DEF Calls
<1>9. ToggleFailed => ToggleFailed'
  BY <1>1, <1>2, <1>7 DEF ToggleFailed, Untouched, Residency!Active
<1>10. ASSUME Along(from) PROVE Along(from)'
  <2> SUFFICES ASSUME NEW i \in DOMAIN RankGpus
               PROVE  /\ i < at' => InRole(Gpu(i), Residency!Other(from))'
                      /\ i = at' => Crossing(Gpu(i), from)'
                      /\ i > at' => InRole(Gpu(i), from)'
    BY <1>5 DEF Along
  <2>1. i \in Nat /\ Gpu(i) \in Shared /\ (i # at + 1 => Gpu(i) # g)
    BY <1>1, RankFacts
  <2>2. i # at' => /\ InRole(Gpu(i), from)' <=> InRole(Gpu(i), from)
                   /\ InRole(Gpu(i), Residency!Other(from))' <=> InRole(Gpu(i), Residency!Other(from))
    BY <1>7, <2>1, UntouchedRole
  <2>3. i < at' => InRole(Gpu(i), Residency!Other(from))
    BY <1>1, <1>2, <1>10, <2>1 DEF Along
  <2>4. i >= at' => InRole(Gpu(i), from)
    BY <1>1, <1>2, <1>10, <2>1 DEF Along
  <2>5. i = at' => Crossing(Gpu(i), from)'
    <3>1. i = at' => resident'[Gpu(i)] = {from}
      BY <1>1, <1>2, <2>4 DEF InRole
    <3>2. call'.hook = "offload" /\ call'.token = Token(g) /\ call'.next = NextHolder(g, from)
      BY <1>2
    <3> QED BY <1>4, <3>1, <3>2 DEF Crossing
  <2> QED BY <1>1, <2>1, <2>2, <2>3, <2>4, <2>5
<1> QED BY <1>8, <1>9, <1>10

LEMMA EnterNextGpus == ASSUME GpuInv, EnterNext PROVE GpuInv'
<1> DEFINE g == Gpu(at + 1)
<1>1. /\ pc = "enter" /\ pc' = "enter" /\ at' = at + 1 /\ at < Len(RankGpus) /\ WithRollout(g)
      /\ Residency!Start("rollout", Token(g), NextHolder(g, "rollout"))
  BY DEF EnterNext, NextTurn, CanLeave, Residency!EnterTrain, NextHolder
<1> HIDE DEF g
<1>2. Calls' /\ (ToggleFailed => ToggleFailed') /\ (Along("rollout") => Along("rollout")')
  BY <1>1, StartMoves DEF g
<1> QED BY <1>1, <1>2 DEF GpuInv, GpuPhases, Phases

LEMMA ReturnNextGpus == ASSUME GpuInv, ReturnNext PROVE GpuInv'
<1> DEFINE g == Gpu(at + 1)
<1>1. /\ pc = "return" /\ pc' = "return" /\ at' = at + 1 /\ at < Len(RankGpus) /\ WithTrainer(g)
      /\ Residency!Start("trainer", Token(g), NextHolder(g, "trainer"))
      /\ residency[g] = "TRAINER_ACTIVE"
  BY DEF ReturnNext, NextTurn, CanLeave, Residency!ExitTrain, NextHolder, Residency!Active
<1>2. ~(AllIn("rollout") /\ at = 0)
  BY <1>1, RankFacts DEF AllIn, InRole, Residency!Active
<1> HIDE DEF g
<1>3. Calls' /\ (ToggleFailed => ToggleFailed') /\ (Along("trainer") => Along("trainer")')
  BY <1>1, StartMoves DEF g
<1> QED BY <1>1, <1>2, <1>3 DEF GpuInv, GpuPhases, Phases

-----------------------------------------------------------------------------
LEMMA EnterRaisesGpus == ASSUME GpuInv, EnterRaises PROVE GpuInv'
<1>1. /\ pc = "enter" /\ call = NoCall /\ ~(Arrived("trainer") /\ CanLeave("rollout"))
      /\ pc' = "idle" /\ at' = 0 /\ UNCHANGED gpuVars
  BY DEF EnterRaises, Raises, Goto, dataVars
<1>2. at \in Nat /\ at <= Len(RankGpus)
  BY <1>1 DEF GpuInv, Calls
<1>3. Along("rollout") => Arrived("trainer") /\ CanLeave("rollout")
  <2>1. Residency!Other("rollout") = "trainer"
    BY DEF Residency!Other
  <2>2. at > 0 => at \in DOMAIN RankGpus
    BY <1>2, RankFacts
  <2>3. at < Len(RankGpus) => at + 1 \in DOMAIN RankGpus
    BY <1>2, RankFacts
  <2> QED BY <1>1, <1>2, <2>1, <2>2, <2>3 DEF Along, Arrived, CanLeave, InRole
<1>4. ~ToggleFailed => FALSE
  BY <1>1, <1>3 DEF GpuInv, GpuPhases
<1> QED BY <1>1, <1>4, PhaseMoves DEF Phases

LEMMA EnteredGpus == ASSUME GpuInv, Entered PROVE GpuInv'
<1>1. /\ pc = "enter" /\ call = NoCall /\ at = Len(RankGpus)
      /\ pc' = "reserve" /\ at' = 0 /\ UNCHANGED gpuVars
  BY DEF Entered, Arrived, Goto, dataVars
<1>2. ~ToggleFailed => AllIn("trainer")'
  BY <1>1, LoopEnds, GpusStay DEF GpuInv, GpuPhases
<1>3. ~ToggleFailed => GpuPhases'
  BY <1>1, <1>2 DEF GpuPhases
<1> QED BY <1>1, <1>3, PhaseMoves DEF Phases

\* After the call of return_to_rollout: once more, or on with the GPUs back.
LEMMA ReturnEnds ==
  ASSUME GpuInv, pc = "return", call = NoCall, UNCHANGED gpuVars, at' = 0,
         pc' \in {"return", "begin_activation", "idle"},
         ~ToggleFailed => AllIn("rollout")
  PROVE  GpuInv'
<1>1. ~ToggleFailed => GpuPhases'
  BY GpusStay DEF GpuPhases
<1> QED BY <1>1, PhaseMoves, RankFacts DEF Phases

LEMMA ReturnRaisesGpus == ASSUME GpuInv, ReturnRaises PROVE GpuInv'
<1>1. /\ pc = "return" /\ call = NoCall /\ ~(Arrived("rollout") /\ CanLeave("trainer"))
      /\ pc' \in {"return", "idle"} /\ at' = 0 /\ UNCHANGED gpuVars
  BY DEF ReturnRaises, Raises, Goto, dataVars
<1>2. at \in Nat /\ at <= Len(RankGpus)
  BY <1>1 DEF GpuInv, Calls
<1>3. Along("trainer") => Arrived("rollout") /\ CanLeave("trainer")
  <2>1. Residency!Other("trainer") = "rollout"
    BY DEF Residency!Other
  <2>2. at > 0 => at \in DOMAIN RankGpus
    BY <1>2, RankFacts
  <2>3. at < Len(RankGpus) => at + 1 \in DOMAIN RankGpus
    BY <1>2, RankFacts
  <2> QED BY <1>1, <1>2, <2>1, <2>2, <2>3 DEF Along, Arrived, CanLeave, InRole
<1>4. ~ToggleFailed => AllIn("rollout")
  BY <1>1, <1>3 DEF GpuInv, GpuPhases
<1> QED BY <1>1, <1>4, ReturnEnds

LEMMA ReturnedGpus == ASSUME GpuInv, Returned PROVE GpuInv'
<1>1. /\ pc = "return" /\ call = NoCall /\ at = Len(RankGpus)
      /\ pc' \in {"return", "begin_activation", "idle"} /\ at' = 0 /\ UNCHANGED gpuVars
  BY DEF Returned, Arrived, Raises, Goto, dataVars
<1>2. ~ToggleFailed => AllIn("rollout")
  BY <1>1, LoopEnds DEF GpuInv, GpuPhases
<1> QED BY <1>1, <1>2, ReturnEnds

\* Time passes, be a call running or not.
LEMMA NothingMovesGpus ==
  ASSUME GpuInv, UNCHANGED <<pc, at, gpuVars>>
  PROVE  GpuInv'
<1>1. UNCHANGED <<lease, residency, resident, call>>
  BY DEF gpuVars
<1>2. Calls'
  BY <1>1 DEF GpuInv, Calls
<1>3. /\ Along("rollout")' <=> Along("rollout")
      /\ Along("trainer")' <=> Along("trainer")
  BY <1>1 DEF Along, Crossing, InRole, WithRollout, WithTrainer, Residency!Holds
<1>4. GpuPhases => GpuPhases'
  BY <1>3, GpusStay DEF GpuPhases
<1> QED BY <1>2, <1>4, GpusStay DEF GpuInv

-----------------------------------------------------------------------------
\* The hooks.  A call is for a shared GPU, which may be leased to both roles.
LEMMA CallFacts ==
  ASSUME GpuInv, call # NoCall
  PROVE  /\ pc \in {"enter", "return"} /\ at \in Nat /\ at # 0 /\ at \in DOMAIN RankGpus
         /\ call \in Residency!Call
         /\ call.token.gpu \in Shared /\ call.token.gpu \in Gpus
         /\ residency[call.token.gpu] # "DEGRADED"
         /\ residency = [g \in Shared |-> residency[g]] /\ resident = [g \in Shared |-> resident[g]]
         /\ lease = [g \in Gpus |-> lease[g]]
         /\ \A g \in Gpus : lease[g].failed = FALSE /\ lease[g].epoch \in Nat
BY RankFacts, SharedFacts DEF GpuInv, Calls

\* A hook that fails degrades the GPU and ends the call.
LEMMA HookFails ==
  ASSUME GpuInv, UNCHANGED <<pc, at>>,
         Residency!OffloadReturns("failed") \/ Residency!HydrateReturns("failed")
  PROVE  Calls' /\ ToggleFailed'
<1>1. call # NoCall
  BY DEF Residency!OffloadReturns, Residency!HydrateReturns
<1>2. /\ call' = NoCall /\ UNCHANGED lease
      /\ residency' = [residency EXCEPT ![call.token.gpu] = "DEGRADED"]
      /\ \E R : resident' = [resident EXCEPT ![call.token.gpu] = R]
  BY DEF Residency!OffloadReturns, Residency!HydrateReturns, Residency!OffloadRejected, Residency!TakeOver,
         Residency!TakeOverRefused, Residency!Accepted
<1>3. ToggleFailed'
  BY <1>1, <1>2, CallFacts DEF ToggleFailed
<1>4. /\ residency' = [g \in Shared |-> residency'[g]] /\ resident' = [g \in Shared |-> resident'[g]]
  <2>1. residency = [g \in Shared |-> residency[g]] /\ resident = [g \in Shared |-> resident[g]]
    BY <1>1, CallFacts
  <2> QED BY <1>2, <2>1
<1>5. at \in Nat /\ at <= Len(RankGpus)
  BY <1>1 DEF GpuInv, Calls
<1>6. lease = [g \in Gpus |-> lease[g]] /\ \A g \in Gpus : lease[g].failed = FALSE /\ lease[g].epoch \in Nat
  BY <1>1, CallFacts
<1>7. Calls'
  BY <1>2, <1>4, <1>5, <1>6 DEF Calls
<1> QED BY <1>3, <1>7

\* A step of the call's GPU alone moves the loop along if that GPU does.
LEMMA HookMoves ==
  ASSUME GpuInv, call # NoCall, UNCHANGED <<pc, at>>, NEW from \in {"rollout", "trainer"}, Along(from),
         \A h \in Shared \ {call.token.gpu} : Untouched(h),
         call' # NoCall => (Crossing(Gpu(at), from) => Crossing(Gpu(at), from)'),
         call' = NoCall => (Crossing(Gpu(at), from) => InRole(Gpu(at), Residency!Other(from))')
  PROVE  Along(from)'
<1>1. /\ at \in Nat /\ at \in DOMAIN RankGpus
  BY CallFacts
<1>2. Crossing(Gpu(at), from)
  BY <1>1 DEF Along
<1>3. call.token.gpu = Gpu(at)
  BY <1>2 DEF Crossing
<1> SUFFICES ASSUME NEW i \in DOMAIN RankGpus
             PROVE  /\ i < at \/ (i = at /\ call' = NoCall) => InRole(Gpu(i), Residency!Other(from))'
                    /\ i = at /\ call' # NoCall => Crossing(Gpu(i), from)'
                    /\ i > at => InRole(Gpu(i), from)'
  BY DEF Along
<1>4. i \in Nat /\ Gpu(i) \in Shared /\ (i # at => Gpu(i) # Gpu(at))
  BY <1>1, RankFacts
<1>5. i # at => /\ InRole(Gpu(i), from)' <=> InRole(Gpu(i), from)
                /\ InRole(Gpu(i), Residency!Other(from))' <=> InRole(Gpu(i), Residency!Other(from))
  BY <1>3, <1>4, UntouchedRole
<1>6. /\ i < at => InRole(Gpu(i), Residency!Other(from))
      /\ i > at => InRole(Gpu(i), from)
  BY DEF Along
<1>7. i = at => /\ call' = NoCall => InRole(Gpu(i), Residency!Other(from))'
                /\ call' # NoCall => Crossing(Gpu(i), from)'
  BY <1>2
<1> QED BY <1>1, <1>4, <1>5, <1>6, <1>7

LEMMA OffloadDone ==
  ASSUME GpuInv, UNCHANGED <<pc, at>>, Residency!OffloadReturns("ok")
  PROVE  /\ Calls'
         /\ ToggleFailed => ToggleFailed'
         /\ \A from \in {"rollout", "trainer"} : Along(from) => Along(from)'
<1>0. PICK g, to : g = call.token.gpu /\ to = Residency!Other(call.token.role)
  OBVIOUS
<1>1. call # NoCall
  BY DEF Residency!OffloadReturns
<1>2. /\ g \in Shared /\ g \in Gpus /\ call \in Residency!Call
      /\ call.token.role \in {"rollout", "trainer"} /\ call.next \in Holders
      /\ \A h \in Gpus : lease[h].failed = FALSE /\ lease[h].epoch \in Nat
  BY <1>0, <1>1, CallFacts, SharedFacts DEF Residency!Call, Residency!Token
<1>3. to \in {"rollout", "trainer"} /\ Residency!Grantable(g, to)
  BY <1>0, <1>2, SharedFacts DEF Residency!Other, Residency!Grantable
<1>4. /\ call.hook = "offload"
      /\ resident' = [resident EXCEPT ![g] = @ \ {call.token.role}]
      /\ Residency!TakeOver("ok")
  BY <1>0, <1>3 DEF Residency!OffloadReturns, Residency!OffloadRejected, Residency!TakeOverRefused,
              Residency!Accepted, Residency!AfterOffload
<1>5. /\ Residency!Grant(g, to, call.next)
      /\ residency' = [residency EXCEPT ![g] = Residency!Arriving(to)]
      /\ call' = [call EXCEPT !.hook = "hydrate", !.token = Residency!TokenOf(g, lease'[g])]
  BY <1>0, <1>4 DEF Residency!TakeOver
<1>6. /\ lease[g].epoch \in Nat
      /\ \/ Residency!Holds(g, to, call.next) /\ lease' = lease
         \/ lease' = [lease EXCEPT ![g] = [role |-> to, holder |-> call.next,
                                           epoch |-> lease[g].epoch + 1, failed |-> FALSE]]
  BY <1>2, <1>5 DEF Residency!Grant, Residency!NextEpoch
<1>7. /\ lease = [h \in Gpus |-> lease[h]] /\ residency = [h \in Shared |-> residency[h]]
      /\ resident = [h \in Shared |-> resident[h]] /\ residency[g] # "DEGRADED"
  BY <1>0, <1>1, CallFacts
<1>8. /\ lease' = [h \in Gpus |-> lease'[h]]
      /\ \A h \in Gpus : lease'[h].failed = FALSE /\ lease'[h].epoch \in Nat
      /\ lease'[g].role = to /\ lease'[g].holder = call.next
      /\ \A h \in Gpus \ {g} : lease'[h] = lease[h]
  BY <1>2, <1>6, <1>7 DEF Residency!Holds
<1>9. /\ residency' = [h \in Shared |-> residency'[h]] /\ resident' = [h \in Shared |-> resident'[h]]
      /\ residency'[g] = Residency!Arriving(to) /\ resident'[g] = resident[g] \ {call.token.role}
      /\ \A h \in Shared \ {g} : Untouched(h)
  BY <1>2, <1>4, <1>5, <1>7, <1>8, SharedFacts DEF Untouched
<1>10. residency'[g] # "DEGRADED"
  BY <1>3, <1>9 DEF Residency!Arriving
<1>11. /\ Residency!TokenOf(g, lease'[g]) =
            [gpu |-> g, role |-> to, holder |-> call.next, epoch |-> lease'[g].epoch]
       /\ Residency!TokenOf(g, lease'[g]) \in Residency!Token
  BY <1>2, <1>3, <1>8, SharedFacts DEF Residency!TokenOf, Residency!Token
<1>12. /\ call' \in Residency!Call /\ call' # NoCall /\ call'.hook = "hydrate" /\ call'.next = call.next
       /\ call'.token.gpu = g /\ call'.token.role = to
  <2>1. call = [hook |-> call.hook, token |-> call.token, next |-> call.next]
    BY <1>2 DEF Residency!Call
  <2>2. call' = [hook |-> "hydrate", token |-> Residency!TokenOf(g, lease'[g]), next |-> call.next]
    BY <1>5, <2>1
  <2>3. call' \in Residency!Call
    BY <1>2, <1>11, <2>2 DEF Residency!Call
  <2> QED BY <1>11, <2>2, <2>3, SharedFacts
<1>13. Calls'
  <2>1. at \in Nat /\ at <= Len(RankGpus) /\ pc \in {"enter", "return"} /\ at # 0
    BY <1>1 DEF GpuInv, Calls
  <2> QED BY <1>2, <1>8, <1>9, <1>10, <1>12, <2>1 DEF Calls
<1>14. ToggleFailed => ToggleFailed'
  BY <1>7, <1>9 DEF ToggleFailed, Untouched
<1>15. ASSUME NEW from \in {"rollout", "trainer"}, Along(from) PROVE Along(from)'
  <2>1. ASSUME Crossing(Gpu(at), from) PROVE Crossing(Gpu(at), from)'
    <3>1. /\ Gpu(at) = g /\ call.next = NextHolder(g, from) /\ call.token.role = from /\ resident[g] = {from}
      BY <1>0, <1>4, <2>1 DEF Crossing
    <3>2. to = Residency!Other(from) /\ resident'[g] = {}
      BY <1>0, <1>9, <3>1
    <3>3. Residency!Holds(g, Residency!Other(from), NextHolder(g, from))'
      BY <1>8, <3>1, <3>2 DEF Residency!Holds
    <3>4. Crossing(g, from)'
      BY <1>12, <3>1, <3>2, <3>3 DEF Crossing
    <3> QED BY <3>1, <3>4 DEF Crossing, Gpu
  <2> QED BY <1>0, <1>1, <1>9, <1>12, <1>15, <2>1, HookMoves
<1> QED BY <1>13, <1>14, <1>15

LEMMA HydrateDone ==
  ASSUME GpuInv, UNCHANGED <<pc, at>>, Residency!HydrateReturns("ok")
  PROVE  /\ Calls'
         /\ ToggleFailed => ToggleFailed'
         /\ \A from \in {"rollout", "trainer"} : Along(from) => Along(from)'
<1>0. PICK g, role : g = call.token.gpu /\ role = call.token.role
  OBVIOUS
<1>1. call # NoCall
  BY DEF Residency!HydrateReturns
<1>2. /\ g \in Shared /\ g \in Gpus /\ role \in {"rollout", "trainer"}
      /\ lease = [h \in Gpus |-> lease[h]] /\ residency = [h \in Shared |-> residency[h]]
      /\ resident = [h \in Shared |-> resident[h]] /\ residency[g] # "DEGRADED"
  BY <1>0, <1>1, CallFacts, SharedFacts DEF Residency!Call, Residency!Token
<1>3. /\ call.hook = "hydrate" /\ call' = NoCall /\ UNCHANGED lease
      /\ resident' = [resident EXCEPT ![g] = @ \cup {role}]
      /\ residency' = [residency EXCEPT ![g] = Residency!Active(role)]
  BY <1>0 DEF Residency!HydrateReturns, Residency!Accepted, Residency!AfterHydrate
<1>4. /\ residency' = [h \in Shared |-> residency'[h]] /\ resident' = [h \in Shared |-> resident'[h]]
      /\ residency'[g] = Residency!Active(role) /\ resident'[g] = resident[g] \cup {role}
      /\ \A h \in Shared \ {g} : Untouched(h)
  BY <1>2, <1>3 DEF Untouched
<1>5. Calls'
  <2>1. at \in Nat /\ at <= Len(RankGpus)
    BY <1>1 DEF GpuInv, Calls
  <2>2. \A h \in Gpus : lease[h].failed = FALSE /\ lease[h].epoch \in Nat
    BY <1>1, CallFacts
  <2> QED BY <1>2, <1>3, <1>4, <2>1, <2>2 DEF Calls
<1>6. ToggleFailed => ToggleFailed'
  BY <1>2, <1>4 DEF ToggleFailed, Untouched
<1>7. ASSUME NEW from \in {"rollout", "trainer"}, Along(from) PROVE Along(from)'
  <2>1. ASSUME Crossing(Gpu(at), from) PROVE InRole(Gpu(at), Residency!Other(from))'
    <3>1. /\ Gpu(at) = g /\ role = Residency!Other(from) /\ resident[g] = {}
          /\ Residency!Holds(g, Residency!Other(from), NextHolder(g, from))
      BY <1>0, <1>3, <2>1 DEF Crossing
    <3>2. residency'[g] = Residency!Active(Residency!Other(from)) /\ resident'[g] = {Residency!Other(from)}
      BY <1>4, <3>1
    <3>3. IF Residency!Other(from) = "rollout" THEN WithRollout(g)' ELSE WithTrainer(g)'
      BY <1>3, <3>1 DEF Residency!Other, NextHolder, WithRollout, WithTrainer, Residency!Holds
    <3>4. InRole(g, Residency!Other(from))'
      BY <3>2, <3>3 DEF InRole
    <3> QED BY <1>1, <3>1, <3>4 DEF Gpu, InRole, WithRollout, WithTrainer, Residency!Holds
  <2> QED BY <1>0, <1>1, <1>3, <1>4, <1>7, <2>1, HookMoves
<1> QED BY <1>5, <1>6, <1>7

LEMMA HookReturnsGpus == ASSUME GpuInv, HookReturns PROVE GpuInv'
<1>1. UNCHANGED <<pc, at>>
  BY DEF HookReturns, controlVars
<1>2. call # NoCall
  BY DEF HookReturns, Residency!OffloadReturns, Residency!HydrateReturns
<1>3. CASE Residency!OffloadReturns("failed") \/ Residency!HydrateReturns("failed")
  BY <1>1, <1>3, HookFails DEF GpuInv
<1>4. CASE Residency!OffloadReturns("ok") \/ Residency!HydrateReturns("ok")
  <2>1. /\ Calls' /\ (ToggleFailed => ToggleFailed')
        /\ \A from \in {"rollout", "trainer"} : Along(from) => Along(from)'
    BY <1>1, <1>4, OffloadDone, HydrateDone
  <2>2. pc \in {"enter", "return"} /\ at # 0
    BY <1>2, CallFacts
  <2>3. GpuPhases => GpuPhases'
    BY <1>1, <2>1, <2>2 DEF GpuPhases
  <2> QED BY <1>1, <2>1, <2>3 DEF GpuInv
<1> QED BY <1>3, <1>4 DEF HookReturns

LEMMA NextGpus == ASSUME GpuInv, [Next]_vars PROVE GpuInv'
<1>1. CASE Controller
  BY <1>1, RolloutStepGpus, PumpEndsGpus, WindowGpus, EnterNextGpus, EnterRaisesGpus, EnteredGpus,
     HookReturnsGpus, ReturnNextGpus, ReturnRaisesGpus, ReturnedGpus
  DEF Controller, Activate, ActivateLast, SwitchNext
<1>2. CASE \E n \in 1..MaxPrompts : Begin(n)
  BY <1>2, RolloutStepGpus
<1>3. CASE Tick \/ UNCHANGED vars
  BY <1>3, NothingMovesGpus DEF Tick, vars, controlVars, dataVars
<1> QED BY <1>1, <1>2, <1>3 DEF Next

-----------------------------------------------------------------------------
(* Batches.  One is out at most, while it is optimized.                    *)

OneBatch ==
  /\ nextBatch \in Nat /\ reserved = [b \in Queue!Batches |-> reserved[b]]
  /\ \A b \in Queue!Batches : Queue!Live(b) => pc = "optimize" /\ b = nextBatch - 1

LEMMA InitBatches == Init => OneBatch
BY DEF Init, Queue!Init, OneBatch, Queue!Live

LEMMA NoBatchMoves ==
  ASSUME OneBatch, UNCHANGED <<reserved, nextBatch>>, pc # "optimize" \/ pc' = "optimize"
  PROVE  OneBatch'
<1>1. \A b \in Queue!Batches : Queue!Live(b)' <=> Queue!Live(b)
  BY DEF Queue!Live
<1>2. reserved' = [b \in Queue!Batches |-> reserved'[b]]
  BY DEF OneBatch, Queue!Batches
<1> QED BY <1>1, <1>2 DEF OneBatch, Queue!Batches

LEMMA SettleBatches ==
  ASSUME OneBatch, Queue!Settle(Batch), UNCHANGED nextBatch
  PROVE  OneBatch'
<1>1. reserved' = [reserved EXCEPT ![Batch] = <<>>]
  BY DEF Queue!Settle
<1>2. \A b \in Queue!Batches : reserved'[b] = <<>>
  BY <1>1 DEF OneBatch, Queue!Live, Batch
<1>3. reserved' = [b \in Queue!Batches |-> reserved'[b]]
  BY <1>1 DEF OneBatch
<1>4. nextBatch' \in Nat
  BY DEF OneBatch
<1>5. \A b \in Queue!Batches : ~Queue!Live(b)'
  BY <1>2 DEF Queue!Live
<1> QED BY <1>3, <1>4, <1>5 DEF OneBatch, Queue!Batches

LEMMA ReserveBatches == ASSUME OneBatch, Reserve PROVE OneBatch'
<1>1. pc = "reserve" /\ Queue!Reserve(handled, NoBudget)
  BY DEF Reserve
<1>2. CASE UNCHANGED <<reserved, nextBatch>>
  BY <1>1, <1>2, NoBatchMoves
<1>3. CASE /\ \E refs : reserved' = [reserved EXCEPT ![nextBatch] = refs]
           /\ nextBatch' = nextBatch + 1
  <2>1. nextBatch' # nextBatch /\ nextBatch' \in Nat /\ nextBatch' - 1 = nextBatch
    BY <1>3 DEF OneBatch
  <2>2. pc' = "optimize"
    BY <2>1 DEF Reserve, Goto
  <2>3. \A b \in Queue!Batches : b # nextBatch => reserved'[b] = <<>>
    BY <1>1, <1>3 DEF OneBatch, Queue!Live
  <2>4. reserved' = [b \in Queue!Batches |-> reserved'[b]]
    BY <1>3 DEF OneBatch
  <2>5. \A b \in Queue!Batches : Queue!Live(b)' => b = nextBatch
    BY <2>3 DEF Queue!Live
  <2> QED BY <2>1, <2>2, <2>4, <2>5 DEF OneBatch, Queue!Batches
<1> QED BY <1>1, <1>2, <1>3 DEF Queue!Reserve

LEMMA NextBatches == ASSUME OneBatch, [Next]_vars PROVE OneBatch'
<1>1. CASE Reserve
  BY <1>1, ReserveBatches
<1>2. CASE Publish \/ WindowRaises
  BY <1>2, SettleBatches DEF Publish, WindowRaises, Abandon, Queue!Ack, Queue!Release
<1>3. CASE (\E n \in 1..MaxPrompts : Begin(n)) \/ Bootstrap \/ Dispatch \/ PumpEnds \/ PumpRaises
  BY <1>3, NoBatchMoves DEF Begin, Bootstrap, Dispatch, PumpEnds, PumpRaises, dataVars, queueVars
<1>4. CASE Generate
  BY <1>4, NoBatchMoves DEF Generate, Queue!SubmitRecord
<1>5. CASE EnterNext \/ EnterRaises \/ Entered \/ ReturnNext \/ ReturnRaises \/ Returned
  BY <1>5, NoBatchMoves
  DEF EnterNext, EnterRaises, Entered, ReturnNext, ReturnRaises, Returned, dataVars, queueVars
<1>6. CASE HookReturns \/ Optimize
  BY <1>6, NoBatchMoves DEF HookReturns, Optimize, NextTurn, controlVars, queueVars
<1>7. CASE BeginActivation \/ Activate \/ ActivateLast \/ ActivateRaises
  BY <1>7, NoBatchMoves
  DEF BeginActivation, Activate, ActivateLast, SwitchNext, ActivateRaises, queueVars
<1>8. CASE Tick \/ UNCHANGED vars
  BY <1>8, NoBatchMoves DEF Tick, Queue!Tick, vars, controlVars, dataVars, queueVars
<1> QED BY <1>1, <1>2, <1>3, <1>4, <1>5, <1>6, <1>7, <1>8 DEF Next, Controller

(***************************************************************************)
(* Between iterations no batch is held and every shared GPU is back with   *)
(* its rollout worker, unless a toggle failed, for any number of GPUs and  *)
(* however the iterations before ended.                                    *)
(***************************************************************************)
THEOREM FailuresLeaveNothing == Spec => []FailurePathsCleanUp
<1>1. Init => GpuInv /\ OneBatch
  BY InitGpus, InitBatches
<1>2. GpuInv /\ OneBatch /\ [Next]_vars => (GpuInv /\ OneBatch)'
  BY NextGpus, NextBatches
<1>3. GpuInv /\ OneBatch => FailurePathsCleanUp
  <2> SUFFICES ASSUME GpuInv, OneBatch, pc = "idle", ~ToggleFailed, NEW g \in Shared
               PROVE  WithRollout(g) /\ resident[g] = {"rollout"}
    BY DEF FailurePathsCleanUp, OneBatch
  <2>1. AllIn("rollout")
    BY DEF GpuInv, GpuPhases
  <2>2. PICK i \in DOMAIN RankGpus : Gpu(i) = g
    BY RankFacts
  <2> QED BY <2>1, <2>2 DEF AllIn, InRole
<1> QED BY <1>1, <1>2, <1>3, PTL DEF Spec

-----------------------------------------------------------------------------
(* Samples.  What an iteration dispatches fits beside what the queue       *)
(* holds, a batch that is being optimized and may come back included.      *)

QP == INSTANCE SampleQueueProofs WITH
  Samples <- Requests, MaxSequences <- MaxPrompts, TokenBudgets <- {NoBudget},
  MaxPolicy <- MaxIterations, MaxBatches <- MaxIterations

Sequence(s) == \E S : s \in Seq(S)

Held == IF pc = "optimize" THEN Len(reserved[Batch]) ELSE 0

Counts ==
  /\ backlog \in Nat /\ prompts \in 0..MaxPrompts /\ handled \in Nat /\ generated \in Nat
  /\ Sequence(wave) /\ (wave # <<>> => pc = "pump")
  /\ handled + Len(wave) <= prompts
  /\ generated + (prompts - handled) <= iteration * MaxPrompts

Contents ==
  /\ pending \in Seq(Queue!SampleRef) /\ reserved \in [Queue!Batches -> Seq(Queue!SampleRef)]
  /\ now \in Nat
  /\ pc = "optimize" => Batch \in Queue!Batches

Room == Len(pending) + Held + Len(wave) <= HighWatermark

RoomInv == VersionInv /\ OneBatch /\ Counts /\ Contents /\ Room

LEMMA QueueLimits == Queue!QueueAssumption /\ QP!QueueAssumption
  BY PartsAssumption DEF Queue!QueueAssumption, QP!QueueAssumption

LEMMA SameCount ==
  \A S : Queue!Cardinality(S) = Cardinality(S) /\ QP!Cardinality(S) = Cardinality(S)
  BY DEF Queue!Cardinality, QP!Cardinality, Cardinality

LEMMA SameSubsequences == \A refs, P : Queue!Subsequences(refs, P) = QP!Subsequences(refs, P)
  BY SameCount DEF Queue!Subsequences, QP!Subsequences, Queue!InOrder, QP!InOrder

LEMMA SameRefs == Queue!SampleRef = QP!SampleRef
  BY DEF Queue!SampleRef, QP!SampleRef

\* Some positions of a sequence of refs are no more refs than there are.
LEMMA SubsequenceFits ==
  ASSUME NEW refs \in Seq(Queue!SampleRef), NEW n \in Nat, NEW P \in SUBSET (1..n), n <= Len(refs),
         NEW sub \in Queue!Subsequences(refs, P)
  PROVE  sub \in Seq(Queue!SampleRef) /\ Len(sub) <= n
<1>1. refs \in Seq(QP!SampleRef) /\ P \in SUBSET DOMAIN refs /\ sub \in QP!Subsequences(refs, P)
  BY SameRefs, SameSubsequences
<1>2. sub \in Seq(QP!SampleRef)
  BY <1>1, QueueLimits, QP!SubsequenceFacts
<1>3. Len(sub) = QP!Cardinality(P)
  BY <1>1, QueueLimits, QP!SubsequenceLength
<1>4. IsFiniteSet(1..n) /\ Cardinality(1..n) = n
  <2>1. 1 \in Int /\ n \in Int
    OBVIOUS
  <2>2. IsFiniteSet(1..n) /\ Cardinality(1..n) = IF 1 > n THEN 0 ELSE n - 1 + 1
    BY <2>1, FS_Interval, Zenon
  <2>3. (IF 1 > n THEN 0 ELSE n - 1 + 1) = n
    OBVIOUS
  <2> QED BY <2>2, <2>3
<1>5. Cardinality(P) <= n
  BY <1>4, FS_Subset
<1> QED BY <1>2, <1>3, <1>5, SameCount, SameRefs

\* A sequence of refs holds no more samples than it is long.
LEMMA IdsFit ==
  ASSUME NEW refs \in Seq(Queue!SampleRef)
  PROVE  IsFiniteSet(Queue!Ids(refs)) /\ Cardinality(Queue!Ids(refs)) <= Len(refs)
<1>1. Queue!Ids(refs) = {refs[i].id : i \in 1..Len(refs)}
  BY DEF Queue!Ids
<1> DEFINE n == Len(refs)
           f == [i \in 1..n |-> refs[i].id]
<1>2. n \in Nat
  OBVIOUS
<1>3. Queue!Ids(refs) = {f[i] : i \in 1..n} /\ f \in [1..n -> Queue!Ids(refs)]
  BY <1>1
<1> HIDE DEF n, f
<1>4. IsFiniteSet(1..n) /\ Cardinality(1..n) = n
  <2>1. 1 \in Int /\ n \in Int
    BY <1>2
  <2>2. IsFiniteSet(1..n) /\ Cardinality(1..n) = IF 1 > n THEN 0 ELSE n - 1 + 1
    BY <2>1, FS_Interval, Zenon
  <2>3. (IF 1 > n THEN 0 ELSE n - 1 + 1) = n
    BY <1>2
  <2> QED BY <2>2, <2>3
<1>5. f \in Surjection(1..n, Queue!Ids(refs))
  BY <1>3 DEF Surjection
<1>6. IsFiniteSet(Queue!Ids(refs)) /\ Cardinality(Queue!Ids(refs)) <= Cardinality(1..n)
  BY <1>4, <1>5, FS_Surjection
<1> QED BY <1>4, <1>6 DEF n

\* What the loops see of the queue is no more than what is in it.
LEMMA DepthFits ==
  ASSUME OneBatch, Contents
  PROVE  /\ Queue!Depth \in Nat /\ Queue!Depth <= Len(pending) + Held
         /\ pc # "optimize" => Queue!Depth = Len(pending)
         /\ Len(pending) \in Nat /\ Held \in Nat
<1>1. Len(pending) \in Nat /\ Held \in Nat
  BY DEF Contents, Held
<1>2. \A b \in Queue!Batches : reserved[b] = <<>> => Queue!Ids(reserved[b]) = {}
  BY DEF Queue!Ids
<1>3. CASE pc = "optimize"
  <2>1. Queue!ReservedIds = Queue!Ids(reserved[Batch])
    BY <1>2, <1>3 DEF Queue!ReservedIds, OneBatch, Contents, Queue!Live, Batch
  <2>2. reserved[Batch] \in Seq(Queue!SampleRef)
    BY <1>3 DEF Contents
  <2>3. Cardinality(Queue!ReservedIds) \in Nat /\ Cardinality(Queue!ReservedIds) <= Len(reserved[Batch])
    BY <2>1, <2>2, IdsFit, FS_CardinalityType
  <2> QED BY <1>1, <1>3, <2>2, <2>3, SameCount DEF Queue!Depth, Held
<1>4. CASE pc # "optimize"
  <2>1. Queue!ReservedIds = {}
    BY <1>2, <1>4 DEF Queue!ReservedIds, OneBatch, Queue!Live
  <2>2. Queue!Cardinality(Queue!ReservedIds) = 0
    BY <2>1, SameCount, FS_EmptySet
  <2> QED BY <1>1, <1>4, <2>2 DEF Queue!Depth, Held
<1> QED BY <1>3, <1>4

-----------------------------------------------------------------------------
(* A dispatch.  Assigned is a recursive function; that it exists, and what *)
(* its values are, is shown of the least number for which it would fail.   *)

LEMMA AssignedUnfolds ==
  ASSUME Budget \in Nat
  PROVE  /\ Assigned[0] = [slots |-> inFlight, next |-> cursor, wave |-> <<>>]
         /\ \A n \in 1..Budget : Assigned[n] = Assign(Assigned[n - 1])
<1> DEFINE base == [slots |-> inFlight, next |-> cursor, wave |-> <<>>]
           Body(g, m) == [n \in 0..m |-> IF n = 0 THEN base ELSE Assign(g[n - 1])]
           Bad == {m \in 0..Budget : ~ \E g : g = Body(g, m)}
<1>1. Bad = {}
  <2> SUFFICES ASSUME Bad # {} PROVE FALSE
    OBVIOUS
  <2>1. PICK m \in Bad : \A j \in Bad : m <= j
    <3>1. Bad \in SUBSET Nat
      BY SMT
    <3> HIDE DEF Bad
    <3> QED BY <3>1, QueueLimits, QP!LeastElement
  <2>2. m \in 0..Budget /\ ~ \E g : g = Body(g, m)
    BY <2>1
  <2>3. CASE m = 0
    <3> DEFINE g == [n \in 0..0 |-> base]
    <3>1. g = Body(g, 0)
      BY SMT
    <3> QED BY <2>2, <2>3, <3>1
  <2>4. CASE m # 0
    <3>1. m - 1 \in 0..Budget /\ m - 1 \notin Bad
      <4>1. m \in Nat /\ m - 1 \in 0..Budget /\ ~(m <= m - 1)
        <5> HIDE DEF Body
        <5> QED BY <2>2, <2>4
      <4> HIDE DEF Bad
      <4> QED BY <2>1, <4>1
    <3>2. PICK g : g = Body(g, m - 1)
      BY <3>1
    <3> DEFINE h == [n \in 0..m |-> IF n = m THEN Assign(g[m - 1]) ELSE g[n]]
    <3>3. \A n \in 0..m - 1 : g[n] = IF n = 0 THEN base ELSE Assign(g[n - 1])
      BY <3>2
    <3>4. \A n \in 0..m : h[n] = IF n = m THEN Assign(g[m - 1]) ELSE g[n]
      OBVIOUS
    <3>5. ASSUME NEW n \in 0..m
          PROVE  h[n] = IF n = 0 THEN base ELSE Assign(h[n - 1])
      <4>1. CASE n = 0
        <5>1. h[n] = g[n] /\ n \in 0..m - 1
          BY <2>2, <2>4, <3>4, <4>1
        <5> QED BY <3>3, <4>1, <5>1
      <4>2. CASE n # 0
        <5>1. n - 1 \in 0..m - 1 /\ n - 1 \in 0..m /\ n - 1 # m
          BY <2>2, <4>2
        <5>2. h[n - 1] = g[n - 1]
          BY <3>4, <5>1
        <5>3. CASE n = m
          <6>1. h[n] = Assign(g[m - 1])
            BY <3>4, <5>3
          <6> HIDE DEF h
          <6> QED BY <4>2, <5>2, <5>3, <6>1
        <5>4. CASE n # m
          <6>1. n \in 0..m - 1 /\ h[n] = g[n]
            BY <2>2, <3>4, <5>4
          <6> HIDE DEF h
          <6> QED BY <3>3, <4>2, <5>2, <6>1
        <5> QED BY <5>3, <5>4
      <4> QED BY <4>1, <4>2
    <3>6. h = [n \in 0..m |-> h[n]]
      OBVIOUS
    <3> HIDE DEF h
    <3>7. h = Body(h, m)
      BY <3>5, <3>6
    <3> QED BY <2>2, <3>7
  <2> QED BY <2>3, <2>4
<1>2. Budget \notin Bad /\ Budget \in 0..Budget
  <2> HIDE DEF Bad
  <2> QED BY <1>1
<1>3. PICK g : g = Body(g, Budget)
  BY <1>2
<1>4. Assigned = Body(Assigned, Budget)
  BY <1>3 DEF Assigned
<1> HIDE DEF base
<1>5. \A n \in 0..Budget : Assigned[n] = IF n = 0 THEN base ELSE Assign(Assigned[n - 1])
  BY <1>4
<1>6. Assigned[0] = base
  BY <1>5
<1>7. \A n \in 1..Budget : Assigned[n] = Assign(Assigned[n - 1])
  <2> TAKE n \in 1..Budget
  <2>1. n \in 0..Budget /\ n # 0
    OBVIOUS
  <2> QED BY <1>5, <2>1
<1> QED BY <1>6, <1>7 DEF base

LEMMA AssignedCounts ==
  ASSUME Budget \in Nat
  PROVE  Sequence(Scheduled.wave) /\ Len(Scheduled.wave) = Budget
<1> DEFINE W == {ReplicaOrder[Chosen(Assigned[n - 1])] : n \in 1..Budget}
           Good(n) == Assigned[n].wave \in Seq(W) /\ Len(Assigned[n].wave) = n
           Bad == {n \in 0..Budget : ~Good(n)}
<1>1. /\ Assigned[0].wave = <<>>
      /\ \A n \in 1..Budget :
           Assigned[n].wave = Append(Assigned[n - 1].wave, ReplicaOrder[Chosen(Assigned[n - 1])])
  <2>1. \A t : Assign(t).wave = Append(t.wave, ReplicaOrder[Chosen(t)])
    BY DEF Assign
  <2>2. Assigned[0] = [slots |-> inFlight, next |-> cursor, wave |-> <<>>]
    BY AssignedUnfolds
  <2>3. \A n \in 1..Budget : Assigned[n] = Assign(Assigned[n - 1])
    BY AssignedUnfolds
  <2>4. Assigned[0].wave = <<>>
    BY <2>2
  <2> QED BY <2>1, <2>3, <2>4
<1>2. \A n \in 1..Budget : ReplicaOrder[Chosen(Assigned[n - 1])] \in W
  OBVIOUS
<1> HIDE DEF W
<1>3. Good(0)
  BY <1>1
<1>4. ASSUME NEW n \in 1..Budget, Good(n - 1) PROVE Good(n)
  <2>1. PICK x \in W : Assigned[n].wave = Append(Assigned[n - 1].wave, x)
    BY <1>1, <1>2
  <2>2. n - 1 + 1 = n
    OBVIOUS
  <2> QED BY <1>4, <2>1, <2>2
<1>5. Bad = {}
  <2> SUFFICES ASSUME Bad # {} PROVE FALSE
    OBVIOUS
  <2>1. PICK m \in Bad : \A j \in Bad : m <= j
    <3>1. Bad \in SUBSET Nat
      OBVIOUS
    <3> HIDE DEF Bad
    <3> QED BY <3>1, QueueLimits, QP!LeastElement
  <2>2. m \in 1..Budget /\ m - 1 \in 0..Budget /\ ~Good(m)
    <3> HIDE DEF Good
    <3>1. m \in 0..Budget /\ ~Good(m)
      BY <2>1
    <3> QED BY <1>3, <3>1
  <2>3. m - 1 \in Bad
    <3> HIDE DEF Good
    <3> QED BY <1>4, <2>2
  <2>4. m \in Nat
    BY <2>2
  <2> HIDE DEF Bad
  <2> QED BY <2>1, <2>3, <2>4
<1>6. Good(Budget)
  <2> HIDE DEF Good
  <2> QED BY <1>5
<1> QED BY <1>6 DEF Scheduled, Sequence

LEMMA LeastIs ==
  ASSUME NEW T \in SUBSET Nat, T # {}
  PROVE  Least(T) \in T /\ \A y \in T : Least(T) <= y
<1>1. \E x \in T : \A y \in T : x <= y
  BY QueueLimits, QP!LeastElement
<1> QED BY <1>1 DEF Least

LEMMA BudgetFits ==
  ASSUME OneBatch, Counts, Contents
  PROVE  /\ Budget \in Nat /\ Budget <= Monus(HighWatermark, Queue!Depth)
         /\ Budget <= backlog /\ Budget <= prompts - handled
<1>1. IsFiniteSet(Replicas)
  <2>1. Replicas = {ReplicaOrder[i] : i \in 1..Len(ReplicaOrder)}
    BY Limits DEF Replicas
  <2>2. IsFiniteSet(1..Len(ReplicaOrder))
    BY Limits, FS_Interval
  <2> DEFINE f == [i \in 1..Len(ReplicaOrder) |-> ReplicaOrder[i]]
  <2>3. f \in Surjection(1..Len(ReplicaOrder), Replicas)
    BY <2>1 DEF Surjection
  <2> QED BY <2>2, <2>3, FS_Surjection
<1>2. FreeSlots \in Nat
  <2>1. IsFiniteSet(1..MaxInFlight)
    <3>1. MaxInFlight \in Int /\ 1 \in Int
      BY ControllerAssumption
    <3> QED BY <3>1, FS_Interval
  <2>2. IsFiniteSet(Replicas \X (1..MaxInFlight))
    BY <1>1, <2>1, FS_Product
  <2> DEFINE F == {slot \in Replicas \X (1..MaxInFlight) : inFlight[slot[1]] < slot[2]}
  <2>3. F \subseteq Replicas \X (1..MaxInFlight)
    OBVIOUS
  <2>4. FreeSlots = Cardinality(F)
    BY DEF FreeSlots
  <2> HIDE DEF F
  <2> QED BY <2>2, <2>3, <2>4, FS_Subset, FS_CardinalityType
<1>3. /\ backlog \in Nat /\ prompts - handled \in Nat
  <2>1. Len(wave) \in Nat
    BY DEF Counts, Sequence
  <2> QED BY <2>1 DEF Counts
<1>4. Monus(HighWatermark, Queue!Depth) \in Nat
  BY DepthFits, Limits DEF Monus
<1> DEFINE T == {Monus(HighWatermark, Queue!Depth), FreeSlots, backlog, prompts - handled}
<1>5. T \in SUBSET Nat /\ T # {} /\ Budget = Least(T)
  BY <1>2, <1>3, <1>4 DEF Budget
<1>6. backlog \in T /\ prompts - handled \in T /\ Monus(HighWatermark, Queue!Depth) \in T
  OBVIOUS
<1> HIDE DEF T
<1> QED BY <1>5, <1>6, LeastIs

-----------------------------------------------------------------------------
LEMMA RoomFacts ==
  ASSUME RoomInv
  PROVE  /\ Len(pending) \in Nat /\ Len(wave) \in Nat /\ Held \in Nat /\ HighWatermark \in Nat
         /\ MaxPrompts \in Nat /\ iteration \in Nat /\ iteration <= MaxIterations
         /\ iteration * MaxPrompts \in Nat
         /\ backlog \in Nat /\ prompts \in Nat /\ handled \in Nat /\ generated \in Nat
<1>1. iteration \in Nat /\ MaxPrompts \in Nat /\ iteration <= MaxIterations
  BY Limits DEF RoomInv, VersionInv, Numbered
<1>2. iteration * MaxPrompts \in Nat
  BY <1>1
<1>3. Len(wave) \in Nat /\ backlog \in Nat /\ prompts \in Nat /\ handled \in Nat /\ generated \in Nat
  BY DEF RoomInv, Counts, Sequence
<1> QED BY <1>1, <1>2, <1>3, DepthFits, Limits DEF RoomInv

\* A step about neither requests nor samples.  It may forget a dispatch.
LEMMA RoomStays ==
  ASSUME RoomInv, UNCHANGED <<pending, reserved, nextBatch, generated, handled, prompts, iteration>>,
         now' \in Nat, backlog' \in Nat,
         wave' = <<>> \/ (wave' = wave /\ pc' = pc),
         pc' = "optimize" <=> pc = "optimize"
  PROVE  Counts' /\ Contents' /\ Room'
<1>1. Sequence(wave') /\ Len(wave') <= Len(wave) /\ Len(wave') \in Nat /\ (wave' # <<>> => pc' = "pump")
  <2>1. CASE wave' = <<>>
    <3>1. <<>> \in Seq({}) /\ Len(<<>>) = 0
      OBVIOUS
    <3> QED BY <2>1, <3>1, RoomFacts DEF Sequence
  <2>2. CASE wave' = wave /\ pc' = pc
    BY <2>2, RoomFacts DEF RoomInv, Counts
  <2> QED BY <2>1, <2>2
<1>2. Held' = Held
  BY DEF Held, Batch
<1>3. Contents'
  BY DEF RoomInv, Contents, Batch, Queue!Batches, Queue!SampleRef
<1>4. Counts'
  <2>1. handled + Len(wave') <= prompts
    BY <1>1, RoomFacts DEF RoomInv, Counts
  <2>2. Sequence(wave)'
    BY <1>1 DEF Sequence
  <2> QED BY <1>1, <2>1, <2>2 DEF RoomInv, Counts
<1>5. Room'
  <2>1. Len(pending) + Held + Len(wave) <= HighWatermark
    BY DEF RoomInv, Room
  <2>2. PICK a, b, c, d, h \in Nat : /\ a = Len(pending) /\ b = Held /\ c = Len(wave)
                                     /\ d = Len(wave') /\ h = HighWatermark
    BY <1>1, RoomFacts, Zenon
  <2>3. a + b + d <= h
    <3>1. a + b + c <= h /\ d <= c
      BY <1>1, <2>1, <2>2, Zenon
    <3> QED BY <3>1
  <2> QED BY <1>2, <2>2, <2>3, Zenon DEF Room
<1> QED BY <1>3, <1>4, <1>5

LEMMA BeginRoom ==
  ASSUME RoomInv, NEW n \in 1..MaxPrompts, Begin(n)
  PROVE  Counts' /\ Contents' /\ Room'
<1>1. /\ pc = "idle" /\ pc' \in {"bootstrap", "pump"} /\ wave' = wave /\ handled' = 0 /\ prompts' = n
      /\ iteration' = iteration + 1 /\ backlog' \in {backlog, backlog + n}
      /\ UNCHANGED <<pending, reserved, nextBatch, generated, now>>
  BY DEF Begin, queueVars
<1>2. wave = <<>> /\ Len(wave) = 0
  BY <1>1 DEF RoomInv, Counts
<1>3. (iteration + 1) * MaxPrompts = iteration * MaxPrompts + MaxPrompts
  BY RoomFacts
<1>4. Counts'
  <2>1. generated <= iteration * MaxPrompts
    BY <1>2, RoomFacts DEF RoomInv, Counts
  <2>2. n \in Nat /\ n <= MaxPrompts /\ generated + (n - 0) <= iteration * MaxPrompts + MaxPrompts
    BY <2>1, RoomFacts
  <2>3. backlog' \in Nat /\ 0 + 0 <= n
    <3>1. backlog \in Nat
      BY RoomFacts
    <3>2. backlog + n \in Nat
      BY <2>2, <3>1
    <3> QED BY <1>1, <2>2, <3>1, <3>2
  <2>4. Sequence(wave)'
    BY <1>1 DEF RoomInv, Counts, Sequence
  <2>5. generated' + (prompts' - handled') <= iteration' * MaxPrompts
    BY <1>1, <1>3, <2>2
  <2> QED BY <1>1, <1>2, <2>2, <2>3, <2>4, <2>5, RoomFacts DEF Counts
<1>5. Contents'
  BY <1>1 DEF RoomInv, Contents, Queue!Batches, Queue!SampleRef
<1>6. Room'
  BY <1>1 DEF RoomInv, Room, Held
<1> QED BY <1>4, <1>5, <1>6

LEMMA DispatchRoom == ASSUME RoomInv, Dispatch PROVE Counts' /\ Contents' /\ Room'
<1>1. /\ pc = "pump" /\ pc' = "pump" /\ wave = <<>> /\ wave' = Scheduled.wave /\ backlog' = backlog - Budget
      /\ UNCHANGED <<prompts, handled, generated, iteration, pending, reserved, nextBatch, now>>
  BY DEF Dispatch, queueVars
<1>2. PICK k \in Nat : /\ k = Budget /\ k <= Monus(HighWatermark, Queue!Depth)
                       /\ k <= backlog /\ k <= prompts - handled
  BY BudgetFits DEF RoomInv
<1>3. Sequence(wave') /\ Len(wave') = k
  BY <1>1, <1>2, AssignedCounts
<1>4. Held = 0 /\ Queue!Depth = Len(pending) /\ Len(wave) = 0
  BY <1>1, DepthFits DEF Held, RoomInv
<1>5. Len(pending) <= HighWatermark
  BY <1>4, RoomFacts DEF RoomInv, Room
<1>6. Len(pending) + k <= HighWatermark
  BY <1>2, <1>4, <1>5, RoomFacts DEF Monus
<1>7. Room'
  <2>1. Held' = 0
    BY <1>1 DEF Held
  <2> QED BY <1>1, <1>3, <1>6, <2>1, RoomFacts DEF Room
<1>8. Counts'
  <2>1. backlog - k \in Nat /\ handled + k <= prompts
    BY <1>2, RoomFacts
  <2>2. Sequence(wave)'
    BY <1>3 DEF Sequence
  <2> QED BY <1>1, <1>2, <1>3, <2>1, <2>2 DEF RoomInv, Counts
<1>9. Contents'
  BY <1>1 DEF RoomInv, Contents, Queue!Batches, Queue!SampleRef
<1> QED BY <1>7, <1>8, <1>9

\* There is a request left for every sample that is still to be generated.
LEMMA NextIsRequest ==
  ASSUME RoomInv, wave # <<>>
  PROVE  generated + 1 \in Requests
<1>1. PICK d \in Nat : MaxIterations = iteration + d
  <2>1. MaxIterations - iteration \in Nat /\ MaxIterations = iteration + (MaxIterations - iteration)
    BY RoomFacts, Limits
  <2> QED BY <2>1
<1>2. d * MaxPrompts \in Nat /\ MaxIterations * MaxPrompts = iteration * MaxPrompts + d * MaxPrompts
  <2>1. \A a, b \in Nat : a * b \in Nat
    OBVIOUS
  <2>2. iteration \in Nat /\ MaxPrompts \in Nat
    BY RoomFacts
  <2>3. d * MaxPrompts \in Nat
    BY <2>1, <2>2, Zenon
  <2>4. (iteration + d) * MaxPrompts = iteration * MaxPrompts + d * MaxPrompts
    BY <2>2
  <2>5. MaxIterations * MaxPrompts = (iteration + d) * MaxPrompts
    BY <1>1, Zenon
  <2> QED BY <2>3, <2>4, <2>5, Zenon
<1>3. generated + 1 <= iteration * MaxPrompts
  <2>1. handled + Len(wave) <= prompts /\ generated + (prompts - handled) <= iteration * MaxPrompts
    BY DEF RoomInv, Counts
  <2>2. Len(wave) >= 1
    <3>1. PICK S : wave \in Seq(S)
      BY DEF RoomInv, Counts, Sequence
    <3> QED BY <3>1
  <2> QED BY <2>1, <2>2, RoomFacts
<1>4. PICK x, y, z \in Nat : x = iteration * MaxPrompts /\ y = d * MaxPrompts /\ z = generated
  BY <1>2, RoomFacts, Zenon
<1>5. z + 1 <= x /\ MaxIterations * MaxPrompts = x + y
  BY <1>2, <1>3, <1>4, Zenon
<1>6. z + 1 \in 1..x + y
  BY <1>5
<1> QED BY <1>4, <1>5, <1>6, Zenon DEF Requests

LEMMA GenerateRoom == ASSUME RoomInv, Generate PROVE Counts' /\ Contents' /\ Room'
<1> DEFINE ref == Queue!Record(generated + 1, latestActive, now)
<1>1. /\ pc = "pump" /\ pc' = "pump" /\ wave # <<>> /\ wave' = Tail(wave)
      /\ generated' = generated + 1 /\ handled' = handled + 1
      /\ UNCHANGED <<prompts, backlog, iteration, reserved, nextBatch, now>>
      /\ pending' \in {pending, Append(pending, ref)}
  BY DEF Generate, Queue!SubmitRecord
<1>2. PICK S : wave \in Seq(S)
  BY DEF RoomInv, Counts, Sequence
<1>3. Tail(wave) \in Seq(S) /\ Len(wave) >= 1 /\ Len(Tail(wave)) = Len(wave) - 1
  BY <1>1, <1>2
<1>4. handled + Len(wave) <= prompts /\ generated + (prompts - handled) <= iteration * MaxPrompts
  BY DEF RoomInv, Counts
<1>5. generated + 1 \in Requests
  BY <1>1, NextIsRequest
<1>6. ref \in Queue!SampleRef
  <2>1. latestActive \in Nat /\ now \in Nat
    BY <1>1, Limits DEF RoomInv, VersionInv, Numbered, Contents
  <2>2. NumTokens[generated + 1] \in Nat /\ now + SampleTtl \in Nat
    BY <1>5, <2>1, QueueLimits DEF Queue!QueueAssumption
  <2> QED BY <1>5, <2>1, <2>2 DEF Queue!Record, Queue!SampleRef
<1> HIDE DEF ref
<1>7. pending' \in Seq(Queue!SampleRef) /\ Len(pending') <= Len(pending) + 1
  <2>1. pending \in Seq(Queue!SampleRef)
    BY DEF RoomInv, Contents
  <2> QED BY <1>1, <1>6, <2>1
<1>8. Counts'
  <2>1. handled + 1 + (Len(wave) - 1) <= prompts
    BY <1>4, RoomFacts
  <2>2. generated + 1 + (prompts - (handled + 1)) <= iteration * MaxPrompts
    <3>1. PICK x \in Nat : x = iteration * MaxPrompts
      BY RoomFacts, Zenon
    <3>2. generated + (prompts - handled) <= x
      BY <1>4, <3>1, Zenon
    <3>3. generated + 1 + (prompts - (handled + 1)) <= x
      BY <3>2, RoomFacts
    <3> QED BY <3>1, <3>3, Zenon
  <2>3. Sequence(wave)' /\ (wave' # <<>> => pc' = "pump")
    BY <1>1, <1>3 DEF Sequence
  <2>4. handled' \in Nat /\ generated' \in Nat /\ backlog' \in Nat /\ prompts' \in 0..MaxPrompts
    BY <1>1, RoomFacts DEF RoomInv, Counts
  <2>5. handled' + Len(wave') <= prompts'
    BY <1>1, <1>3, <2>1, RoomFacts
  <2>6. generated' + (prompts' - handled') <= iteration' * MaxPrompts
    BY <1>1, <2>2, Zenon
  <2> QED BY <2>3, <2>4, <2>5, <2>6 DEF Counts
<1>9. Contents'
  BY <1>1, <1>7 DEF RoomInv, Contents, Queue!Batches, Queue!SampleRef
<1>10. Room'
  <2>1. Held = 0 /\ Held' = 0
    BY <1>1 DEF Held
  <2>2. Len(pending') \in Nat
    BY <1>7
  <2> QED BY <1>1, <1>3, <1>7, <2>1, <2>2, RoomFacts DEF RoomInv, Room
<1> QED BY <1>8, <1>9, <1>10

\* The train window: a batch leaves the queue, and is gone or comes back.
LEMMA WindowCounts ==
  ASSUME RoomInv, wave' = <<>>, UNCHANGED <<backlog, prompts, handled, generated, iteration>>
  PROVE  Counts' /\ Len(wave') = 0
<1>1. Sequence(wave)' /\ Len(wave') = 0
  <2>1. <<>> \in Seq({}) /\ Len(<<>>) = 0
    OBVIOUS
  <2> QED BY <2>1 DEF Sequence
<1>2. handled + 0 <= prompts
  BY RoomFacts DEF RoomInv, Counts
<1> QED BY <1>1, <1>2 DEF RoomInv, Counts

LEMMA ReserveRoom == ASSUME RoomInv, Reserve PROVE Counts' /\ Contents' /\ Room'
<1>1. /\ pc = "reserve" /\ wave' = <<>> /\ Queue!Reserve(handled, NoBudget)
      /\ UNCHANGED <<backlog, prompts, handled, generated, iteration, now>>
      /\ IF nextBatch' = nextBatch THEN pc' = "return" ELSE pc' = "optimize"
  BY DEF Reserve, Goto, managerVars, Queue!Reserve
<1>2. PICK n \in 0..Len(pending) :
        /\ pending' = SubSeq(pending, n + 1, Len(pending))
        /\ \/ UNCHANGED <<reserved, nextBatch>>
           \/ \E refs \in Queue!Subsequences(pending, Queue!LiveBefore(n)) :
                reserved' = [reserved EXCEPT ![nextBatch] = refs] /\ nextBatch' = nextBatch + 1
  BY <1>1 DEF Queue!Reserve
<1>3. nextBatch \in Queue!Batches /\ nextBatch \in Nat
  BY <1>1 DEF Queue!Reserve, RoomInv, OneBatch
<1>4. pending \in Seq(Queue!SampleRef) /\ n \in Nat /\ n <= Len(pending)
  BY <1>2, RoomFacts DEF RoomInv, Contents
<1>5. pending' \in Seq(Queue!SampleRef) /\ Len(pending') = Len(pending) - n
  BY <1>2, <1>4
<1>6. Len(pending) <= HighWatermark
  BY <1>1, RoomFacts DEF RoomInv, Room
<1>7. Counts' /\ Len(wave') = 0
  BY <1>1, WindowCounts
<1>8. CASE UNCHANGED <<reserved, nextBatch>>
  <2>1. Held' = 0 /\ pc' = "return"
    BY <1>1, <1>8 DEF Held
  <2>2. Contents'
    BY <1>1, <1>5, <1>8, <2>1 DEF RoomInv, Contents, Queue!Batches, Queue!SampleRef
  <2> QED BY <1>4, <1>5, <1>6, <1>7, <2>1, <2>2, RoomFacts DEF Room
<1>9. ASSUME NEW refs \in Queue!Subsequences(pending, Queue!LiveBefore(n)),
             reserved' = [reserved EXCEPT ![nextBatch] = refs], nextBatch' = nextBatch + 1
      PROVE  Contents' /\ Room'
  <2>1. Queue!LiveBefore(n) \in SUBSET (1..n)
    BY DEF Queue!LiveBefore
  <2>2. refs \in Seq(Queue!SampleRef) /\ Len(refs) <= n
    BY <1>4, <1>9, <2>1, SubsequenceFits
  <2>3. pc' = "optimize" /\ Batch' = nextBatch
    BY <1>1, <1>3, <1>9 DEF Batch
  <2>4. reserved \in [Queue!Batches -> Seq(Queue!SampleRef)]
    BY DEF RoomInv, Contents
  <2>5. reserved' \in [Queue!Batches -> Seq(Queue!SampleRef)] /\ reserved'[nextBatch] = refs
    BY <1>3, <1>9, <2>2, <2>4
  <2>6. Held' = Len(refs) /\ Len(refs) \in Nat
    BY <2>2, <2>3, <2>5 DEF Held
  <2>7. Contents'
    <3>1. now' \in Nat
      BY <1>1 DEF RoomInv, Contents
    <3> QED BY <1>3, <1>5, <2>3, <2>5, <3>1 DEF Contents, Queue!Batches, Queue!SampleRef
  <2>8. Room'
    <3>1. Len(pending) \in Nat /\ HighWatermark \in Nat
      BY RoomFacts
    <3>2. Len(pending) - n + Len(refs) + 0 <= HighWatermark
      BY <1>4, <1>6, <2>2, <2>6, <3>1
    <3> QED BY <1>5, <1>7, <2>6, <3>2 DEF Room
  <2> QED BY <2>7, <2>8
<1> QED BY <1>2, <1>7, <1>8, <1>9

\* The batch is settled: at most its samples are back in the queue.
LEMMA SettleRoom ==
  ASSUME RoomInv, pc = "optimize", pc' = "return", wave' = <<>>, now' = now,
         Queue!Settle(Batch), UNCHANGED <<backlog, prompts, handled, generated, iteration>>,
         pending' \in Seq(Queue!SampleRef), Len(pending') <= Len(pending) + Held
  PROVE  Counts' /\ Contents' /\ Room'
<1>1. Counts' /\ Len(wave') = 0
  BY WindowCounts
<1>2. reserved' = [reserved EXCEPT ![Batch] = <<>>] /\ reserved \in [Queue!Batches -> Seq(Queue!SampleRef)]
  BY DEF Queue!Settle, RoomInv, Contents
<1>3. reserved' \in [Queue!Batches -> Seq(Queue!SampleRef)]
  <2>1. <<>> \in Seq(Queue!SampleRef)
    OBVIOUS
  <2> QED BY <1>2, <2>1
<1>4. Contents'
  BY <1>3 DEF RoomInv, Contents, Queue!Batches, Queue!SampleRef
<1>5. Held' = 0 /\ Len(pending') \in Nat
  BY DEF Held
<1>6. Len(pending) + Held <= HighWatermark
  BY RoomFacts DEF RoomInv, Room
<1>7. Room'
  BY <1>1, <1>5, <1>6, RoomFacts DEF Room
<1> QED BY <1>1, <1>4, <1>7

LEMMA PublishRoom == ASSUME RoomInv, Publish PROVE Counts' /\ Contents' /\ Room'
<1>1. /\ pc = "optimize" /\ pc' = "return" /\ wave' = <<>> /\ Queue!Settle(Batch)
      /\ UNCHANGED <<now, backlog, prompts, handled, generated, iteration, pending>>
  BY DEF Publish, Goto, Queue!Ack, managerVars
<1>2. pending' \in Seq(Queue!SampleRef) /\ Len(pending') <= Len(pending) + Held
  BY <1>1, RoomFacts DEF RoomInv, Contents
<1> QED BY <1>1, <1>2, SettleRoom

LEMMA WindowRaisesRoom == ASSUME RoomInv, WindowRaises PROVE Counts' /\ Contents' /\ Room'
<1>1. /\ pc = "optimize" /\ pc' = "return" /\ wave' = <<>> /\ Queue!Settle(Batch)
      /\ UNCHANGED <<now, backlog, prompts, handled, generated, iteration>>
      /\ Queue!Release(Batch)
  BY DEF WindowRaises, Abandon, Goto, Queue!Release, managerVars
<1>2. PICK refs \in Queue!Subsequences(reserved[Batch], Queue!Returnable(Batch)) : pending' = pending \o refs
  BY <1>1 DEF Queue!Release
<1>3. /\ reserved[Batch] \in Seq(Queue!SampleRef) /\ pending \in Seq(Queue!SampleRef)
      /\ Held = Len(reserved[Batch]) /\ Len(reserved[Batch]) \in Nat
  BY <1>1 DEF RoomInv, Contents, Held
<1>4. Queue!Returnable(Batch) \in SUBSET (1..Len(reserved[Batch]))
  BY <1>3 DEF Queue!Returnable
<1>5. refs \in Seq(Queue!SampleRef) /\ Len(refs) <= Held
  <2>1. PICK m \in Nat : m = Len(reserved[Batch]) /\ m <= Len(reserved[Batch])
    BY <1>3
  <2>2. Queue!Returnable(Batch) \in SUBSET (1..m)
    BY <1>4, <2>1
  <2>3. \A sub \in Queue!Subsequences(reserved[Batch], Queue!Returnable(Batch)) :
          sub \in Seq(Queue!SampleRef) /\ Len(sub) <= m
    BY <1>3, <2>1, <2>2, SubsequenceFits
  <2> QED BY <1>2, <1>3, <2>1, <2>3
<1>6. pending' \in Seq(Queue!SampleRef) /\ Len(pending') <= Len(pending) + Held
  BY <1>2, <1>3, <1>5
<1> QED BY <1>1, <1>6, SettleRoom

LEMMA NextRoom == ASSUME RoomInv, [Next]_vars PROVE RoomInv'
<1>1. VersionInv' /\ OneBatch'
  BY NextVersions, NextBatches DEF RoomInv
<1>2. Counts' /\ Contents' /\ Room'
  <2>0. now \in Nat /\ backlog \in Nat /\ backlog + prompts \in Nat
    BY RoomFacts DEF RoomInv, Contents
  <2>1. CASE \E n \in 1..MaxPrompts : Begin(n)
    BY <2>1, BeginRoom
  <2>2. CASE Dispatch \/ Generate
    BY <2>2, DispatchRoom, GenerateRoom
  <2>3. CASE Reserve \/ Publish \/ WindowRaises
    BY <2>3, ReserveRoom, PublishRoom, WindowRaisesRoom
  <2>4. CASE Bootstrap \/ PumpEnds \/ PumpRaises
    BY <2>0, <2>4, RoomStays
    DEF Bootstrap, PumpEnds, PumpRaises, Raises, Goto, managerVars, dataVars, queueVars
  <2>5. CASE EnterNext \/ EnterRaises \/ Entered \/ ReturnNext \/ ReturnRaises \/ Returned
    BY <2>0, <2>5, RoomStays
    DEF EnterNext, EnterRaises, Entered, ReturnNext, ReturnRaises, Returned, Raises, Goto, NextTurn,
        managerVars, dataVars, queueVars
  <2>6. CASE HookReturns \/ Optimize
    BY <2>0, <2>6, RoomStays DEF HookReturns, Optimize, NextTurn, controlVars, managerVars, queueVars
  <2>7. CASE BeginActivation \/ ActivateRaises
    BY <2>0, <2>7, RoomStays DEF BeginActivation, ActivateRaises, Raises, Goto, queueVars
  <2>8. CASE Activate \/ ActivateLast
    BY <2>0, <2>8, RoomStays DEF Activate, ActivateLast, SwitchNext, NextTurn, Goto, queueVars
  <2>9. CASE Tick \/ UNCHANGED vars
    <3>1. now' \in Nat
      BY <2>0, <2>9 DEF Tick, Queue!Tick, vars, dataVars, queueVars
    <3> QED BY <2>0, <2>9, <3>1, RoomStays
        DEF Tick, Queue!Tick, vars, controlVars, dataVars, managerVars, queueVars
  <2> QED BY <2>1, <2>2, <2>3, <2>4, <2>5, <2>6, <2>7, <2>8, <2>9 DEF Next, Controller
<1> QED BY <1>1, <1>2 DEF RoomInv

LEMMA InitRoom == Init => RoomInv
<1> SUFFICES ASSUME Init PROVE RoomInv
  OBVIOUS
<1>1. /\ pc = "idle" /\ iteration = 0 /\ prompts = 0 /\ handled = 0
      /\ wave = <<>> /\ backlog = 0 /\ generated = 0
      /\ pending = <<>> /\ reserved = [b \in Queue!Batches |-> <<>>] /\ now = 0
  BY DEF Init, Queue!Init
<1>2. Sequence(wave) /\ Len(wave) = 0
  <2>1. <<>> \in Seq({}) /\ Len(<<>>) = 0
    OBVIOUS
  <2> QED BY <1>1, <2>1 DEF Sequence
<1>3. Counts
  BY <1>1, <1>2, Limits DEF Counts
<1>4. Contents
  BY <1>1 DEF Contents
<1>5. Room
  BY <1>1, <1>2, Limits DEF Room, Held
<1> QED BY <1>3, <1>4, <1>5, InitVersions, InitBatches DEF RoomInv

(***************************************************************************)
(* What is queued, in a batch and dispatched is never more than the        *)
(* watermark, for any limits and however many iterations raised: a sample  *)
(* that comes back takes its room from the next dispatch.                  *)
(***************************************************************************)
THEOREM DispatchLeavesRoom == Spec => []Backpressure
<1>1. RoomInv => Backpressure
  <2> SUFFICES ASSUME RoomInv PROVE Backpressure
    OBVIOUS
  <2>1. Queue!Depth \in Nat /\ Queue!Depth <= Len(pending) + Held
    BY DepthFits DEF RoomInv
  <2> QED BY <2>1, RoomFacts DEF RoomInv, Room, Backpressure
<1>2. RoomInv /\ [Next]_vars => RoomInv'
  BY NextRoom
<1> QED BY <1>1, <1>2, InitRoom, PTL DEF Spec

-----------------------------------------------------------------------------
(* The queue in the loop.  The policy version the callers pass follows the *)
(* active version, and the requests handed in are the first of Requests.   *)

QueueInv ==
  /\ policy = IF latestActive = NoVersion THEN 0 ELSE latestActive
  /\ seen = 1..generated

DrivenInv == RoomInv /\ QueueInv

LEMMA SameIds ==
  /\ \A refs : Queue!Ids(refs) = QP!Ids(refs)
  /\ Queue!ReservedIds = QP!ReservedIds
  BY DEF Queue!Ids, QP!Ids, Queue!ReservedIds, QP!ReservedIds, Queue!Batches, QP!Batches

LEMMA SameStale == \A ref : Queue!Stale(ref) <=> QP!Stale(ref)
  BY DEF Queue!Stale, QP!Stale, Queue!Expired, Queue!Lagging, QP!Expired, QP!Lagging

LEMMA SameAdmissible == \A ref : Queue!Admissible(ref) <=> QP!Admissible(ref)
<1>1. {b \in Queue!Batches : Queue!Live(b)} = {b \in QP!Batches : QP!Live(b)}
  BY DEF Queue!Batches, QP!Batches, Queue!Live, QP!Live
<1>2. Queue!HeldSlots = QP!HeldSlots
  BY <1>1, SameCount DEF Queue!HeldSlots, QP!HeldSlots
<1> QED BY <1>2, SameStale DEF Queue!Admissible, QP!Admissible

LEMMA SameSubmit ==
  ASSUME NEW ref, Queue!SubmitRecord(ref)
  PROVE  QP!SubmitRecord(ref)
  BY SameAdmissible
     DEF Queue!SubmitRecord, QP!SubmitRecord, Queue!FirstSubmission, QP!FirstSubmission

LEMMA SameLive == \A n : Queue!LiveBefore(n) = QP!LiveBefore(n)
  BY SameStale DEF Queue!LiveBefore, QP!LiveBefore

LEMMA SameReserve ==
  ASSUME NEW k, Queue!Reserve(k, NoBudget)
  PROVE  QP!Reserve(k, NoBudget)
<1>1. \A i : Queue!NoRoomFor(i, k, NoBudget) <=> QP!NoRoomFor(i, k, NoBudget)
  BY SameStale, SameLive, SameCount DEF Queue!NoRoomFor, QP!NoRoomFor
<1>2. \A n : Queue!ScansExactly(n, k, NoBudget) <=> QP!ScansExactly(n, k, NoBudget)
  BY <1>1 DEF Queue!ScansExactly, QP!ScansExactly
<1> QED BY <1>2, SameLive, SameSubsequences
        DEF Queue!Reserve, QP!Reserve, Queue!Batches, QP!Batches

LEMMA SameSettle ==
  ASSUME NEW b
  PROVE  /\ Queue!Ack(b) => QP!Ack(b)
         /\ Queue!Release(b) => QP!Release(b)
<1>1. Queue!Ack(b) => QP!Ack(b)
  BY SameIds DEF Queue!Ack, QP!Ack, Queue!Settle, QP!Settle, Queue!Live, QP!Live
<1>2. Queue!Release(b) => QP!Release(b)
  BY SameSubsequences
     DEF Queue!Release, QP!Release, Queue!Settle, QP!Settle, Queue!Live, QP!Live,
         Queue!Returnable, QP!Returnable
<1> QED BY <1>1, <1>2

-----------------------------------------------------------------------------
\* A new request is new to the queue, and made under a version up to the current one.
LEMMA GenerateCalls == ASSUME DrivenInv, Generate PROVE \E s \in Requests : QP!Submit(s)
<1> DEFINE ref == Queue!Record(generated + 1, latestActive, now)
<1>1. /\ generated + 1 \in Requests /\ pc = "pump"
      /\ Queue!SubmitRecord(ref)
  BY NextIsRequest DEF DrivenInv, Generate
<1>2. latestActive \in 0..policy /\ now \in 0..now
  <2>1. latestActive # NoVersion /\ latestActive \in 0..MaxIterations
    BY <1>1, Limits DEF DrivenInv, RoomInv, VersionInv, Numbered
  <2>2. policy = latestActive /\ latestActive \in Nat /\ now \in Nat
    BY <2>1, Limits DEF DrivenInv, QueueInv, RoomInv, Contents
  <2> QED BY <2>2
<1>3. ref = QP!Record(generated + 1, latestActive, now)
  BY DEF Queue!Record, QP!Record
<1> HIDE DEF ref
<1>4. QP!SubmitRecord(QP!Record(generated + 1, latestActive, now))
  BY <1>1, <1>3, SameSubmit
<1> QED BY <1>1, <1>2, <1>4 DEF QP!Submit

LEMMA ReserveCalls ==
  ASSUME DrivenInv, Reserve
  PROVE  \E k \in 0..MaxPrompts : QP!Reserve(k, NoBudget)
<1>1. Queue!Reserve(handled, NoBudget)
  BY DEF Reserve
<1>2. handled \in 0..MaxPrompts
  <2>1. handled + Len(wave) <= prompts /\ prompts <= MaxPrompts
    BY RoomFacts DEF DrivenInv, RoomInv, Counts
  <2> QED BY <2>1, RoomFacts DEF DrivenInv
<1> QED BY <1>1, <1>2, SameReserve

LEMMA WindowCalls ==
  ASSUME DrivenInv, Publish \/ WindowRaises
  PROVE  \E b \in QP!Batches : QP!Ack(b) \/ QP!Release(b)
<1>1. pc = "optimize" /\ (Queue!Ack(Batch) \/ Queue!Release(Batch))
  BY DEF Publish, WindowRaises, Abandon
<1>2. Batch \in QP!Batches
  BY <1>1 DEF DrivenInv, RoomInv, Contents, Queue!Batches, QP!Batches
<1> QED BY <1>1, <1>2, SameSettle

\* The last ack makes the next version the current policy; the first one, 0, it is already.
LEMMA ActivateLastCalls ==
  ASSUME DrivenInv, ActivateLast
  PROVE  QP!AdvancePolicy \/ UNCHANGED queueVars
<1>1. /\ pc = "activate" /\ policy' = target
      /\ UNCHANGED <<pending, reserved, acked, dropped, seen, nextBatch, now>>
  BY DEF ActivateLast, SwitchNext
<1>2. target = NextVersion /\ target \in 0..MaxIterations
  BY <1>1, TargetInRange DEF DrivenInv, RoomInv
<1>3. CASE latestActive = NoVersion
  BY <1>1, <1>2, <1>3 DEF NextVersion, DrivenInv, QueueInv, queueVars
<1>4. CASE latestActive # NoVersion
  <2>1. policy = latestActive /\ target = policy + 1 /\ policy \in Nat
    BY <1>2, <1>4, Limits DEF NextVersion, DrivenInv, QueueInv, RoomInv, VersionInv, Numbered
  <2> QED BY <1>1, <1>2, <2>1, Limits DEF QP!AdvancePolicy
<1> QED BY <1>3, <1>4

LEMMA QueueCalls == ASSUME DrivenInv, [Next]_vars PROVE [QP!Next]_(QP!vars)
<1>1. CASE Generate
  BY <1>1, GenerateCalls DEF QP!Next
<1>2. CASE Reserve
  BY <1>2, ReserveCalls DEF QP!Next
<1>3. CASE Publish \/ WindowRaises
  BY <1>3, WindowCalls DEF QP!Next
<1>4. CASE ActivateLast
  BY <1>4, ActivateLastCalls DEF QP!Next, QP!vars, queueVars
<1>5. CASE Tick
  BY <1>5 DEF Tick, Queue!Tick, QP!Tick, QP!Next
<1>6. CASE UNCHANGED queueVars
  BY <1>6 DEF queueVars, QP!vars
<1>7. CASE \/ Bootstrap \/ Dispatch \/ PumpEnds \/ PumpRaises
           \/ EnterNext \/ EnterRaises \/ Entered \/ HookReturns \/ Optimize
           \/ ReturnNext \/ ReturnRaises \/ Returned
           \/ BeginActivation \/ Activate \/ ActivateRaises
           \/ (\E n \in 1..MaxPrompts : Begin(n)) \/ UNCHANGED vars
  BY <1>6, <1>7
     DEF Bootstrap, Dispatch, PumpEnds, PumpRaises, EnterNext, EnterRaises, Entered, HookReturns,
         Optimize, ReturnNext, ReturnRaises, Returned, BeginActivation, Activate, ActivateRaises,
         Begin, vars, dataVars
<1> QED BY <1>1, <1>2, <1>3, <1>4, <1>5, <1>7 DEF Next, Controller

-----------------------------------------------------------------------------
\* latestActive moves only with the policy, seen only with generated.
LEMMA NextDriven == ASSUME DrivenInv, [Next]_vars PROVE DrivenInv'
<1>1. RoomInv'
  BY NextRoom DEF DrivenInv
<1>2. seen' = 1..generated'
  <2>1. generated \in Nat /\ seen = 1..generated
    BY RoomFacts DEF DrivenInv, QueueInv
  <2>2. CASE Generate
    <3>1. generated' = generated + 1
      BY <2>2 DEF Generate
    <3>2. seen' = seen \cup {generated + 1}
      <4>1. Queue!Record(generated + 1, latestActive, now).id = generated + 1
        BY DEF Queue!Record
      <4>2. PICK ref : ref = Queue!Record(generated + 1, latestActive, now)
        OBVIOUS
      <4> QED BY <2>2, <4>1, <4>2 DEF Generate, Queue!SubmitRecord
    <3> QED BY <2>1, <3>1, <3>2
  <2>3. CASE UNCHANGED <<seen, generated>>
    BY <2>1, <2>3
  <2>4. CASE Reserve \/ Publish \/ WindowRaises \/ ActivateLast \/ Tick
    BY <2>3, <2>4 DEF Reserve, Queue!Reserve, Publish, Queue!Ack, WindowRaises, Abandon, Queue!Release,
       ActivateLast, SwitchNext, Tick, Queue!Tick, managerVars
  <2>5. CASE UNCHANGED <<seen, acked, generated>>
    BY <2>3, <2>5
  <2>6. CASE \/ Bootstrap \/ Dispatch \/ PumpEnds \/ PumpRaises
           \/ EnterNext \/ EnterRaises \/ Entered \/ HookReturns \/ Optimize
           \/ ReturnNext \/ ReturnRaises \/ Returned
           \/ BeginActivation \/ Activate \/ ActivateRaises
           \/ (\E n \in 1..MaxPrompts : Begin(n)) \/ UNCHANGED vars
    BY <2>5, <2>6
     DEF Bootstrap, Dispatch, PumpEnds, PumpRaises, EnterNext, EnterRaises, Entered, HookReturns,
         Optimize, ReturnNext, ReturnRaises, Returned, BeginActivation, Activate, SwitchNext,
         ActivateRaises, Begin, vars, dataVars, managerVars, queueVars
  <2> QED BY <2>2, <2>4, <2>6 DEF Next, Controller
<1>3. policy' = IF latestActive' = NoVersion THEN 0 ELSE latestActive'
  <2>1. CASE ActivateLast
    <3>1. VersionInv /\ pc = "activate" /\ policy' = target
      BY <2>1 DEF DrivenInv, RoomInv, ActivateLast, SwitchNext
    <3>2. latestActive' = target /\ target # NoVersion
      BY <2>1, <3>1, ActivateLastVersions, TargetInRange
    <3> QED BY <3>1, <3>2
  <2>2. CASE ~ActivateLast
    <3>1. latestActive' = latestActive
      BY <2>2, OnlyLastActivates DEF DrivenInv, RoomInv
    <3>2. policy' = policy
      BY <2>2
      DEF Next, Controller, vars, dataVars, managerVars, queueVars, HookReturns, Tick, Queue!Tick, Begin,
          Dispatch, PumpEnds, Generate, Queue!SubmitRecord, PumpRaises, EnterNext, EnterRaises, Entered,
          Reserve, Queue!Reserve, Optimize, Publish, Queue!Ack, WindowRaises, Abandon, Queue!Release,
          ReturnNext, ReturnRaises, Returned, Bootstrap, BeginActivation, Activate, ActivateRaises
    <3> QED BY <3>1, <3>2 DEF DrivenInv, QueueInv
  <2> QED BY <2>1, <2>2
<1> QED BY <1>1, <1>2, <1>3 DEF DrivenInv, QueueInv

LEMMA InitDriven == Init => DrivenInv
<1> SUFFICES ASSUME Init PROVE DrivenInv
  OBVIOUS
<1>1. policy = 0 /\ seen = {} /\ generated = 0 /\ latestActive = NoVersion
  BY DEF Init, Queue!Init, Registry!RegistryInit
<1> QED BY <1>1, InitRoom DEF DrivenInv, QueueInv

(***************************************************************************)
(* The iterations use the queue as the queue is specified, those that      *)
(* raise included: each step of run_smoke_iteration is one call of the     *)
(* actor or none, each request is submitted once, and the version callers  *)
(* pass only goes up, by one (controller.py:204-337).                      *)
(***************************************************************************)
THEOREM IterationsDriveQueue == Spec => QP!Spec
<1>1. Init => QP!Init
  BY DEF Init, Queue!Init, QP!Init, Queue!Batches, QP!Batches
<1> QED BY <1>1, InitDriven, NextDriven, QueueCalls, PTL DEF Spec, QP!Spec

(***************************************************************************)
(* So however many iterations raise, and wherever, no sample is lost or    *)
(* trained twice: each one generated is in one place, acked and dropped    *)
(* are final, and a train batch is made of samples that are fresh then     *)
(* (controller.py:260-337, sample_queue.py:56-171).                        *)
(***************************************************************************)
SamplesKept == Queue!OnePlace /\ seen = 1..generated

THEOREM IterationsLoseNoSample == Spec => []SamplesKept /\ QP!ImplementsLedger /\ QP!FreshBatches
<1>1. QP!OnePlace /\ DrivenInv => SamplesKept
  BY SameIds
  DEF QP!OnePlace, Queue!OnePlace, QP!Distinct, Queue!Distinct, QP!Batches, Queue!Batches,
      SamplesKept, DrivenInv, QueueInv
<1>2. QP!Spec => []QP!OnePlace /\ QP!ImplementsLedger /\ QP!FreshBatches
  <2>1. QP!Spec => []QP!OnePlace
    BY QueueLimits, QP!SingleOwner
  <2>2. QP!Spec => QP!ImplementsLedger
    BY QueueLimits, QP!QueueKeepsLedger
  <2>3. QP!Spec => QP!FreshBatches
    BY QueueLimits, QP!BatchesAreFresh
  <2> QED BY <2>1, <2>2, <2>3
<1> QED BY <1>1, <1>2, IterationsDriveQueue, InitDriven, NextDriven, PTL DEF Spec

-----------------------------------------------------------------------------
(* The registry in the loop.  A rank makes at most one train step in each  *)
(* iteration, so the export is one of Checksums.                           *)

\* The rank of g has not optimized in this iteration.
Ahead(i) ==
  \/ pc \in {"bootstrap", "pump", "enter", "reserve"}
  \/ pc \in {"begin_activation", "activate"} /\ target = 0
  \/ pc = "optimize" /\ at < i

StepsInv ==
  /\ steps \in [Shared -> Nat]
  /\ \A i \in DOMAIN RankGpus :
       steps[Gpu(i)] <= iteration /\ (Ahead(i) => steps[Gpu(i)] < iteration)

ExportInv == VersionInv /\ StepsInv

LEMMA FirstRank == 1 \in DOMAIN RankGpus /\ Gpu(1) \in Shared
  BY ControllerAssumption, Limits DEF Gpu

\* What is exported is of a number of train steps up to MaxIterations.
LEMMA ExportIsVersion ==
  ASSUME ExportInv, pc = "optimize"
  PROVE  NewVersion \in 0..MaxIterations /\ NewChecksum \in Checksums
<1>1. /\ latestActive \in 0..MaxIterations /\ latestActive # NoVersion
      /\ NextVersion <= iteration /\ iteration \in 0..MaxIterations
  BY DEF ExportInv, VersionInv, Numbered
<1>2. NewVersion = NextVersion /\ NewVersion \in 0..MaxIterations
  BY <1>1, Limits DEF NewVersion, NextVersion
<1>3. steps[Gpu(1)] \in 0..MaxIterations
  BY <1>1, FirstRank, Limits DEF ExportInv, StepsInv
<1> QED BY <1>2, <1>3 DEF NewChecksum, Checksums

LEMMA RegistryCalls == ASSUME ExportInv, [Next]_vars PROVE [Registry!RegistryNext]_registryVars
<1>0. VersionInv /\ MaxIterations \in Nat
  BY Limits DEF ExportInv
<1>1. CASE Bootstrap
  <2>1. 0 \in 0..MaxIterations /\ ChecksumOf[0] \in Checksums
    BY <1>0 DEF Checksums
  <2> QED BY <1>1, <2>1 DEF Bootstrap, Registry!RegistryNext
<1>2. CASE Publish
  BY <1>2, ExportIsVersion DEF Publish, Registry!RegistryNext
<1>3. CASE BeginActivation
  <2>1. target \in 0..MaxIterations
    BY <1>0, <1>3, TargetInRange DEF BeginActivation
  <2> QED BY <1>3, <2>1 DEF BeginActivation, Registry!RegistryNext
<1>4. CASE Activate \/ ActivateLast
  <2>1. pc = "activate" /\ Registry!Ack(target, ReplicaOrder[at + 1])
    BY <1>4 DEF Activate, ActivateLast, SwitchNext
  <2>2. target \in 0..MaxIterations /\ at \in Nat /\ at < Len(ReplicaOrder)
    BY <1>0, <2>1, TargetInRange DEF VersionInv, Activating
  <2>3. ReplicaOrder[at + 1] \in Replicas
    BY <2>2, Limits DEF Replicas
  <2> QED BY <2>1, <2>2, <2>3 DEF Registry!RegistryNext
<1>5. CASE ActivateRaises
  <2>1. target \in 0..MaxIterations /\ Registry!MarkFailed(target)
    BY <1>0, <1>5, TargetInRange DEF ActivateRaises
  <2> QED BY <2>1 DEF Registry!RegistryNext
<1>6. CASE \/ Dispatch \/ PumpEnds \/ Generate \/ PumpRaises
           \/ EnterNext \/ EnterRaises \/ Entered \/ HookReturns \/ Reserve \/ Optimize
           \/ WindowRaises \/ ReturnNext \/ ReturnRaises \/ Returned
           \/ (\E n \in 1..MaxPrompts : Begin(n)) \/ Tick \/ UNCHANGED vars
  BY <1>6
     DEF Dispatch, PumpEnds, Generate, PumpRaises, EnterNext, EnterRaises, Entered, HookReturns,
         Reserve, Optimize, WindowRaises, ReturnNext, ReturnRaises, Returned, Begin, Tick,
         vars, dataVars
<1> QED BY <1>1, <1>2, <1>3, <1>4, <1>5, <1>6 DEF Next, Controller

-----------------------------------------------------------------------------
\* A step of no rank, after which no rank is ahead that was not.
LEMMA StepsStay ==
  ASSUME ExportInv, UNCHANGED <<steps, iteration>>,
         \A i \in DOMAIN RankGpus : Ahead(i)' => Ahead(i)
  PROVE  StepsInv'
  BY DEF ExportInv, StepsInv, Gpu

LEMMA OptimizeSteps == ASSUME ExportInv, Optimize PROVE StepsInv'
<1>1. /\ pc = "optimize" /\ at < Len(RankGpus) /\ at' = at + 1
      /\ steps' = [steps EXCEPT ![Gpu(at + 1)] = @ + 1]
      /\ UNCHANGED <<pc, iteration, target>>
  BY DEF Optimize, NextTurn
<1>2. /\ steps \in [Shared -> Nat] /\ at \in Nat /\ iteration \in Nat
      /\ \A i \in DOMAIN RankGpus : Gpu(i) \in Shared
      /\ at + 1 \in DOMAIN RankGpus
  BY <1>1, RankFacts, Limits DEF ExportInv, StepsInv, VersionInv, Activating, Numbered
<1>3. steps[Gpu(at + 1)] < iteration
  BY <1>1, <1>2 DEF ExportInv, StepsInv, Ahead
<1>4. /\ steps' \in [Shared -> Nat] /\ steps'[Gpu(at + 1)] = steps[Gpu(at + 1)] + 1
      /\ \A g \in Shared : g # Gpu(at + 1) => steps'[g] = steps[g]
  BY <1>1, <1>2
<1> SUFFICES ASSUME NEW i \in DOMAIN RankGpus
             PROVE  steps'[Gpu(i)] <= iteration /\ (Ahead(i)' => steps'[Gpu(i)] < iteration)
  BY <1>1, <1>4 DEF StepsInv, Gpu
<1>5. Ahead(i)' => at + 1 < i
  BY <1>1 DEF Ahead
<1>6. CASE i = at + 1
  <2>1. steps[Gpu(i)] + 1 <= iteration
    BY <1>2, <1>3, <1>6
  <2> QED BY <1>2, <1>4, <1>5, <1>6, <2>1
<1>7. CASE i # at + 1
  <2>1. Gpu(i) # Gpu(at + 1)
    BY <1>2, <1>7, ControllerAssumption DEF Gpu
  <2>2. steps'[Gpu(i)] = steps[Gpu(i)]
    BY <1>2, <1>4, <2>1
  <2>3. Ahead(i)' => Ahead(i)
    BY <1>1, <1>2, <1>5, Limits DEF Ahead
  <2> QED BY <2>2, <2>3 DEF ExportInv, StepsInv
<1> QED BY <1>6, <1>7

LEMMA NextSteps == ASSUME ExportInv, [Next]_vars PROVE ExportInv'
<1>1. VersionInv'
  BY NextVersions DEF ExportInv
<1>2. StepsInv'
  <2>1. CASE Optimize
    BY <2>1, OptimizeSteps
  <2>2. ASSUME NEW n \in 1..MaxPrompts, Begin(n) PROVE StepsInv'
    <3>1. iteration' = iteration + 1 /\ steps' = steps /\ iteration \in Nat
      BY <2>2, Limits DEF Begin, roleVars, ExportInv, VersionInv, Numbered
    <3>2. \A i \in DOMAIN RankGpus : steps[Gpu(i)] \in Nat /\ steps[Gpu(i)] <= iteration
      BY RankFacts DEF ExportInv, StepsInv
    <3> QED BY <3>1, <3>2 DEF ExportInv, StepsInv, Gpu
  <2>3. CASE Bootstrap
    BY <2>3, StepsStay DEF Bootstrap, Goto, roleVars, Ahead
  <2>4. CASE \/ Dispatch \/ PumpEnds \/ Generate \/ PumpRaises
    BY <2>4, StepsStay
       DEF Dispatch, PumpEnds, Generate, PumpRaises, Raises, Goto, roleVars, dataVars, Ahead
  <2>5. CASE \/ EnterNext \/ EnterRaises \/ Entered
    BY <2>5, StepsStay
       DEF EnterNext, EnterRaises, Entered, Raises, Goto, NextTurn, roleVars, dataVars, Ahead
  <2>6. CASE Reserve
    <3>1. /\ pc = "reserve" /\ pc' \in {"return", "optimize"} /\ UNCHANGED <<steps, iteration>>
      BY <2>6 DEF Reserve, Goto, roleVars
    <3> QED BY <3>1, StepsStay DEF Ahead
  <2>7. CASE Publish \/ WindowRaises
    <3>1. pc = "optimize" /\ pc' = "return" /\ UNCHANGED <<steps, iteration>>
      BY <2>7 DEF Publish, WindowRaises, Abandon, Goto, roleVars
    <3> QED BY <3>1, StepsStay DEF Ahead
  <2>8. CASE ReturnNext \/ ReturnRaises
    <3>1. pc = "return" /\ pc' \in {"return", "idle"} /\ UNCHANGED <<steps, iteration>>
      BY <2>8 DEF ReturnNext, ReturnRaises, Raises, Goto, NextTurn, roleVars, dataVars
    <3> QED BY <3>1, StepsStay DEF Ahead
  <2>9. CASE Returned
    <3>1. /\ pc = "return" /\ pc' \in {"return", "begin_activation", "idle"}
          /\ UNCHANGED <<steps, iteration>>
          /\ pc' = "begin_activation" => target' = target /\ target # NoVersion
      BY <2>9 DEF Returned, Raises, Goto, roleVars, dataVars
    <3>2. target \in {NoVersion, NextVersion} /\ latestActive \in Nat /\ latestActive # NoVersion
      BY <3>1, Limits DEF ExportInv, VersionInv, Numbered
    <3>3. pc' = "begin_activation" => target' # 0
      BY <3>1, <3>2 DEF NextVersion
    <3> QED BY <3>1, <3>3, StepsStay DEF Ahead
  <2>10. CASE BeginActivation \/ ActivateRaises
    BY <2>10, StepsStay
       DEF BeginActivation, ActivateRaises, Raises, Goto, roleVars, Ahead
  <2>11. CASE Activate \/ ActivateLast
    BY <2>11, StepsStay
       DEF Activate, ActivateLast, SwitchNext, NextTurn, Goto, roleVars, Ahead
  <2>12. CASE HookReturns \/ Tick \/ UNCHANGED vars
    BY <2>12, StepsStay
       DEF HookReturns, Tick, vars, controlVars, dataVars, roleVars, Ahead
  <2> QED BY <2>1, <2>2, <2>3, <2>4, <2>5, <2>6, <2>7, <2>8, <2>9, <2>10, <2>11, <2>12
          DEF Next, Controller
<1> QED BY <1>1, <1>2 DEF ExportInv

LEMMA InitSteps == Init => ExportInv
<1> SUFFICES ASSUME Init PROVE ExportInv
  OBVIOUS
<1>1. steps = [g \in Shared |-> 0] /\ iteration = 0 /\ pc = "idle"
  BY DEF Init
<1>2. StepsInv
  BY <1>1, RankFacts DEF StepsInv, Ahead
<1> QED BY <1>2, InitVersions DEF ExportInv

(***************************************************************************)
(* The iterations use the registry as it is specified: what                *)
(* ControlPlaneProofs shows of it under any caller, that a version is      *)
(* active only with all acks and failed for good, is true of it under this *)
(* one (controller.py:117-143, 289-431).                                   *)
(***************************************************************************)
THEOREM IterationsDriveRegistry == Spec => Registry!RegistrySpec
<1>1. Init => Registry!RegistryInit
  BY DEF Init
<1>2. ExportInv /\ [Next]_vars => [Registry!RegistryNext]_(Registry!registryVars)
  BY RegistryCalls DEF registryVars, Registry!registryVars
<1> QED BY <1>1, <1>2, InitSteps, NextSteps, PTL DEF Spec, Registry!RegistrySpec

-----------------------------------------------------------------------------
(* Residency in the loop.  The controller enters with the lease it has     *)
(* just read, not with one that was handed out before: what                *)
(* GpuResidencyProofs shows step by step holds of its steps all the same.  *)

RP == INSTANCE GpuResidencyProofs WITH MaxEpoch <- MaxEpochs

LEMMA ResidencyLimits == RP!LeaseAssumption /\ RP!ResidencyAssumption
  BY PartsAssumption
  DEF Residency!LeaseAssumption, RP!LeaseAssumption, Residency!Roles, RP!Roles,
      Residency!ResidencyAssumption, RP!ResidencyAssumption, Residency!Call, RP!Call,
      Residency!Token, RP!Token

LEMMA SameShared == Shared = RP!Shared
  BY DEF Shared, Residency!Shared, RP!Shared

LEMMA SameStart ==
  ASSUME NEW token, NEW holder
  PROVE  /\ Residency!EnterTrain(token, holder) <=> RP!Start("rollout", token, holder)
         /\ Residency!ExitTrain(token, holder) <=> RP!Start("trainer", token, holder)
  BY SameShared
  DEF Shared, Residency!EnterTrain, Residency!ExitTrain, Residency!Start, RP!Start, Residency!Leaving,
      RP!Leaving, Residency!Active, RP!Active, Residency!AssertActive, RP!AssertActive,
      Residency!Holds, RP!Holds

LEMMA SameToken == \A g, state : Residency!TokenOf(g, state) = RP!TokenOf(g, state)
  BY DEF Residency!TokenOf, RP!TokenOf

LEMMA SameGrant ==
  ASSUME NEW g, NEW role, NEW holder
  PROVE  Residency!Grant(g, role, holder) <=> RP!Grant(g, role, holder)
  BY SameToken
  DEF Residency!Grant, RP!Grant, Residency!Grantable, RP!Grantable, Residency!Holds, RP!Holds,
      Residency!NextEpoch, RP!NextEpoch

LEMMA SameHooks ==
  ASSUME NEW outcome
  PROVE  /\ Residency!OffloadReturns(outcome) => RP!OffloadReturns(outcome)
         /\ Residency!HydrateReturns(outcome) => RP!HydrateReturns(outcome)
<1>1. /\ Residency!Accepted(outcome) <=> RP!Accepted(outcome)
      /\ \A role, R : Residency!AfterOffload(role, R, outcome) = RP!AfterOffload(role, R, outcome)
      /\ \A role, R : Residency!AfterHydrate(role, R, outcome) = RP!AfterHydrate(role, R, outcome)
  BY DEF Residency!Accepted, RP!Accepted, Residency!AfterOffload, RP!AfterOffload,
         Residency!AfterHydrate, RP!AfterHydrate
<1>2. Residency!OffloadRejected(outcome) <=> RP!OffloadRejected(outcome)
  BY <1>1 DEF Residency!OffloadRejected, RP!OffloadRejected
<1>3. Residency!TakeOver(outcome) <=> RP!TakeOver(outcome)
  BY <1>1, SameGrant, SameToken
  DEF Residency!TakeOver, RP!TakeOver, Residency!Other, RP!Other, Residency!Arriving, RP!Arriving
<1>4. Residency!TakeOverRefused(outcome) <=> RP!TakeOverRefused(outcome)
  BY <1>1
  DEF Residency!TakeOverRefused, RP!TakeOverRefused, Residency!Other, RP!Other, Residency!Left,
      RP!Left, Residency!Grantable, RP!Grantable
<1>5. ASSUME Residency!OffloadReturns(outcome) PROVE RP!OffloadReturns(outcome)
  <2>1. PICK R \in Residency!AfterOffload(call.token.role, resident[call.token.gpu], outcome) :
          resident' = [resident EXCEPT ![call.token.gpu] = R]
    BY <1>5 DEF Residency!OffloadReturns
  <2>2. R \in RP!AfterOffload(call.token.role, resident[call.token.gpu], outcome)
    BY <1>1
  <2>3. /\ call # NoCall /\ call.hook = "offload"
        /\ RP!OffloadRejected(outcome) \/ RP!TakeOver(outcome) \/ RP!TakeOverRefused(outcome)
    BY <1>2, <1>3, <1>4, <1>5 DEF Residency!OffloadReturns
  <2> QED BY <2>1, <2>2, <2>3 DEF RP!OffloadReturns
<1>6. ASSUME Residency!HydrateReturns(outcome) PROVE RP!HydrateReturns(outcome)
  <2>1. PICK R \in Residency!AfterHydrate(call.token.role, resident[call.token.gpu], outcome) :
          resident' = [resident EXCEPT ![call.token.gpu] = R]
    BY <1>6 DEF Residency!HydrateReturns
  <2>2. R \in RP!AfterHydrate(call.token.role, resident[call.token.gpu], outcome)
    BY <1>1
  <2>3. Residency!Active(call.token.role) = RP!Active(call.token.role)
    BY DEF Residency!Active, RP!Active
  <2>4. /\ call # NoCall /\ call.hook = "hydrate" /\ call' = NoCall /\ UNCHANGED <<lease, issued>>
        /\ residency' = [residency EXCEPT ![call.token.gpu] =
             IF RP!Accepted(outcome) THEN RP!Active(call.token.role) ELSE "DEGRADED"]
    BY <1>1, <1>6, <2>3 DEF Residency!HydrateReturns
  <2> QED BY <2>1, <2>2, <2>4 DEF RP!HydrateReturns
<1> QED BY <1>5, <1>6

\* A GPU is entered or left with a well formed token, for a holder.
LEMMA TurnStarts ==
  ASSUME RP!IInv, VersionInv, EnterNext \/ ReturnNext
  PROVE  \E role \in RP!Roles, token \in RP!Token, next \in Holders : RP!Start(role, token, next)
<1> DEFINE g == Gpu(at + 1)
<1>1. /\ at + 1 \in DOMAIN RankGpus
      /\ \/ /\ WithRollout(g) /\ Residency!EnterTrain(Token(g), RankHolder[g])
         \/ /\ WithTrainer(g) /\ Residency!ExitTrain(Token(g), FirstHolder[g])
  BY RankFacts DEF EnterNext, ReturnNext, CanLeave, VersionInv, Activating
<1>2. g \in Shared /\ g \in Gpus /\ RankHolder[g] \in Holders /\ FirstHolder[g] \in Holders
  BY <1>1, RankFacts, SharedFacts
<1>3. lease[g] \in RP!LeaseState
  BY <1>2 DEF RP!IInv, RP!TypeOK, RP!LeaseTypeOK
<1> HIDE DEF g
<1>4. Token(g) = RP!TokenOf(g, lease[g])
  BY SameToken DEF Token
<1>5. ASSUME NEW role \in RP!Roles, lease[g].role = role, lease[g].holder \in Holders
      PROVE  Token(g) \in RP!Token
  BY <1>2, <1>3, <1>4, <1>5 DEF RP!TokenOf, RP!Token, RP!LeaseState
<1>6. "rollout" \in RP!Roles /\ "trainer" \in RP!Roles
  BY DEF RP!Roles
<1>7. CASE WithRollout(g) /\ Residency!EnterTrain(Token(g), RankHolder[g])
  <2>1. Token(g) \in RP!Token
    BY <1>2, <1>5, <1>6, <1>7 DEF WithRollout, Residency!Holds
  <2>2. RP!Start("rollout", Token(g), RankHolder[g])
    BY <1>7, SameStart
  <2> QED BY <1>2, <1>6, <2>1, <2>2
<1>8. CASE WithTrainer(g) /\ Residency!ExitTrain(Token(g), FirstHolder[g])
  <2>1. Token(g) \in RP!Token
    BY <1>2, <1>5, <1>6, <1>8 DEF WithTrainer, Residency!Holds
  <2>2. RP!Start("trainer", Token(g), FirstHolder[g])
    BY <1>8, SameStart
  <2> QED BY <1>2, <1>6, <2>1, <2>2
<1>9. \/ WithRollout(g) /\ Residency!EnterTrain(Token(g), RankHolder[g])
      \/ WithTrainer(g) /\ Residency!ExitTrain(Token(g), FirstHolder[g])
  BY <1>1 DEF g
<1> QED BY <1>7, <1>8, <1>9

\* Every step is one of the residency manager's, or leaves the GPUs alone.
LEMMA ResidencySteps ==
  ASSUME RP!IInv, VersionInv, [Next]_vars
  PROVE  \/ \E role \in RP!Roles, token \in RP!Token, next \in Holders : RP!Start(role, token, next)
         \/ \E outcome \in RP!Outcomes : RP!OffloadReturns(outcome) \/ RP!HydrateReturns(outcome)
         \/ UNCHANGED RP!vars
<1>1. CASE EnterNext \/ ReturnNext
  BY <1>1, TurnStarts
<1>2. CASE HookReturns
  <2>1. PICK outcome \in {"ok", "failed"} :
          Residency!OffloadReturns(outcome) \/ Residency!HydrateReturns(outcome)
    BY <1>2 DEF HookReturns
  <2>2. outcome \in RP!Outcomes
    BY DEF RP!Outcomes
  <2> QED BY <2>1, <2>2, SameHooks
<1>3. CASE UNCHANGED gpuVars
  BY <1>3 DEF gpuVars, RP!vars
<1>4. CASE \/ Bootstrap \/ Dispatch \/ PumpEnds \/ Generate \/ PumpRaises
           \/ EnterRaises \/ Entered \/ Reserve \/ Optimize \/ Publish \/ WindowRaises
           \/ ReturnRaises \/ Returned \/ BeginActivation \/ Activate \/ ActivateLast
           \/ ActivateRaises \/ (\E n \in 1..MaxPrompts : Begin(n)) \/ Tick \/ UNCHANGED vars
  BY <1>3, <1>4
     DEF Bootstrap, Dispatch, PumpEnds, Generate, PumpRaises, EnterRaises, Entered, Reserve, Optimize,
         Publish, WindowRaises, ReturnRaises, Returned, BeginActivation, Activate, ActivateLast,
         SwitchNext, ActivateRaises, Begin, Tick, vars, dataVars
<1> QED BY <1>1, <1>2, <1>4 DEF Next, Controller

LEMMA ResidencyStep ==
  ASSUME RP!IInv, VersionInv, [Next]_vars
  PROVE  RP!IInv' /\ [RP!Turns!Next]_(RP!Turns!vars)
<1>1. ASSUME NEW role \in RP!Roles, NEW token \in RP!Token, NEW next \in Holders,
             RP!Start(role, token, next)
      PROVE  RP!IInv' /\ [RP!Turns!Next]_(RP!Turns!vars)
  BY <1>1, ResidencyLimits, RP!StartIInv, RP!StartTurn
<1>2. ASSUME [RP!Next]_(RP!vars) PROVE RP!IInv' /\ [RP!Turns!Next]_(RP!Turns!vars)
  BY <1>2, ResidencyLimits, RP!NextIInv, RP!NextTurn
<1> QED BY <1>1, <1>2, ResidencySteps DEF RP!Next

LEMMA SameGpus ==
  /\ Init => RP!Init
  /\ Residency!Exclusive <=> RP!Exclusive
  /\ Residency!Settled <=> RP!Settled
<1>1. Init => RP!Init
  BY DEF Init, Residency!Init, RP!Init, Residency!LeaseInit, RP!LeaseInit, Residency!Shared, RP!Shared
<1>2. Residency!Exclusive <=> RP!Exclusive
  BY DEF Residency!Exclusive, RP!Exclusive, Residency!Roles, RP!Roles, Residency!Shared, RP!Shared
<1>3. Residency!Settled <=> RP!Settled
  BY DEF Residency!Settled, RP!Settled, Residency!Calling, RP!Calling, Residency!Active, RP!Active,
         Residency!Shared, RP!Shared
<1> QED BY <1>1, <1>2, <1>3

(***************************************************************************)
(* However an iteration goes and whichever hook fails, rollout and trainer *)
(* are never loaded on a GPU together, and they take turns on it: a role   *)
(* leaves before the turn goes to the other, which moves in on an empty    *)
(* GPU (controller.py:117-183, offload.py:202-382).                        *)
(***************************************************************************)
THEOREM IterationsTakeTurns == Spec => [](Residency!Exclusive /\ Residency!Settled) /\ RP!TakesTurns
<1>1. RP!IInv => RP!Exclusive /\ RP!Settled
  BY ResidencyLimits, RP!IInvMeans
<1>2. Init => RP!IInv /\ VersionInv /\ RP!Turns!Init
  BY SameGpus, ResidencyLimits, RP!InitIInv, RP!InitTurn, InitVersions
<1>3. RP!IInv /\ VersionInv /\ [Next]_vars => (RP!IInv /\ VersionInv)' /\ [RP!Turns!Next]_(RP!Turns!vars)
  BY ResidencyStep, NextVersions
<1> QED BY <1>1, <1>2, <1>3, SameGpus, PTL DEF Spec, RP!TakesTurns, RP!Turns!Spec

-----------------------------------------------------------------------------
(***************************************************************************)
(* Slots.  A request of the dispatch is known by the number it will be     *)
(* generated under: Owed are those of a replica.  No replica has fewer     *)
(* slots taken than requests owed, nor more than it has: what an iteration *)
(* that raised leaves taken is still there, and leaves that much less room *)
(* to the next dispatch.                                                   *)
(***************************************************************************)
FreeOf(slots) == {slot \in Replicas \X (1..MaxInFlight) : slots[slot[1]] < slot[2]}

Owed(w, first, p) == {k \in first + 1..first + Len(w) : w[k - first] = p}

SlotMaps == [Replicas -> 0..MaxInFlight]

Slots ==
  /\ inFlight \in SlotMaps /\ cursor \in DOMAIN ReplicaOrder /\ wave \in Seq(Replicas)
  /\ \A p \in Replicas : Cardinality(Owed(wave, generated, p)) <= inFlight[p]

LEMMA OrderFacts ==
  /\ Len(ReplicaOrder) \in Nat \ {0} /\ DOMAIN ReplicaOrder = 1..Len(ReplicaOrder)
  /\ \A i \in DOMAIN ReplicaOrder : ReplicaOrder[i] \in Replicas
  /\ \A p \in Replicas : \E i \in DOMAIN ReplicaOrder : ReplicaOrder[i] = p
  /\ MaxInFlight \in Nat \ {0}
BY Limits, ControllerAssumption DEF Replicas

\* From any place in the cycle every other can be reached, and only those.
LEMMA CycleReaches ==
  ASSUME NEW c \in DOMAIN ReplicaOrder
  PROVE  /\ \A d \in Nat : After(c, d) \in DOMAIN ReplicaOrder
         /\ \A r \in DOMAIN ReplicaOrder : \E d \in 0..Len(ReplicaOrder) - 1 : After(c, d) = r
<1>0. PICK L \in Nat \ {0} : L = Len(ReplicaOrder) /\ DOMAIN ReplicaOrder = 1..L
  BY OrderFacts
<1>1. c \in 1..L /\ c - 1 \in Nat
  BY <1>0
<1>2. ASSUME NEW d \in Nat PROVE After(c, d) \in DOMAIN ReplicaOrder
  <2>1. c - 1 + d \in Nat
    BY <1>1
  <2>2. (c - 1 + d) % L \in 0..L - 1
    BY <1>0, <2>1
  <2> QED BY <1>0, <2>2 DEF After
<1>3. ASSUME NEW r \in 1..L PROVE \E d \in 0..L - 1 : After(c, d) = r
  <2>1. r - 1 \in 0..L - 1
    OBVIOUS
  <2>2. CASE r >= c
    <3>1. r - c \in 0..L - 1 /\ c - 1 + (r - c) = r - 1
      BY <1>1, <2>2
    <3>2. (r - 1) % L = r - 1
      BY <1>0, <2>1
    <3> DEFINE d == r - c
    <3>3. d \in 0..L - 1 /\ c - 1 + d = r - 1
      BY <3>1
    <3> HIDE DEF d
    <3>4. (c - 1 + d) % L = r - 1
      BY <3>2, <3>3
    <3>5. After(c, d) = r
      BY <1>0, <3>4 DEF After
    <3> QED BY <3>3, <3>5
  <2>3. CASE r < c
    <3>1. r - c + L \in 0..L - 1 /\ c - 1 + (r - c + L) = (r - 1) + L
      BY <1>0, <1>1, <2>3
    <3>2. ((r - 1) + L) % L = r - 1
      BY <1>0, <2>1
    <3> DEFINE d == r - c + L
    <3>3. d \in 0..L - 1 /\ c - 1 + d = (r - 1) + L
      BY <3>1
    <3> HIDE DEF d
    <3>4. (c - 1 + d) % L = r - 1
      BY <3>2, <3>3
    <3>5. After(c, d) = r
      BY <1>0, <3>4 DEF After
    <3> QED BY <3>3, <3>5
  <2> QED BY <1>1, <2>2, <2>3
<1> QED BY <1>0, <1>2, <1>3

LEMMA FreeIsFinite ==
  ASSUME NEW slots
  PROVE  IsFiniteSet(FreeOf(slots)) /\ Cardinality(FreeOf(slots)) \in Nat
<1>1. IsFiniteSet(Replicas)
  <2>1. Replicas = {ReplicaOrder[i] : i \in 1..Len(ReplicaOrder)}
    BY Limits DEF Replicas
  <2>2. IsFiniteSet(1..Len(ReplicaOrder))
    BY Limits, FS_Interval
  <2> DEFINE f == [i \in 1..Len(ReplicaOrder) |-> ReplicaOrder[i]]
  <2>3. f \in Surjection(1..Len(ReplicaOrder), Replicas)
    BY <2>1 DEF Surjection
  <2> QED BY <2>2, <2>3, FS_Surjection
<1>2. IsFiniteSet(1..MaxInFlight)
  <2>1. MaxInFlight \in Int /\ 1 \in Int
    BY OrderFacts
  <2> QED BY <2>1, FS_Interval
<1>3. IsFiniteSet(Replicas \X (1..MaxInFlight))
  BY <1>1, <1>2, FS_Product
<1>4. FreeOf(slots) \subseteq Replicas \X (1..MaxInFlight)
  BY DEF FreeOf
<1> QED BY <1>3, <1>4, FS_Subset, FS_CardinalityType

\* The cycle finds a replica with a free slot, if there is one.
LEMMA ChoosesFree ==
  ASSUME NEW t, t.slots \in SlotMaps, t.next \in DOMAIN ReplicaOrder, FreeOf(t.slots) # {}
  PROVE  /\ Chosen(t) \in DOMAIN ReplicaOrder
         /\ t.slots[ReplicaOrder[Chosen(t)]] < MaxInFlight
<1> DEFINE c == t.next
           S == t.slots
           T == {d \in 0..Len(ReplicaOrder) - 1 : S[ReplicaOrder[After(c, d)]] < MaxInFlight}
<1>1. c \in DOMAIN ReplicaOrder /\ S \in SlotMaps /\ FreeOf(S) # {}
  OBVIOUS
<1>2. Chosen(t) = After(c, Skipped(S, c)) /\ Skipped(S, c) = Least(T)
  BY DEF Chosen, Skipped
<1> HIDE DEF c, S
<1>3. PICK r \in DOMAIN ReplicaOrder : S[ReplicaOrder[r]] < MaxInFlight
  <2>1. PICK slot \in Replicas \X (1..MaxInFlight) : S[slot[1]] < slot[2]
    BY <1>1 DEF FreeOf
  <2>2. slot[1] \in Replicas /\ slot[2] \in 1..MaxInFlight
    BY <2>1
  <2>3. PICK r \in DOMAIN ReplicaOrder : ReplicaOrder[r] = slot[1]
    BY <2>2, OrderFacts
  <2>4. S[slot[1]] \in 0..MaxInFlight /\ MaxInFlight \in Nat
    BY <1>1, <2>2, OrderFacts DEF SlotMaps
  <2>5. S[slot[1]] < MaxInFlight
    BY <2>1, <2>2, <2>4
  <2> QED BY <2>3, <2>5
<1>4. T \in SUBSET Nat /\ T # {}
  <2>1. PICK d \in 0..Len(ReplicaOrder) - 1 : After(c, d) = r
    BY <1>1, CycleReaches
  <2>2. d \in T
    BY <1>3, <2>1
  <2>3. T \in SUBSET Nat
    BY OrderFacts
  <2> HIDE DEF T
  <2> QED BY <2>2, <2>3
<1>5. Skipped(S, c) \in T
  <2> HIDE DEF T
  <2> QED BY <1>2, <1>4, LeastIs
<1>6. Skipped(S, c) \in Nat /\ S[ReplicaOrder[After(c, Skipped(S, c))]] < MaxInFlight
  BY <1>4, <1>5
<1> QED BY <1>1, <1>2, <1>6, CycleReaches DEF S

\* The slot that is taken was free, and no other slot is.
LEMMA TakesOneSlot ==
  ASSUME NEW S \in SlotMaps, NEW p \in Replicas, S[p] < MaxInFlight
  PROVE  /\ [S EXCEPT ![p] = @ + 1] \in SlotMaps
         /\ Cardinality(FreeOf([S EXCEPT ![p] = @ + 1])) = Cardinality(FreeOf(S)) - 1
<1> DEFINE new == [S EXCEPT ![p] = @ + 1]
           slot == <<p, S[p] + 1>>
<1>1. S[p] \in Nat /\ S[p] + 1 \in 1..MaxInFlight /\ MaxInFlight \in Nat
  BY OrderFacts DEF SlotMaps
<1>2. new \in SlotMaps /\ new[p] = S[p] + 1 /\ \A q \in Replicas : q # p => new[q] = S[q]
  BY <1>1 DEF SlotMaps
<1> HIDE DEF new
<1>3. slot \in FreeOf(S)
  BY <1>1 DEF FreeOf
<1>4. FreeOf(new) = FreeOf(S) \ {slot}
  <2>1. ASSUME NEW q \in Replicas, NEW n \in 1..MaxInFlight
        PROVE  new[q] < n <=> S[q] < n /\ <<q, n>> # slot
    <3>1. CASE q = p
      BY <1>1, <1>2, <3>1
    <3>2. CASE q # p
      BY <1>2, <3>2
    <3> QED BY <3>1, <3>2
  <2> HIDE DEF slot
  <2> QED BY <2>1 DEF FreeOf
<1>5. Cardinality(FreeOf(S) \ {slot}) = Cardinality(FreeOf(S)) - 1
  <2>1. IsFiniteSet(FreeOf(S))
    BY FreeIsFinite
  <2> DEFINE F == FreeOf(S)
  <2>2. slot \in F /\ IsFiniteSet(F)
    BY <1>3, <2>1
  <2> HIDE DEF F, slot
  <2>3. Cardinality(F \ {slot}) = Cardinality(F) - 1
    BY <2>2, FS_RemoveElement
  <2> QED BY <2>3 DEF F
<1> QED BY <1>2, <1>4, <1>5 DEF new

\* One request of the dispatch more, and one slot.
LEMMA AssignTakes ==
  ASSUME NEW t, t.slots \in SlotMaps, t.next \in DOMAIN ReplicaOrder, t.wave \in Seq(Replicas),
         FreeOf(t.slots) # {}
  PROVE  \E p \in Replicas :
           /\ Assign(t).slots = [t.slots EXCEPT ![p] = @ + 1] /\ Assign(t).slots \in SlotMaps
           /\ Assign(t).next \in DOMAIN ReplicaOrder
           /\ Assign(t).wave = Append(t.wave, p) /\ Assign(t).wave \in Seq(Replicas)
           /\ Cardinality(FreeOf(Assign(t).slots)) = Cardinality(FreeOf(t.slots)) - 1
<1> DEFINE p == ReplicaOrder[Chosen(t)]
<1>1. Chosen(t) \in DOMAIN ReplicaOrder /\ t.slots[p] < MaxInFlight
  BY ChoosesFree
<1>2. p \in Replicas
  BY <1>1, OrderFacts
<1>3. After(Chosen(t), 1) \in DOMAIN ReplicaOrder
  BY <1>1, CycleReaches
<1>4. /\ Assign(t).slots = [t.slots EXCEPT ![p] = @ + 1]
      /\ Assign(t).next = After(Chosen(t), 1)
      /\ Assign(t).wave = Append(t.wave, p)
  BY DEF Assign
<1> HIDE DEF p
<1>5. /\ [t.slots EXCEPT ![p] = @ + 1] \in SlotMaps
      /\ Cardinality(FreeOf([t.slots EXCEPT ![p] = @ + 1])) = Cardinality(FreeOf(t.slots)) - 1
  BY <1>1, <1>2, TakesOneSlot
<1>6. Append(t.wave, p) \in Seq(Replicas)
  BY <1>2
<1> QED BY <1>2, <1>3, <1>4, <1>5, <1>6

LEMMA OwedFinite ==
  ASSUME NEW w \in Seq(Replicas), NEW p, NEW first \in Nat
  PROVE  IsFiniteSet(Owed(w, first, p)) /\ Cardinality(Owed(w, first, p)) \in Nat
<1>1. IsFiniteSet(first + 1..first + Len(w))
  <2>1. first + 1 \in Int /\ first + Len(w) \in Int
    OBVIOUS
  <2> QED BY <2>1, FS_Interval
<1>2. Owed(w, first, p) \subseteq first + 1..first + Len(w)
  BY DEF Owed
<1> QED BY <1>1, <1>2, FS_Subset, FS_CardinalityType

\* The requests owed after one more was appended.
LEMMA OwedAppended ==
  ASSUME NEW w \in Seq(Replicas), NEW q \in Replicas, NEW p \in Replicas, NEW first \in Nat
  PROVE  Cardinality(Owed(Append(w, q), first, p)) =
           Cardinality(Owed(w, first, p)) + IF p = q THEN 1 ELSE 0
<1> DEFINE k == first + Len(w) + 1
<1>1. Len(w) \in Nat /\ Len(Append(w, q)) = Len(w) + 1 /\ k \in Nat
  OBVIOUS
<1>2. IsFiniteSet(Owed(w, first, p)) /\ Cardinality(Owed(w, first, p)) \in Nat
  BY OwedFinite
<1>3. k \notin Owed(w, first, p)
  BY <1>1 DEF Owed
<1>4. \A j \in first + 1..first + Len(w) : Append(w, q)[j - first] = w[j - first]
  <2> TAKE j \in first + 1..first + Len(w)
  <2>1. j - first \in 1..Len(w)
    BY <1>1
  <2> QED BY <2>1
<1>5. Append(w, q)[k - first] = q
  <2>1. k - first = Len(w) + 1
    BY <1>1
  <2> QED BY <2>1
<1>6. Owed(Append(w, q), first, p) = Owed(w, first, p) \cup IF p = q THEN {k} ELSE {}
  <2>1. first + 1..first + Len(Append(w, q)) = (first + 1..first + Len(w)) \cup {k}
    BY <1>1
  <2> HIDE DEF k
  <2> QED BY <1>4, <1>5, <2>1 DEF Owed
<1>7. Cardinality(Owed(w, first, p) \cup {k}) = Cardinality(Owed(w, first, p)) + 1
  <2> DEFINE O == Owed(w, first, p)
  <2>1. IsFiniteSet(O) /\ k \notin O
    BY <1>2, <1>3
  <2> HIDE DEF O, k
  <2>2. Cardinality(O \cup {k}) = Cardinality(O) + 1
    BY <2>1, FS_AddElement
  <2> QED BY <2>2 DEF O
<1>8. CASE p = q
  BY <1>2, <1>6, <1>7, <1>8
<1>9. CASE p # q
  BY <1>2, <1>6, <1>9
<1> QED BY <1>8, <1>9

\* And before the first of them is generated.
LEMMA OwedTail ==
  ASSUME NEW w \in Seq(Replicas), w # <<>>, NEW p \in Replicas, NEW first \in Nat
  PROVE  /\ Head(w) \in Replicas /\ Tail(w) \in Seq(Replicas)
         /\ Cardinality(Owed(w, first, p)) \in Nat
         /\ Cardinality(Owed(Tail(w), first + 1, p)) =
              Cardinality(Owed(w, first, p)) - IF p = Head(w) THEN 1 ELSE 0
<1>1. /\ Len(w) \in Nat \ {0} /\ Tail(w) \in Seq(Replicas) /\ Len(Tail(w)) = Len(w) - 1
      /\ Head(w) \in Replicas /\ Head(w) = w[1]
      /\ \A i \in 1..Len(Tail(w)) : Tail(w)[i] = w[i + 1]
  OBVIOUS
<1> DEFINE k == first + 1
           O == Owed(w, first, p)
<1>2. IsFiniteSet(O) /\ Cardinality(O) \in Nat
  BY OwedFinite
<1>3. k \in O <=> p = Head(w)
  <2>1. k \in first + 1..first + Len(w) /\ k - first = 1
    BY <1>1
  <2> HIDE DEF k
  <2> QED BY <1>1, <2>1 DEF Owed
<1>4. Owed(Tail(w), first + 1, p) = O \ {k}
  <2>1. ASSUME NEW j
        PROVE  j \in first + 1 + 1..first + 1 + Len(Tail(w)) <=>
                 j \in first + 1..first + Len(w) /\ j # k
    BY <1>1
  <2>2. \A j \in first + 1 + 1..first + 1 + Len(Tail(w)) : Tail(w)[j - (first + 1)] = w[j - first]
    <3> TAKE j \in first + 1 + 1..first + 1 + Len(Tail(w))
    <3>1. j - (first + 1) \in 1..Len(Tail(w)) /\ j - (first + 1) + 1 = j - first
      BY <1>1
    <3> QED BY <1>1, <3>1
  <2> HIDE DEF k
  <2> QED BY <2>1, <2>2 DEF Owed
<1>5. Cardinality(O \ {k}) = Cardinality(O) - IF p = Head(w) THEN 1 ELSE 0
  <2>1. CASE k \in O
    <3> HIDE DEF O, k
    <3>1. Cardinality(O \ {k}) = Cardinality(O) - 1
      BY <1>2, <2>1, FS_RemoveElement
    <3> QED BY <1>3, <2>1, <3>1
  <2>2. CASE k \notin O
    <3>1. O \ {k} = O
      BY <2>2
    <3>2. p # Head(w)
      BY <1>3, <2>2
    <3>3. (IF p = Head(w) THEN 1 ELSE 0) = 0
      BY <3>2
    <3>4. Cardinality(O) - 0 = Cardinality(O)
      <4> HIDE DEF O
      <4> QED BY <1>2
    <3> HIDE DEF O, k
    <3> QED BY <3>1, <3>3, <3>4, Zenon
  <2> QED BY <2>1, <2>2
<1> QED BY <1>1, <1>2, <1>4, <1>5

\* A dispatch takes a slot of the replica of each of its requests.
LEMMA AssignedSlots ==
  ASSUME Slots, wave = <<>>, generated \in Nat, Budget \in Nat, Budget <= FreeSlots
  PROVE  /\ Scheduled.slots \in SlotMaps /\ Scheduled.next \in DOMAIN ReplicaOrder
         /\ Scheduled.wave \in Seq(Replicas)
         /\ \A p \in Replicas : Cardinality(Owed(Scheduled.wave, generated, p)) <= Scheduled.slots[p]
<1> DEFINE Covered(t) == \A p \in Replicas : Cardinality(Owed(t.wave, generated, p)) <= t.slots[p]
           Good(t, n) == /\ t.slots \in SlotMaps /\ t.next \in DOMAIN ReplicaOrder
                         /\ t.wave \in Seq(Replicas) /\ Covered(t)
                         /\ Cardinality(FreeOf(t.slots)) = FreeSlots - n
           Bad == {n \in 0..Budget : ~Good(Assigned[n], n)}
<1>1. FreeSlots = Cardinality(FreeOf(inFlight)) /\ FreeSlots \in Nat
  BY FreeIsFinite DEF FreeSlots, FreeOf
<1>2. Good(Assigned[0], 0)
  <2> DEFINE base == [slots |-> inFlight, next |-> cursor, wave |-> <<>>]
  <2>1. Assigned[0] = base
    BY AssignedUnfolds
  <2>2. /\ inFlight \in SlotMaps /\ cursor \in DOMAIN ReplicaOrder /\ <<>> \in Seq(Replicas)
        /\ \A p \in Replicas : Cardinality(Owed(<<>>, generated, p)) <= inFlight[p]
    BY DEF Slots
  <2>3. FreeSlots - 0 = FreeSlots
    BY <1>1
  <2>4. base.slots = inFlight /\ base.next = cursor /\ base.wave = <<>>
    OBVIOUS
  <2> HIDE DEF base
  <2>5. Good(base, 0)
    BY <1>1, <2>2, <2>3, <2>4
  <2> QED BY <2>1, <2>5
<1>3. ASSUME NEW n \in 1..Budget, NEW t, Good(t, n - 1) PROVE Good(Assign(t), n)
  <2>1. FreeSlots - (n - 1) \in Nat \ {0} /\ FreeSlots - (n - 1) - 1 = FreeSlots - n
    BY <1>1
  <2>2. FreeOf(t.slots) # {}
    <3>1. Cardinality({}) = 0
      BY FS_EmptySet
    <3> QED BY <1>3, <2>1, <3>1
  <2>3. PICK q \in Replicas :
          /\ Assign(t).slots = [t.slots EXCEPT ![q] = @ + 1] /\ Assign(t).slots \in SlotMaps
          /\ Assign(t).next \in DOMAIN ReplicaOrder
          /\ Assign(t).wave = Append(t.wave, q) /\ Assign(t).wave \in Seq(Replicas)
          /\ Cardinality(FreeOf(Assign(t).slots)) = Cardinality(FreeOf(t.slots)) - 1
    BY <1>3, <2>2, AssignTakes
  <2>4. Cardinality(FreeOf(Assign(t).slots)) = FreeSlots - n
    BY <1>3, <2>1, <2>3
  <2>5. ASSUME NEW p \in Replicas
        PROVE  Cardinality(Owed(Assign(t).wave, generated, p)) <= Assign(t).slots[p]
    <3> DEFINE w == t.wave
               S == t.slots
    <3>1. w \in Seq(Replicas) /\ S \in SlotMaps /\ Cardinality(Owed(w, generated, p)) <= S[p]
      BY <1>3
    <3>2. Assign(t).wave = Append(w, q) /\ Assign(t).slots = [S EXCEPT ![q] = @ + 1]
      BY <2>3
    <3> HIDE DEF w, S
    <3>3. /\ Cardinality(Owed(w, generated, p)) \in Nat
          /\ Cardinality(Owed(Append(w, q), generated, p)) =
               Cardinality(Owed(w, generated, p)) + IF p = q THEN 1 ELSE 0
      <4>1. Cardinality(Owed(w, generated, p)) \in Nat
        BY <3>1, OwedFinite
      <4>2. Cardinality(Owed(Append(w, q), generated, p)) =
              Cardinality(Owed(w, generated, p)) + IF p = q THEN 1 ELSE 0
        BY <3>1, OwedAppended, Zenon
      <4> QED BY <4>1, <4>2
    <3>4. S[p] \in Nat /\ [S EXCEPT ![q] = @ + 1][p] = S[p] + IF p = q THEN 1 ELSE 0
      BY <3>1, OrderFacts DEF SlotMaps
    <3>5. Cardinality(Owed(Append(w, q), generated, p)) <= [S EXCEPT ![q] = @ + 1][p]
      BY <3>1, <3>3, <3>4
    <3> QED BY <3>2, <3>5
  <2> QED BY <2>3, <2>4, <2>5
<1>4. \A n \in 1..Budget : Good(Assigned[n - 1], n - 1) => Good(Assigned[n], n)
  <2> HIDE DEF Good
  <2> TAKE n \in 1..Budget
  <2>1. Assigned[n] = Assign(Assigned[n - 1])
    BY AssignedUnfolds
  <2> QED BY <1>3, <2>1
<1>5. Bad = {}
  <2> HIDE DEF Good
  <2> SUFFICES ASSUME Bad # {} PROVE FALSE
    OBVIOUS
  <2>1. PICK m \in Bad : \A j \in Bad : m <= j
    <3>1. Bad \in SUBSET Nat
      OBVIOUS
    <3> HIDE DEF Bad
    <3> QED BY <3>1, QueueLimits, QP!LeastElement
  <2>2. m \in 1..Budget /\ m - 1 \in 0..Budget /\ ~Good(Assigned[m], m)
    <3>1. m \in 0..Budget /\ ~Good(Assigned[m], m)
      BY <2>1
    <3> QED BY <1>2, <3>1
  <2>3. m - 1 \in Bad
    BY <1>4, <2>2
  <2>4. m \in Nat
    BY <2>2
  <2> HIDE DEF Bad
  <2> QED BY <2>1, <2>3, <2>4
<1>6. Good(Assigned[Budget], Budget)
  <2> HIDE DEF Good
  <2> QED BY <1>5
<1> QED BY <1>6 DEF Scheduled

\* A dispatch that is forgotten owes nothing.
LEMMA SlotsForgotten ==
  ASSUME Slots, generated \in Nat, UNCHANGED <<inFlight, cursor, generated>>, wave' \in {wave, <<>>}
  PROVE  Slots'
<1>1. CASE wave' = wave
  BY <1>1 DEF Slots, Owed
<1>2. CASE wave' = <<>>
  <2>1. ASSUME NEW p \in Replicas PROVE Cardinality(Owed(<<>>, generated, p)) <= inFlight[p]
    <3>1. generated + 1..generated + Len(<<>>) = {}
      <4>1. Len(<<>>) = 0
        OBVIOUS
      <4> QED BY <4>1
    <3>2. Owed(<<>>, generated, p) = {}
      BY <3>1 DEF Owed
    <3>3. Cardinality({}) = 0
      BY FS_EmptySet
    <3>4. inFlight[p] \in Nat
      BY OrderFacts DEF Slots, SlotMaps
    <3>5. 0 <= inFlight[p]
      BY <3>4
    <3>6. Cardinality(Owed(<<>>, generated, p)) = 0
      BY <3>2, <3>3, Zenon
    <3> QED BY <3>5, <3>6
  <2>2. <<>> \in Seq(Replicas)
    OBVIOUS
  <2>3. /\ inFlight' = inFlight /\ cursor' = cursor /\ generated' = generated
    OBVIOUS
  <2>4. \A p \in Replicas : Cardinality(Owed(wave', generated', p)) <= inFlight'[p]
    BY <1>2, <2>1, <2>3
  <2> QED BY <1>2, <2>2, <2>3, <2>4 DEF Slots
<1> QED BY <1>1, <1>2

LEMMA BudgetInSlots == ASSUME RoomInv PROVE Budget \in Nat /\ Budget <= FreeSlots
<1>1. /\ FreeSlots \in Nat /\ backlog \in Nat /\ prompts - handled \in Nat
      /\ Monus(HighWatermark, Queue!Depth) \in Nat
  <2>1. FreeSlots \in Nat
    BY FreeIsFinite DEF FreeSlots, FreeOf
  <2>2. prompts - handled \in Nat
    <3>1. handled + Len(wave) <= prompts
      BY DEF RoomInv, Counts
    <3> QED BY <3>1, RoomFacts
  <2>3. Monus(HighWatermark, Queue!Depth) \in Nat
    BY DepthFits, Limits DEF Monus, RoomInv
  <2> QED BY <2>1, <2>2, <2>3, RoomFacts
<1> DEFINE T == {Monus(HighWatermark, Queue!Depth), FreeSlots, backlog, prompts - handled}
<1>2. T \in SUBSET Nat /\ T # {} /\ Budget = Least(T) /\ FreeSlots \in T
  BY <1>1 DEF Budget
<1> HIDE DEF T
<1> QED BY <1>2, LeastIs

LEMMA GenerateSlots == ASSUME RoomInv, Slots, Generate PROVE Slots'
<1>1. /\ wave # <<>> /\ wave' = Tail(wave) /\ generated' = generated + 1 /\ cursor' = cursor
      /\ inFlight' = [inFlight EXCEPT ![Head(wave)] = @ - 1]
  BY DEF Generate
<1>2. wave \in Seq(Replicas) /\ inFlight \in SlotMaps /\ generated \in Nat
  BY RoomFacts DEF Slots
<1>3. Head(wave) \in Replicas /\ Tail(wave) \in Seq(Replicas)
  BY <1>1, <1>2
<1>4. ASSUME NEW p \in Replicas
      PROVE  /\ inFlight'[p] \in 0..MaxInFlight
             /\ Cardinality(Owed(wave', generated', p)) <= inFlight'[p]
  <2>1. /\ Cardinality(Owed(wave, generated, p)) \in Nat
        /\ Cardinality(Owed(Tail(wave), generated + 1, p)) =
             Cardinality(Owed(wave, generated, p)) - IF p = Head(wave) THEN 1 ELSE 0
    BY <1>1, <1>2, OwedTail
  <2>2. Cardinality(Owed(wave, generated, p)) <= inFlight[p]
    BY DEF Slots
  <2>3. /\ inFlight[p] \in 0..MaxInFlight /\ MaxInFlight \in Nat
        /\ inFlight'[p] = inFlight[p] - IF p = Head(wave) THEN 1 ELSE 0
    BY <1>1, <1>2, <1>3, OrderFacts DEF SlotMaps
  <2>4. Cardinality(Owed(Tail(wave), generated + 1, p)) \in Nat
    <3>1. generated + 1 \in Nat
      BY <1>2
    <3> QED BY <1>3, <3>1, OwedFinite, Zenon
  <2> DEFINE o == Cardinality(Owed(wave, generated, p))
             o2 == Cardinality(Owed(Tail(wave), generated + 1, p))
             s == inFlight[p]
             d == IF p = Head(wave) THEN 1 ELSE 0
  <2>5. o \in Nat /\ o2 \in Nat /\ o2 = o - d /\ o <= s /\ s \in 0..MaxInFlight /\ d \in 0..1
    BY <2>1, <2>2, <2>3, <2>4
  <2>6. inFlight'[p] = s - d /\ Cardinality(Owed(wave', generated', p)) = o2
    BY <1>1, <2>3
  <2> HIDE DEF o, o2, s, d
  <2>7. s - d \in 0..MaxInFlight /\ o2 <= s - d
    BY <2>3, <2>5
  <2> QED BY <2>6, <2>7
<1>5. inFlight' \in SlotMaps
  BY <1>1, <1>2, <1>4 DEF SlotMaps
<1> QED BY <1>1, <1>3, <1>4, <1>5 DEF Slots

LEMMA DispatchSlots == ASSUME RoomInv, Slots, Dispatch PROVE Slots'
<1>1. /\ wave = <<>> /\ inFlight' = Scheduled.slots /\ cursor' = Scheduled.next
      /\ wave' = Scheduled.wave /\ generated' = generated
  BY DEF Dispatch
<1>2. generated \in Nat
  BY RoomFacts
<1> QED BY <1>1, <1>2, BudgetInSlots, AssignedSlots DEF Slots

LEMMA NextSlots == ASSUME RoomInv, Slots, [Next]_vars PROVE Slots'
<1>1. generated \in Nat
  BY RoomFacts
<1>2. ASSUME ~Dispatch, ~Generate
      PROVE  UNCHANGED <<inFlight, cursor, generated>> /\ wave' \in {wave, <<>>}
  <2>1. CASE \E n \in 1..MaxPrompts : Begin(n)
    BY <2>1 DEF Begin
  <2>2. CASE Tick \/ HookReturns \/ UNCHANGED vars
    BY <2>2 DEF Tick, HookReturns, vars, dataVars, managerVars, controlVars
  <2>3. CASE Bootstrap \/ PumpEnds \/ PumpRaises
    BY <2>3 DEF Bootstrap, PumpEnds, PumpRaises, Raises, Goto, dataVars, managerVars
  <2>4. CASE EnterNext \/ EnterRaises \/ Entered \/ ReturnNext \/ ReturnRaises \/ Returned
    BY <2>4 DEF EnterNext, EnterRaises, Entered, ReturnNext, ReturnRaises, Returned, Raises, Goto,
                NextTurn, dataVars, managerVars
  <2>5. CASE Reserve \/ Optimize \/ Publish \/ WindowRaises
    BY <2>5 DEF Reserve, Optimize, Publish, WindowRaises, Abandon, Goto, NextTurn, managerVars
  <2>6. CASE BeginActivation
    BY <2>6 DEF BeginActivation, Raises, Goto
  <2>7. CASE Activate \/ ActivateLast \/ ActivateRaises
    BY <2>7 DEF Activate, ActivateLast, SwitchNext, ActivateRaises, Raises, Goto, NextTurn
  <2> QED BY <1>2, <2>1, <2>2, <2>3, <2>4, <2>5, <2>6, <2>7 DEF Next, Controller
<1> QED BY <1>1, <1>2, SlotsForgotten, GenerateSlots, DispatchSlots

-----------------------------------------------------------------------------
(***************************************************************************)
(* The types of the registry, call by call: this much of what              *)
(* ControlPlaneProofs shows of it is a part of the controller's own type   *)
(* invariant.                                                              *)
(***************************************************************************)
LEMMA RegisterTypes ==
  ASSUME Registry!RegistryTypeOK, NEW v \in 0..MaxIterations, NEW c \in Checksums,
         Registry!Register(v, c)
  PROVE  Registry!RegistryTypeOK'
<1>1. CASE ~Registry!Registered(v) /\ status' # status
  <2>1. /\ status' = [status EXCEPT ![v] = "REGISTERED"]
        /\ checksum' = [checksum EXCEPT ![v] = c]
        /\ latestRegistered' \in {v, latestRegistered}
        /\ UNCHANGED <<activation, latestActive, asked, heard>>
    BY <1>1 DEF Registry!Register, Registry!registryVars
  <2>2. /\ \A u \in 0..MaxIterations : Registry!Registered(u) => status'[u] = status[u]
        /\ status'[v] = "REGISTERED"
    BY <1>1, <2>1 DEF Registry!RegistryTypeOK, Registry!Registered
  <2>3. /\ status' \in [0..MaxIterations -> Registry!Status \cup {"absent"}]
        /\ checksum' \in [0..MaxIterations -> Checksums \cup {"absent"}]
    BY <2>1 DEF Registry!RegistryTypeOK, Registry!Status
  <2>4. activation # NoActivation => status'[activation.version] = status[activation.version]
    BY <2>2 DEF Registry!RegistryTypeOK, Registry!Activation, Registry!Registered
  <2>5. /\ latestRegistered' # NoVersion => Registry!Registered(latestRegistered)'
        /\ latestActive' # NoVersion => Registry!Registered(latestActive)'
    BY <2>1, <2>2 DEF Registry!RegistryTypeOK, Registry!Registered
  <2> QED BY <2>1, <2>3, <2>4, <2>5 DEF Registry!RegistryTypeOK
<1>2. CASE Registry!Registered(v) \/ status' = status
  <2>1. CASE UNCHANGED registryVars
    BY <2>1 DEF registryVars, Registry!RegistryTypeOK, Registry!Registered
  <2>2. CASE ~Registry!Registered(v) /\ status' = status
    <3>1. status[v] = "absent" /\ status' = [status EXCEPT ![v] = "REGISTERED"]
      BY <2>2 DEF Registry!Register, Registry!Registered
    <3>2. status'[v] = "REGISTERED"
      BY <3>1 DEF Registry!RegistryTypeOK
    <3> QED BY <2>2, <3>1, <3>2
  <2> QED BY <1>2, <2>1, <2>2 DEF Registry!Register, Registry!registryVars, registryVars
<1> QED BY <1>1, <1>2

LEMMA BeginTypes ==
  ASSUME Registry!RegistryTypeOK, NEW v \in 0..MaxIterations, NEW required \in SUBSET Replicas,
         Registry!BeginActivation(v, required)
  PROVE  Registry!RegistryTypeOK'
<1> DEFINE new == [version |-> v, required |-> required, acked |-> {}]
<1>1. /\ status' \in [0..MaxIterations -> Registry!Status \cup {"absent"}]
      /\ asked' \in [0..MaxIterations -> SUBSET Replicas]
      /\ heard' \in [0..MaxIterations -> SUBSET Replicas]
  BY DEF Registry!BeginActivation, Registry!RegistryTypeOK, Registry!Status
<1>2. new \in Registry!Activation
  BY DEF Registry!Activation
<1>3. /\ activation' = new /\ required # {} /\ status'[v] = "ACTIVATING"
      /\ \A u \in 0..MaxIterations : u # v => status'[u] = status[u]
  BY DEF Registry!BeginActivation, Registry!RegistryTypeOK
<1>4. /\ latestRegistered' # NoVersion => Registry!Registered(latestRegistered)'
      /\ latestActive' # NoVersion => Registry!Registered(latestActive)'
  BY <1>3 DEF Registry!BeginActivation, Registry!RegistryTypeOK, Registry!Registered
<1> QED BY <1>1, <1>2, <1>3, <1>4 DEF Registry!BeginActivation, Registry!RegistryTypeOK

LEMMA AckTypes ==
  ASSUME Registry!RegistryTypeOK, NEW v \in 0..MaxIterations, NEW w \in Replicas, Registry!Ack(v, w)
  PROVE  Registry!RegistryTypeOK'
<1>1. /\ activation \in Registry!Activation /\ activation.version = v
      /\ activation # NoActivation /\ status[v] = "ACTIVATING"
      /\ w \in activation.required /\ activation.acked \subseteq activation.required
  BY DEF Registry!Ack, Registry!Activating, Registry!RegistryTypeOK
<1>2. /\ heard' \in [0..MaxIterations -> SUBSET Replicas]
      /\ UNCHANGED <<checksum, latestRegistered, asked>>
  BY DEF Registry!Ack, Registry!RegistryTypeOK
<1>3. CASE /\ status' = [status EXCEPT ![v] = "ACTIVE_GLOBAL"]
           /\ latestActive' = v /\ activation' = NoActivation
  <2>1. /\ status' \in [0..MaxIterations -> Registry!Status \cup {"absent"}]
        /\ status'[v] = "ACTIVE_GLOBAL"
        /\ \A u \in 0..MaxIterations : u # v => status'[u] = status[u]
    BY <1>3 DEF Registry!RegistryTypeOK, Registry!Status
  <2>2. /\ latestRegistered' # NoVersion => Registry!Registered(latestRegistered)'
        /\ latestActive' # NoVersion => Registry!Registered(latestActive)'
    BY <1>2, <1>3, <2>1 DEF Registry!RegistryTypeOK, Registry!Registered
  <2> QED BY <1>2, <1>3, <2>1, <2>2 DEF Registry!RegistryTypeOK
<1>4. CASE /\ Registry!Acked(w) # activation.required
           /\ activation' = [activation EXCEPT !.acked = Registry!Acked(w)]
           /\ UNCHANGED <<status, latestActive>>
  <2>1. /\ activation'.version = v /\ activation'.acked = Registry!Acked(w)
        /\ activation'.required = activation.required
        /\ activation' \in Registry!Activation
    BY <1>1, <1>4 DEF Registry!Activation, Registry!Acked
  <2>2. Registry!Acked(w) \subseteq activation.required
    BY <1>1 DEF Registry!Acked
  <2> QED BY <1>1, <1>2, <1>4, <2>1, <2>2 DEF Registry!RegistryTypeOK, Registry!Registered
<1> QED BY <1>3, <1>4 DEF Registry!Ack

LEMMA MarkFailedTypes ==
  ASSUME Registry!RegistryTypeOK, NEW v \in 0..MaxIterations, Registry!MarkFailed(v)
  PROVE  Registry!RegistryTypeOK'
<1>1. /\ status' \in [0..MaxIterations -> Registry!Status \cup {"absent"}]
      /\ status'[v] = "FAILED"
      /\ \A u \in 0..MaxIterations : u # v => status'[u] = status[u]
  BY DEF Registry!MarkFailed, Registry!RegistryTypeOK, Registry!Status
<1>2. UNCHANGED <<checksum, latestRegistered, latestActive, asked, heard>>
  BY DEF Registry!MarkFailed
<1>3. /\ latestRegistered' # NoVersion => Registry!Registered(latestRegistered)'
      /\ latestActive' # NoVersion => Registry!Registered(latestActive)'
  BY <1>1, <1>2 DEF Registry!RegistryTypeOK, Registry!Registered
<1>4. CASE activation' = NoActivation
  BY <1>1, <1>2, <1>3, <1>4 DEF Registry!RegistryTypeOK
<1>5. CASE ~Registry!Activating(v) /\ UNCHANGED activation
  <2>1. activation # NoActivation =>
          activation.version \in 0..MaxIterations /\ activation.version # v
    BY <1>5 DEF Registry!Activating, Registry!RegistryTypeOK, Registry!Activation
  <2> QED BY <1>1, <1>2, <1>3, <1>5, <2>1 DEF Registry!RegistryTypeOK
<1> QED BY <1>4, <1>5 DEF Registry!MarkFailed

LEMMA RegistryTypes ==
  ASSUME Registry!RegistryTypeOK, [Registry!RegistryNext]_registryVars
  PROVE  Registry!RegistryTypeOK'
<1>1. CASE UNCHANGED registryVars
  BY <1>1 DEF registryVars, Registry!RegistryTypeOK, Registry!Registered
<1>2. CASE Registry!RegistryNext
  <2>1. PICK v \in 0..MaxIterations :
          \/ \E c \in Checksums : Registry!Register(v, c)
          \/ \E required \in SUBSET Replicas : Registry!BeginActivation(v, required)
          \/ \E w \in Replicas : Registry!Ack(v, w)
          \/ Registry!MarkFailed(v)
    BY <1>2 DEF Registry!RegistryNext
  <2> QED BY <2>1, RegisterTypes, BeginTypes, AckTypes, MarkFailedTypes
<1> QED BY <1>1, <1>2

-----------------------------------------------------------------------------
(***************************************************************************)
(* The course of an iteration: what the loop counter, the returns still to *)
(* make and the version to activate are in each phase.                     *)
(***************************************************************************)
Course ==
  /\ pc \notin {"enter", "return", "optimize", "activate"} => at = 0
  /\ pc = "optimize" => at <= Len(RankGpus)
  /\ returns \in 0..2 /\ (returns > 0 <=> pc = "return")
  /\ pc \notin {"return", "begin_activation", "activate"} => target = NoVersion
  /\ roleVersion \in [Replicas -> 0..MaxIterations \cup {NoVersion}]

CourseInv == VersionInv /\ Course

\* A phase that is entered: its loop begins, with the returns it is to make.
LEMMA PhaseBegins ==
  ASSUME Course, UNCHANGED roleVersion, NEW v, NEW times \in 0..2, Goto(pc', v, times),
         times > 0 <=> pc' = "return",
         pc' \notin {"return", "begin_activation", "activate"} => v = NoVersion
  PROVE  Course'
<1>1. at' = 0 /\ returns' = times /\ target' = v
  BY DEF Goto
<1>2. 0 <= Len(RankGpus)
  BY Limits
<1> QED BY <1>1, <1>2 DEF Course

LEMMA CourseStays ==
  ASSUME Course, UNCHANGED <<pc, at, returns, target, roleVersion>>
  PROVE  Course'
BY DEF Course

LEMMA BeginCourse == ASSUME Course, NEW n \in 1..MaxPrompts, Begin(n) PROVE Course'
<1>1. /\ pc = "idle" /\ pc' \in {"bootstrap", "pump"}
      /\ UNCHANGED <<at, returns, target, roleVersion>>
  BY DEF Begin, roleVars
<1> QED BY <1>1 DEF Course

LEMMA RollCourse ==
  ASSUME Course, Bootstrap \/ Dispatch \/ PumpEnds \/ Generate \/ PumpRaises PROVE Course'
<1>1. CASE Bootstrap
  <2>1. Goto(pc', 0, 0) /\ pc' = "begin_activation" /\ UNCHANGED roleVersion
    BY <1>1 DEF Bootstrap, Goto, roleVars
  <2> QED BY <2>1, PhaseBegins
<1>2. CASE PumpEnds \/ PumpRaises
  <2>1. Goto(pc', NoVersion, 0) /\ pc' \in {"enter", "idle"} /\ UNCHANGED roleVersion
    BY <1>2 DEF PumpEnds, PumpRaises, Raises, Goto, dataVars, roleVars
  <2> QED BY <2>1, PhaseBegins
<1>3. CASE Dispatch \/ Generate
  BY <1>3, CourseStays DEF Dispatch, Generate, roleVars
<1> QED BY <1>1, <1>2, <1>3

LEMMA WindowCourse ==
  ASSUME CourseInv, Reserve \/ Optimize \/ Publish \/ WindowRaises PROVE Course'
<1>1. CASE Reserve
  <2>1. /\ pc' \in {"return", "optimize"} /\ UNCHANGED roleVersion
        /\ pc' = "return" => Goto(pc', NoVersion, 2)
        /\ pc' = "optimize" => Goto(pc', NoVersion, 0)
    BY <1>1 DEF Reserve, Goto, roleVars
  <2> QED BY <2>1, PhaseBegins DEF CourseInv
<1>2. CASE Optimize
  <2>1. /\ pc = "optimize" /\ at < Len(RankGpus) /\ at' = at + 1
        /\ UNCHANGED <<pc, returns, target, roleVersion>>
    BY <1>2 DEF Optimize, NextTurn
  <2>2. at \in Nat /\ Len(RankGpus) \in Nat
    BY Limits DEF CourseInv, VersionInv, Activating
  <2> QED BY <2>1, <2>2 DEF CourseInv, Course
<1>3. CASE Publish
  <2>1. pc' = "return" /\ Goto(pc', NewVersion, 1) /\ UNCHANGED roleVersion
    BY <1>3 DEF Publish, Goto, roleVars
  <2> QED BY <2>1, PhaseBegins DEF CourseInv
<1>4. CASE WindowRaises
  <2>1. pc' = "return" /\ Goto(pc', NoVersion, 1) /\ UNCHANGED roleVersion
    BY <1>4 DEF WindowRaises, Abandon, Goto, roleVars
  <2> QED BY <2>1, PhaseBegins DEF CourseInv
<1> QED BY <1>1, <1>2, <1>3, <1>4

LEMMA GpuLoopCourse ==
  ASSUME Course, \/ EnterNext \/ EnterRaises \/ Entered \/ ReturnNext \/ ReturnRaises \/ Returned
                 \/ HookReturns
  PROVE  Course'
<1>1. CASE EnterNext \/ ReturnNext
  <2>1. pc \in {"enter", "return"} /\ UNCHANGED <<pc, returns, target, roleVersion>>
    BY <1>1 DEF EnterNext, ReturnNext, NextTurn, roleVars
  <2> QED BY <2>1 DEF Course
<1>2. CASE EnterRaises \/ Entered
  <2>1. Goto(pc', NoVersion, 0) /\ pc' \in {"idle", "reserve"} /\ UNCHANGED roleVersion
    BY <1>2 DEF EnterRaises, Entered, Raises, Goto, dataVars, roleVars
  <2> QED BY <2>1, PhaseBegins
<1>3. CASE ReturnRaises
  <2>1. /\ UNCHANGED roleVersion
        /\ \/ Goto(pc', NoVersion, 1) /\ pc' = "return"
           \/ Goto(pc', NoVersion, 0) /\ pc' = "idle"
    BY <1>3 DEF ReturnRaises, Raises, Goto, dataVars, roleVars
  <2> QED BY <2>1, PhaseBegins
<1>4. CASE Returned
  <2>1. /\ UNCHANGED roleVersion
        /\ \/ Goto(pc', NoVersion, 1) /\ pc' = "return"
           \/ Goto(pc', target, 0) /\ pc' = "begin_activation"
           \/ Goto(pc', NoVersion, 0) /\ pc' = "idle"
    BY <1>4 DEF Returned, Raises, Goto, dataVars, roleVars
  <2> QED BY <2>1, PhaseBegins
<1>5. CASE HookReturns
  BY <1>5, CourseStays DEF HookReturns, controlVars, roleVars
<1> QED BY <1>1, <1>2, <1>3, <1>4, <1>5

LEMMA SwitchRole ==
  ASSUME CourseInv, SwitchNext
  PROVE  /\ pc = "activate" /\ target \in 0..MaxIterations
         /\ roleVersion' \in [Replicas -> 0..MaxIterations \cup {NoVersion}]
<1>1. /\ pc = "activate"
      /\ roleVersion' = [roleVersion EXCEPT ![ReplicaOrder[at + 1]] = target]
  BY DEF SwitchNext
<1>2. target \in 0..MaxIterations
  BY <1>1, TargetInRange DEF CourseInv
<1> QED BY <1>1, <1>2 DEF CourseInv, Course

LEMMA ActivationCourse ==
  ASSUME CourseInv, BeginActivation \/ Activate \/ ActivateLast \/ ActivateRaises PROVE Course'
<1>1. CASE BeginActivation
  <2>1. /\ UNCHANGED roleVersion
        /\ \/ Goto(pc', target, 0) /\ pc' = "activate"
           \/ Goto(pc', NoVersion, 0) /\ pc' = "idle"
    BY <1>1 DEF BeginActivation, Raises, Goto, roleVars
  <2> QED BY <2>1, PhaseBegins DEF CourseInv
<1>2. CASE Activate
  <2>1. pc = "activate" /\ UNCHANGED <<pc, returns, target>>
    BY <1>2 DEF Activate, SwitchNext, NextTurn
  <2>2. roleVersion' \in [Replicas -> 0..MaxIterations \cup {NoVersion}]
    BY <1>2, SwitchRole DEF Activate
  <2> QED BY <2>1, <2>2 DEF CourseInv, Course
<1>3. CASE ActivateLast
  <2>1. pc' \in {"pump", "idle"} /\ at' = 0 /\ returns' = 0 /\ target' = NoVersion
    BY <1>3 DEF ActivateLast, Goto
  <2>2. roleVersion' \in [Replicas -> 0..MaxIterations \cup {NoVersion}]
    BY <1>3, SwitchRole DEF ActivateLast
  <2> QED BY <2>1, <2>2 DEF Course
<1>4. CASE ActivateRaises
  <2>1. Goto(pc', NoVersion, 0) /\ pc' = "idle" /\ UNCHANGED roleVersion
    BY <1>4 DEF ActivateRaises, Raises, Goto, roleVars
  <2> QED BY <2>1, PhaseBegins DEF CourseInv
<1> QED BY <1>1, <1>2, <1>3, <1>4

LEMMA NextCourse == ASSUME CourseInv, [Next]_vars PROVE CourseInv'
<1>1. VersionInv'
  BY NextVersions DEF CourseInv
<1>2. Course'
  <2>1. CASE Tick \/ UNCHANGED vars
    BY <2>1, CourseStays DEF CourseInv, Tick, vars, controlVars, dataVars, roleVars
  <2> QED BY <2>1, BeginCourse, RollCourse, WindowCourse, GpuLoopCourse, ActivationCourse
          DEF Next, Controller, CourseInv
<1> QED BY <1>1, <1>2 DEF CourseInv

LEMMA InitCourse == Init => CourseInv /\ Slots
<1> SUFFICES ASSUME Init PROVE CourseInv /\ Slots
  OBVIOUS
<1>1. CourseInv
  BY InitVersions DEF Init, CourseInv, Course
<1>2. generated = 0 /\ wave = <<>> /\ cursor = 1 /\ inFlight = [p \in Replicas |-> 0]
  BY DEF Init
<1>3. \A p : Owed(wave, generated, p) = {}
  <2>1. generated + 1..generated + Len(wave) = {}
    BY <1>2
  <2> QED BY <2>1 DEF Owed
<1>4. Cardinality({}) = 0
  BY FS_EmptySet
<1>5. inFlight \in SlotMaps /\ cursor \in DOMAIN ReplicaOrder /\ wave \in Seq(Replicas)
  BY <1>2, OrderFacts DEF SlotMaps
<1>6. \A p \in Replicas : Cardinality(Owed(wave, generated, p)) <= inFlight[p]
  <2> TAKE p \in Replicas
  <2>1. Cardinality(Owed(wave, generated, p)) = 0
    BY <1>3, <1>4, Zenon
  <2>2. inFlight[p] = 0
    BY <1>2
  <2> QED BY <2>1, <2>2
<1> QED BY <1>1, <1>5, <1>6 DEF Slots

-----------------------------------------------------------------------------
\* The invariants together give the types.
LEMMA ControlTypes ==
  ASSUME CourseInv, GpuInv, RoomInv
  PROVE  /\ pc \in Phases /\ iteration \in 0..MaxIterations
         /\ prompts \in 0..MaxPrompts /\ handled \in 0..prompts
         /\ wave # <<>> => pc = "pump"
         /\ at \in 0..Len(RankGpus) + Len(ReplicaOrder)
         /\ returns \in 0..2 /\ (returns > 0 <=> pc = "return")
         /\ target \in 0..MaxIterations \cup {NoVersion}
         /\ pc \in {"begin_activation", "activate"} => target # NoVersion
         /\ backlog \in Nat
<1>1. pc \in Phases /\ iteration \in 0..MaxIterations
  BY DEF CourseInv, VersionInv, Numbered
<1>2. handled \in 0..prompts
  <2>1. handled + Len(wave) <= prompts
    BY DEF RoomInv, Counts
  <2> QED BY <2>1, RoomFacts
<1>3. prompts \in 0..MaxPrompts /\ backlog \in Nat /\ (wave # <<>> => pc = "pump")
  BY DEF RoomInv, Counts
<1>4. at \in 0..Len(RankGpus) + Len(ReplicaOrder)
  <2>1. at \in Nat /\ Len(RankGpus) \in Nat /\ Len(ReplicaOrder) \in Nat
    BY Limits DEF GpuInv, Calls
  <2>2. at <= Len(RankGpus) \/ at < Len(ReplicaOrder) \/ at = 0
    BY DEF CourseInv, Course, VersionInv, Activating, GpuInv, Calls
  <2> QED BY <2>1, <2>2
<1>5. target \in 0..MaxIterations \cup {NoVersion}
  <2>1. CASE pc \in {"begin_activation", "activate"}
    BY <2>1, TargetInRange DEF CourseInv
  <2>2. CASE pc = "return"
    <3>1. target \in {NoVersion, NextVersion} /\ NextVersion <= iteration
      BY <2>2 DEF CourseInv, VersionInv, Numbered
    <3>2. NextVersion \in Nat
      BY Limits DEF CourseInv, VersionInv, Numbered, NextVersion
    <3> QED BY <1>1, <3>1, <3>2, Limits
  <2>3. CASE pc \notin {"return", "begin_activation", "activate"}
    BY <2>3 DEF CourseInv, Course
  <2> QED BY <2>1, <2>2, <2>3
<1>6. pc \in {"begin_activation", "activate"} => target # NoVersion
  BY TargetInRange DEF CourseInv
<1>7. returns \in 0..2 /\ (returns > 0 <=> pc = "return")
  BY DEF CourseInv, Course
<1> QED BY <1>1, <1>2, <1>3, <1>4, <1>5, <1>6, <1>7

LEMMA ManagerTypes ==
  ASSUME CourseInv, RoomInv, ExportInv, Slots
  PROVE  /\ generated \in 0..MaxIterations * MaxPrompts
         /\ inFlight \in [Replicas -> 0..MaxInFlight]
         /\ cursor \in DOMAIN ReplicaOrder /\ paused \in BOOLEAN /\ wave \in Seq(Replicas)
         /\ roleVersion \in [Replicas -> 0..MaxIterations \cup {NoVersion}]
         /\ steps \in [Shared -> 0..MaxIterations]
<1>1. generated \in 0..MaxIterations * MaxPrompts
  <2>1. PICK d \in Nat : MaxIterations = iteration + d
    <3>1. MaxIterations - iteration \in Nat /\ MaxIterations = iteration + (MaxIterations - iteration)
      BY RoomFacts, Limits
    <3> QED BY <3>1
  <2>2. d * MaxPrompts \in Nat /\ MaxIterations * MaxPrompts = iteration * MaxPrompts + d * MaxPrompts
    <3>1. \A a, b \in Nat : a * b \in Nat
      OBVIOUS
    <3>2. iteration \in Nat /\ MaxPrompts \in Nat
      BY RoomFacts
    <3>3. d * MaxPrompts \in Nat
      BY <3>1, <3>2, Zenon
    <3>4. (iteration + d) * MaxPrompts = iteration * MaxPrompts + d * MaxPrompts
      BY <3>2
    <3>5. MaxIterations * MaxPrompts = (iteration + d) * MaxPrompts
      BY <2>1, Zenon
    <3> QED BY <3>3, <3>4, <3>5, Zenon
  <2>3. PICK x, y, z \in Nat : x = iteration * MaxPrompts /\ y = d * MaxPrompts /\ z = generated
    BY <2>2, RoomFacts, Zenon
  <2>4. handled + Len(wave) <= prompts /\ generated + (prompts - handled) <= iteration * MaxPrompts
    BY DEF RoomInv, Counts
  <2>5. z + (prompts - handled) <= x
    BY <2>3, <2>4, Zenon
  <2>6. prompts - handled \in Nat
    BY <2>4, RoomFacts
  <2>7. z \in 0..x + y
    BY <2>5, <2>6
  <2>8. MaxIterations * MaxPrompts = x + y
    BY <2>2, <2>3, Zenon
  <2> QED BY <2>3, <2>7, <2>8, Zenon
<1>2. steps \in [Shared -> 0..MaxIterations]
  <2>1. /\ steps \in [Shared -> Nat] /\ iteration \in 0..MaxIterations /\ MaxIterations \in Nat
        /\ \A i \in DOMAIN RankGpus : steps[Gpu(i)] <= iteration
    BY Limits DEF ExportInv, StepsInv, VersionInv, Numbered
  <2>2. \A g \in Shared : steps[g] \in 0..MaxIterations
    BY <2>1, RankFacts
  <2> QED BY <2>1, <2>2
<1>3. paused \in BOOLEAN
  BY DEF CourseInv, VersionInv, Serving
<1> QED BY <1>1, <1>2, <1>3 DEF Slots, SlotMaps, CourseInv, Course

LEMMA PartTypes ==
  /\ QP!TypeOK => Queue!TypeOK
  /\ RP!IInv => Residency!TypeOK
<1>1. QP!TypeOK => Queue!TypeOK
  BY SameRefs DEF QP!TypeOK, Queue!TypeOK, QP!Batches, Queue!Batches
<1>2. RP!IInv => RP!TypeOK
  BY DEF RP!IInv
<1>3. RP!TypeOK => Residency!TypeOK
  <2>1. RP!Roles = Residency!Roles /\ RP!Token = Residency!Token /\ RP!LeaseState = Residency!LeaseState
    BY DEF RP!Roles, Residency!Roles, RP!Token, Residency!Token, RP!LeaseState, Residency!LeaseState
  <2>2. RP!Call = Residency!Call /\ RP!ResidencyState = Residency!ResidencyState
    BY <2>1 DEF RP!Call, Residency!Call, RP!ResidencyState, Residency!ResidencyState
  <2>3. RP!Shared = Residency!Shared
    BY DEF RP!Shared, Residency!Shared
  <2>4. RP!LeaseTypeOK => Residency!LeaseTypeOK
    BY <2>1 DEF RP!LeaseTypeOK, Residency!LeaseTypeOK
  <2>5. /\ \A role : RP!Leaving(role) = Residency!Leaving(role)
        /\ \A role : RP!Arriving(role) = Residency!Arriving(role)
    BY DEF RP!Leaving, Residency!Leaving, RP!Arriving, Residency!Arriving
  <2> QED BY <2>1, <2>2, <2>3, <2>4, <2>5 DEF RP!TypeOK, Residency!TypeOK
<1> QED BY <1>1, <1>2, <1>3

(***************************************************************************)
(* However many iterations raise, and wherever: no replica is given a      *)
(* request without a free slot, no slot is given back twice, the number of *)
(* samples stays within the prompts of the iterations begun, loops within  *)
(* their ranks, GPUs and replicas, and queue, registry and residency       *)
(* manager are in states of theirs (controller.py:185-258, 260-431).       *)
(***************************************************************************)
THEOREM ControllerTypeCorrect == Spec => [](TypeOK /\ Slots)
<1>1. Init => CourseInv /\ Slots /\ GpuInv /\ RoomInv /\ ExportInv /\ RP!IInv /\ Registry!RegistryTypeOK
  <2>1. Init => Registry!RegistryTypeOK
    BY DEF Init, Registry!RegistryInit, Registry!RegistryTypeOK
  <2> QED BY <2>1, InitCourse, InitGpus, InitRoom, InitSteps, SameGpus, ResidencyLimits, RP!InitIInv
<1>2. /\ CourseInv /\ Slots /\ GpuInv /\ RoomInv /\ ExportInv /\ RP!IInv /\ Registry!RegistryTypeOK
      /\ [Next]_vars
      => (CourseInv /\ Slots /\ GpuInv /\ RoomInv /\ ExportInv /\ RP!IInv /\ Registry!RegistryTypeOK)'
  <2> SUFFICES ASSUME CourseInv, Slots, GpuInv, RoomInv, ExportInv, RP!IInv, Registry!RegistryTypeOK,
                      [Next]_vars
               PROVE  /\ CourseInv' /\ Slots' /\ GpuInv' /\ RoomInv' /\ ExportInv' /\ RP!IInv'
                      /\ Registry!RegistryTypeOK'
    OBVIOUS
  <2>1. CourseInv' /\ Slots' /\ GpuInv' /\ RoomInv' /\ ExportInv'
    BY NextCourse, NextSlots, NextGpus, NextRoom, NextSteps
  <2>2. RP!IInv'
    BY ResidencyStep DEF CourseInv
  <2>3. Registry!RegistryTypeOK'
    BY RegistryCalls, RegistryTypes
  <2> QED BY <2>1, <2>2, <2>3
<1>3. QP!Spec => []QP!TypeOK
  BY QueueLimits, QP!TypeCorrect
<1>4. /\ CourseInv /\ Slots /\ GpuInv /\ RoomInv /\ ExportInv /\ RP!IInv /\ Registry!RegistryTypeOK
      /\ QP!TypeOK
      => TypeOK /\ Slots
  BY ControlTypes, ManagerTypes, PartTypes DEF TypeOK
<1> QED BY <1>1, <1>2, <1>3, <1>4, IterationsDriveQueue, PTL DEF Spec
=============================================================================
