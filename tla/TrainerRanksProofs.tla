------------------------- MODULE TrainerRanksProofs -------------------------
(***************************************************************************)
(* The trainer ranks, for any number of ranks, batches, versions, failing  *)
(* calls and crashes.                                                      *)
(*                                                                         *)
(* First their stores.  What a store may serve comes from the disk or from *)
(* the write it has just ended; so the invariant says of both that what is *)
(* whole in them was once written to its end.                              *)
(*                                                                         *)
(* Then the ranks.  Calls of earlier windows may still be on their way to  *)
(* a rank, and a late hydrate gives it an old counter; so the invariant    *)
(* says which call in an inbox may be of the present window (Line), and of *)
(* each counter, kept by the driver or on its way, how far it may be       *)
(* behind (Counting).  Trained and Artifacts add what a batch and a        *)
(* version have been through when they are acked and activated.            *)
(***************************************************************************)
EXTENDS TrainerRanks, FiniteSetTheorems, TLAPS

Shape ==
  /\ whole = [v \in Versions |-> whole[v]]
  /\ disk = [v \in Versions |-> disk[v]]
  /\ cache = [r \in Ranks |-> cache[r]]
  /\ \A r \in Ranks : cache[r] = [v \in Versions |-> cache[r][v]]

\* A directory is empty, torn, or holds what was once written to its end.
DiskIsWholeOrTorn == \A v \in Versions : disk[v] \in {NoFile, Torn} \union whole[v]

Stored == Shape /\ DiskIsWholeOrTorn /\ StoreServesWholeWrites

LEMMA InitStored == Init => Stored
BY DEF Init, Stored, Shape, DiskIsWholeOrTorn, StoreServesWholeWrites, EmptyStores

\* The driver and the other calls of the ranks touch no artifact.
LEMMA FilesStay == ASSUME Stored, UNCHANGED files PROVE Stored'
BY DEF Stored, Shape, DiskIsWholeOrTorn, StoreServesWholeWrites, files

\* A store that opens has what is on disk, and no manifest is torn then.
LEMMA OpenStored == ASSUME Stored, Open PROVE Stored'
<1> USE DEF Stored, Open
<1>1. CASE UNCHANGED cache
  BY <1>1, FilesStay DEF files
<1>2. CASE /\ cache' = [r \in Ranks |-> disk]
           /\ \A v \in Versions : disk[v] # Torn
  BY <1>2 DEF Shape, DiskIsWholeOrTorn, StoreServesWholeWrites
<1> QED BY <1>1, <1>2

LEMMA CrashStored == ASSUME Stored, Crash PROVE Stored'
BY DEF Stored, Crash, Shape, DiskIsWholeOrTorn, StoreServesWholeWrites, EmptyStores

LEMMA LoadStored ==
  ASSUME Stored, NEW r \in Ranks, NEW v \in Versions, Load(r, v) PROVE Stored'
<1>1. disk[v] \in whole[v]
  BY DEF Stored, DiskIsWholeOrTorn, Load
<1>2. /\ cache' = [cache EXCEPT ![r][v] = disk[v]]
      /\ UNCHANGED <<disk, whole>>
  BY DEF Load
<1>3. Shape' /\ DiskIsWholeOrTorn'
  BY <1>2 DEF Stored, Shape, DiskIsWholeOrTorn
<1>4. StoreServesWholeWrites'
  BY <1>1, <1>2 DEF Stored, Shape, StoreServesWholeWrites
<1> QED BY <1>3, <1>4 DEF Stored

\* A write that begins tears the directory; no store remembers it yet.
LEMMA BeginWriteStored == ASSUME Stored, BeginWrite PROVE Stored'
<1> DEFINE d == VersionDir(Head(inbox[0]))
<1>1. /\ disk' = [disk EXCEPT ![d] = Torn]
      /\ UNCHANGED <<cache, whole>>
  BY DEF BeginWrite, Remembered
<1> HIDE DEF d
<1> QED BY <1>1 DEF Stored, Shape, DiskIsWholeOrTorn, StoreServesWholeWrites

\* A write that ends is whole from then on, on disk and in rank 0's store.
LEMMA FinishWriteStored == ASSUME Stored, FinishWrite PROVE Stored'
<1> DEFINE d == VersionDir(Head(inbox[0]))
           w == Payload(d)
<1>1. /\ disk' = [disk EXCEPT ![d] = w]
      /\ whole' = [whole EXCEPT ![d] = @ \union {w}]
      /\ cache' \in {cache, [cache EXCEPT ![0][d] = w]}
  BY DEF FinishWrite, Remembered
<1> HIDE DEF d, w
<1>2. /\ \A v \in Versions : whole[v] \subseteq whole'[v]
      /\ d \in Versions => w \in whole'[d]
  BY <1>1 DEF Stored, Shape
<1>3. Shape' /\ DiskIsWholeOrTorn'
  <2>1. /\ whole' = [v \in Versions |-> whole'[v]]
        /\ disk' = [v \in Versions |-> disk'[v]]
    BY <1>1 DEF Stored, Shape
  <2>2. /\ cache' = [r \in Ranks |-> cache'[r]]
        /\ \A r \in Ranks : cache'[r] = [v \in Versions |-> cache'[r][v]]
    <3>1. CASE cache' = cache
      BY <3>1 DEF Stored, Shape
    <3>2. CASE cache' = [cache EXCEPT ![0][d] = w]
      BY <3>2 DEF Stored, Shape
    <3> QED BY <1>1, <3>1, <3>2
  <2>3. ASSUME NEW v \in Versions PROVE disk'[v] \in {NoFile, Torn} \union whole'[v]
    <3>1. CASE v = d
      BY <1>1, <1>2, <3>1 DEF Stored, Shape
    <3>2. CASE v # d
      BY <1>1, <3>2 DEF Stored, Shape, DiskIsWholeOrTorn
    <3> QED BY <3>1, <3>2
  <2> QED BY <2>1, <2>2, <2>3 DEF Shape, DiskIsWholeOrTorn
<1>4. StoreServesWholeWrites'
  <2> SUFFICES ASSUME NEW r \in Ranks, NEW v \in Versions, cache'[r][v] # NoFile
               PROVE  cache'[r][v] \in whole'[v]
    BY DEF StoreServesWholeWrites
  <2>1. CASE cache'[r][v] = cache[r][v]
    BY <1>2, <2>1 DEF Stored, StoreServesWholeWrites
  <2>2. CASE cache'[r][v] # cache[r][v]
    <3>1. v = d /\ cache'[r][v] = w
      BY <1>1, <2>2, RankZero DEF Stored, Shape
    <3> QED BY <1>2, <3>1
  <2> QED BY <2>1, <2>2
<1> QED BY <1>3, <1>4 DEF Stored

LEMMA NextStored == ASSUME Stored, [Next]_vars PROVE Stored'
<1>1. CASE UNCHANGED vars
  BY <1>1, FilesStay DEF vars
<1>2. CASE Open
  BY <1>2, OpenStored
<1>3. CASE Crash
  BY <1>3, CrashStored
<1>4. CASE Driver
  BY <1>4, FilesStay DEF Driver, BeginWindow, Proceed, Register, Ack, CleanUp,
                         Release, Activate, ActivateFails, RunAgain
<1>5. ASSUME NEW r \in Ranks, Run(r) PROVE Stored'
  BY <1>5, FilesStay DEF Run
<1>6. CASE BeginWrite
  BY <1>6, BeginWriteStored
<1>7. CASE FinishWrite
  BY <1>7, FinishWriteStored
<1>8. CASE WriteFails
  BY <1>8, FilesStay DEF WriteFails
<1>9. ASSUME NEW r \in Ranks, NEW v \in Versions, Load(r, v) PROVE Stored'
  BY <1>9, LoadStored
<1> QED BY <1>1, <1>2, <1>3, <1>4, <1>5, <1>6, <1>7, <1>8, <1>9 DEF Next

\* However calls fail and whenever the process crashes, no store hands out a
\* payload that was not written to its end (weight_store.py:179-232).
THEOREM WholeWritesOnly == Spec => []StoreServesWholeWrites
<1>1. Init => Stored
  BY InitStored
<1>2. Stored /\ [Next]_vars => Stored'
  BY NextStored
<1>3. Stored => StoreServesWholeWrites
  BY DEF Stored
<1> QED BY <1>1, <1>2, <1>3, PTL DEF Spec

-----------------------------------------------------------------------------
(* The calls under way.                                                    *)

Prepares == {"initialize", "hydrate", "cleanup"}
Stages   == {"optimize", "export", "offload"}

\* The calls of a window, each with the argument it may be given.
Calls ==
  [do : {"initialize", "offload", "cleanup"}, arg : {0}]
    \union [do : {"hydrate"}, arg : Nat]
    \union [do : {"optimize"}, arg : Batches]
    \union [do : {"export"}, arg : Versions]

DriverTypes ==
  /\ pc \in Down \union {"idle", "dead", "activate"} \union Prepares \union Stages
  /\ batch \in Batches /\ acked \in SUBSET Batches
  /\ active \in Versions
  /\ kept \in [Ranks -> Nat \union {Unknown}]
  /\ failed \in [Batches -> Nat] /\ failures \in Nat

ActorTypes ==
  /\ rank \in [Ranks -> [ready : BOOLEAN, counter : Nat, shard : Seq(Batches)]]
  /\ inbox \in [Ranks -> Seq(Calls)]
  /\ answers \in [Ranks -> {"none", "waiting", "done", "failed"}]
  /\ writing \in BOOLEAN

FileTypes ==
  /\ checksums = [v \in Versions |-> checksums[v]]
  /\ disk = [v \in Versions |-> disk[v]]

TypeOK == DriverTypes /\ ActorTypes /\ FileTypes

\* The call a rank is at.
First(r, call) == Len(inbox[r]) >= 1 /\ inbox[r][1].do = call

\* Behind the call a rank is at wait only preparations and clean-ups: the driver
\* goes on to a later stage when every rank has answered, and an answer that
\* counts leaves the inbox empty.
OnlyPrepares ==
  /\ \A r \in Ranks : \A i \in 2..Len(inbox[r]) : inbox[r][i].do \in Prepares
  /\ \A r \in Ranks : answers[r] \in {"done", "failed"} => Len(inbox[r]) = 0

\* In a stage a rank has nothing to do but that stage.
OnlyTheStage ==
  /\ pc \in Stages => \A r \in Ranks :
       /\ Len(inbox[r]) <= 1
       /\ Len(inbox[r]) = 1 =>
            inbox[r][1].do = pc /\ (pc = "optimize" => inbox[r][1].arg = batch)
  /\ pc = "activate" => \A r \in Ranks : Len(inbox[r]) = 0

\* An export is of the version after the active one, even one that an earlier
\* window gave up; and a window trains a batch not acked yet.
OnlyTheNext ==
  /\ writing => First(0, "export")
  /\ \A r \in Ranks : First(r, "export") => inbox[r][1].arg = active /\ active < MaxVersion
  /\ pc \in {"activate"} \union Prepares \union Stages => active < MaxVersion
  /\ pc \in Prepares \union Stages => batch \notin acked

Line == OnlyPrepares /\ OnlyTheStage /\ OnlyTheNext

\* The last call of a rank's inbox, when a call goes to every rank.
Sends(call, args) ==
  /\ inbox' = [r \in Ranks |-> Append(inbox[r], [do |-> call, arg |-> args[r]])]
  /\ answers' = [r \in Ranks |-> "waiting"]
  /\ UNCHANGED <<rank, writing>>

\* What that means for each rank.
Arrives(call, args) ==
  /\ \A r \in Ranks :
       /\ Len(inbox[r]) \in Nat /\ Len(inbox'[r]) = Len(inbox[r]) + 1
       /\ \A i \in 1..Len(inbox[r]) : inbox'[r][i] = inbox[r][i]
       /\ inbox'[r][Len(inbox[r]) + 1] = [do |-> call, arg |-> args[r]]
       /\ answers'[r] = "waiting"
  /\ UNCHANGED <<rank, writing>>

\* A rank leaves its first call in state s, with answer a.
Finishes(r, s, a) ==
  /\ Len(inbox[r]) >= 1
  /\ s \in {rank[r], Returned(rank[r], inbox[r][1])}
  /\ a \in {"done", "failed"} /\ (a = "done" => s = Returned(rank[r], inbox[r][1]))
  /\ rank' = [rank EXCEPT ![r] = s]
  /\ Answer(r, a)
  /\ writing' \in {writing, FALSE} /\ (writing' => r # 0)
  /\ UNCHANGED <<driver, failed, failures>>

LEMMA Appended ==
  ASSUME NEW S, NEW q \in Seq(S), NEW c \in S
  PROVE  /\ Append(q, c) \in Seq(S) /\ Len(Append(q, c)) = Len(q) + 1
         /\ Append(q, c)[Len(q) + 1] = c
         /\ \A i \in 1..Len(q) : Append(q, c)[i] = q[i]
OBVIOUS

LEMMA Popped ==
  ASSUME NEW S, NEW q \in Seq(S), Len(q) >= 1
  PROVE  /\ Head(q) = q[1] /\ q[1] \in S
         /\ Tail(q) \in Seq(S) /\ Len(Tail(q)) = Len(q) - 1
         /\ \A i \in 1..Len(q) - 1 : Tail(q)[i] = q[i + 1]
OBVIOUS

\* What a call sent to every rank changes in the inboxes.
LEMMA SendFacts ==
  ASSUME ActorTypes, NEW call, NEW args,
         \A r \in Ranks : [do |-> call, arg |-> args[r]] \in Calls,
         Sends(call, args)
  PROVE  ActorTypes' /\ Arrives(call, args)
<1>1. ASSUME NEW r \in Ranks
      PROVE  /\ inbox'[r] \in Seq(Calls)
             /\ Len(inbox[r]) \in Nat /\ Len(inbox'[r]) = Len(inbox[r]) + 1
             /\ \A i \in 1..Len(inbox[r]) : inbox'[r][i] = inbox[r][i]
             /\ inbox'[r][Len(inbox[r]) + 1] = [do |-> call, arg |-> args[r]]
  <2> DEFINE c == [do |-> call, arg |-> args[r]]
             q == inbox[r]
  <2>1. q \in Seq(Calls) /\ c \in Calls /\ inbox'[r] = Append(q, c)
    BY DEF ActorTypes, Sends
  <2> HIDE DEF c, q
  <2>2. Len(q) \in Nat
    BY <2>1
  <2> QED BY <2>1, <2>2, Appended DEF c, q
<1>2. inbox' \in [Ranks -> Seq(Calls)]
  BY <1>1 DEF Sends
<1>3. /\ answers' = [r \in Ranks |-> "waiting"]
      /\ rank' \in [Ranks -> [ready : BOOLEAN, counter : Nat, shard : Seq(Batches)]]
      /\ writing' \in BOOLEAN
      /\ UNCHANGED <<rank, writing>>
  BY DEF Sends, ActorTypes
<1>4. answers' \in [Ranks -> {"none", "waiting", "done", "failed"}]
  BY <1>3
<1> QED BY <1>1, <1>2, <1>3, <1>4 DEF ActorTypes, Arrives

LEMMA PostSends ==
  ASSUME NEW call, Post(call)
  PROVE  Sends(call, [r \in Ranks |-> Argument(call, r)]) /\ pc' = call
BY DEF Post, Sends

\* What a finished call changes.
LEMMA FinishFacts ==
  ASSUME ActorTypes, NEW r \in Ranks, NEW s, NEW a, Finishes(r, s, a)
  PROVE  /\ inbox[r] \in Seq(Calls) /\ Len(inbox[r]) \in Nat /\ inbox[r][1] \in Calls
         /\ Len(inbox'[r]) = Len(inbox[r]) - 1
         /\ \A i \in 1..Len(inbox'[r]) : inbox'[r][i] = inbox[r][i + 1]
         /\ \A k \in Ranks : k # r => /\ inbox'[k] = inbox[k]
                                      /\ rank'[k] = rank[k] /\ answers'[k] = answers[k]
         /\ rank'[r] = s
         /\ answers'[r] = IF Len(inbox[r]) = 1 THEN a ELSE answers[r]
         /\ inbox' \in [Ranks -> Seq(Calls)]
         /\ answers' \in [Ranks -> {"none", "waiting", "done", "failed"}]
<1> DEFINE q == inbox[r]
<1>1. q \in Seq(Calls) /\ Len(q) >= 1 /\ inbox' = [inbox EXCEPT ![r] = Tail(q)]
      /\ answers' = IF Len(q) = 1 THEN [answers EXCEPT ![r] = a] ELSE answers
  BY DEF ActorTypes, Finishes, Answer
<1> HIDE DEF q
<1>2. Len(q) \in Nat
  BY <1>1
<1>3. /\ q[1] \in Calls /\ Tail(q) \in Seq(Calls) /\ Len(Tail(q)) = Len(q) - 1
      /\ \A i \in 1..Len(q) - 1 : Tail(q)[i] = q[i + 1]
  BY <1>1, Popped
<1>4. inbox'[r] = Tail(q) /\ (\A k \in Ranks : k # r => inbox'[k] = inbox[k])
      /\ inbox' \in [Ranks -> Seq(Calls)]
  BY <1>1, <1>3 DEF ActorTypes
<1>5. a \in {"done", "failed"} /\ rank' = [rank EXCEPT ![r] = s]
  BY DEF Finishes
<1>6. /\ answers'[r] = IF Len(q) = 1 THEN a ELSE answers[r]
      /\ \A k \in Ranks : k # r => answers'[k] = answers[k]
      /\ answers' \in [Ranks -> {"none", "waiting", "done", "failed"}]
  BY <1>1, <1>5 DEF ActorTypes
<1>7. rank'[r] = s /\ (\A k \in Ranks : k # r => rank'[k] = rank[k])
  BY <1>5 DEF ActorTypes
<1> QED BY <1>1, <1>2, <1>3, <1>4, <1>6, <1>7 DEF q

RankStates == [ready : BOOLEAN, counter : Nat, shard : Seq(Batches)]

\* What a call leaves behind when it returns.
LEMMA Returns ==
  ASSUME NEW s \in RankStates, NEW call \in Calls
  PROVE  /\ Returned(s, call) \in RankStates
         /\ call.do = "optimize" => /\ Returned(s, call).shard = Append(s.shard, call.arg)
                                    /\ Returned(s, call).counter = s.counter + 1
                                    /\ call.arg \in Batches
         /\ call.do = "hydrate"  => /\ Returned(s, call).shard = s.shard
                                    /\ Returned(s, call).counter = call.arg
                                    /\ call.arg \in Nat
         /\ call.do \notin {"optimize", "hydrate"} =>
              Returned(s, call).shard = s.shard /\ Returned(s, call).counter = s.counter
<1>1. CASE call.do = "optimize"
  <2>1. call.arg \in Batches
    BY <1>1 DEF Calls
  <2>2. Returned(s, call) = [s EXCEPT !.counter = @ + 1, !.shard = Append(@, call.arg)]
    BY <1>1 DEF Returned
  <2>3. Append(s.shard, call.arg) \in Seq(Batches) /\ s.counter + 1 \in Nat
    BY <2>1 DEF RankStates
  <2>4. /\ Returned(s, call).shard = Append(s.shard, call.arg)
        /\ Returned(s, call).counter = s.counter + 1
    BY <2>2 DEF RankStates
  <2>5. Returned(s, call) =
          [ready |-> s.ready, counter |-> s.counter + 1, shard |-> Append(s.shard, call.arg)]
    BY <2>2 DEF RankStates
  <2>6. Returned(s, call) \in RankStates
    BY <2>3, <2>5 DEF RankStates
  <2> QED BY <1>1, <2>1, <2>4, <2>6
<1>2. CASE call.do = "hydrate"
  <2>1. call.arg \in Nat
    BY <1>2 DEF Calls
  <2>2. Returned(s, call) = [s EXCEPT !.ready = TRUE, !.counter = call.arg]
    BY <1>2, <2>1, RanksAssumption DEF Returned
  <2> QED BY <1>2, <2>1, <2>2 DEF RankStates
<1>3. CASE call.do \notin {"optimize", "hydrate"}
  <2>1. Returned(s, call) \in {s, [s EXCEPT !.ready = TRUE]}
    BY <1>3 DEF Returned
  <2> QED BY <1>3, <2>1 DEF RankStates
<1> QED BY <1>1, <1>2, <1>3

LEMMA FinishedTypes ==
  ASSUME ActorTypes, NEW r \in Ranks, NEW s, NEW a, Finishes(r, s, a)
  PROVE  ActorTypes' /\ rank[r] \in RankStates /\ s \in RankStates
<1>1. rank[r] \in RankStates /\ inbox[r][1] \in Calls
  BY FinishFacts DEF ActorTypes, RankStates
<1>2. s \in RankStates
  BY <1>1, Returns DEF Finishes
<1>3. rank' \in [Ranks -> RankStates]
  BY <1>2 DEF Finishes, ActorTypes, RankStates
<1>4. writing' \in BOOLEAN
  BY DEF Finishes, ActorTypes
<1> QED BY <1>1, <1>2, <1>3, <1>4, FinishFacts DEF ActorTypes, RankStates

-----------------------------------------------------------------------------
(* The actions, by what they do to the inboxes.                            *)

Args(call) == [r \in Ranks |-> Argument(call, r)]

LEMMA PostArrives ==
  ASSUME TypeOK, NEW call \in Prepares \union Stages, Post(call),
         call = "hydrate" => kept \in [Ranks -> Nat]
  PROVE  ActorTypes' /\ Arrives(call, Args(call)) /\ pc' = call
<1>1. Sends(call, Args(call)) /\ pc' = call
  BY DEF Post, Sends, Args
<1>2. ASSUME NEW r \in Ranks PROVE [do |-> call, arg |-> Args(call)[r]] \in Calls
  <2>1. /\ call = "hydrate" => Args(call)[r] = kept[r]
        /\ call = "optimize" => Args(call)[r] = batch
        /\ call = "export" => Args(call)[r] = active
        /\ call \notin {"hydrate", "optimize", "export"} => Args(call)[r] = 0
    BY DEF Args, Argument
  <2> QED BY <2>1 DEF TypeOK, DriverTypes, Calls, Prepares, Stages
<1> QED BY <1>1, <1>2, SendFacts DEF TypeOK

LEMMA BeginWindowArrives ==
  ASSUME TypeOK, NEW b \in Batches, BeginWindow(b)
  PROVE  /\ pc' \in {"initialize", "hydrate"}
         /\ ActorTypes' /\ Arrives(pc', Args(pc'))
         /\ pc' = "hydrate" => kept \in [Ranks -> Nat]
<1> DEFINE fresh == \E r \in Ranks : kept[r] = Unknown
<1>1. CASE fresh
  <2>1. Post("initialize")
    BY <1>1 DEF BeginWindow
  <2> QED BY <2>1, PostArrives DEF Prepares
<1>2. CASE ~fresh
  <2>1. Post("hydrate")
    BY <1>2 DEF BeginWindow
  <2>2. kept \in [Ranks -> Nat]
    BY <1>2 DEF TypeOK, DriverTypes
  <2> QED BY <2>1, <2>2, PostArrives DEF Prepares
<1> QED BY <1>1, <1>2

LEMMA Counters ==
  ASSUME ActorTypes PROVE [r \in Ranks |-> rank[r].counter] \in [Ranks -> Nat]
BY DEF ActorTypes

\* Which state is kept when the driver goes on from one call to the next.
LEMMA ProceedArrives ==
  ASSUME TypeOK, Proceed
  PROVE  /\ AllDone /\ ActorTypes'
         /\ \/ /\ pc = "initialize" /\ pc' = "hydrate"
               /\ kept' = [r \in Ranks |-> rank[r].counter]
               /\ Arrives("hydrate", kept')
            \/ /\ pc = "hydrate" /\ pc' = "optimize"
               /\ kept' = [r \in Ranks |-> rank[r].counter]
               /\ Arrives("optimize", Args("optimize"))
            \/ /\ pc = "optimize" /\ pc' = "export" /\ kept' = kept
               /\ Arrives("export", Args("export"))
<1>1. CASE pc = "initialize"
  <2>1. /\ Sends("hydrate", kept') /\ AllDone /\ pc' = "hydrate"
        /\ kept' = [r \in Ranks |-> rank[r].counter]
    BY <1>1 DEF Proceed, Sends, States
  <2>2. \A r \in Ranks : [do |-> "hydrate", arg |-> kept'[r]] \in Calls
    BY <2>1, Counters DEF TypeOK, Calls
  <2>3. ActorTypes' /\ Arrives("hydrate", kept')
    BY <2>1, <2>2, SendFacts DEF TypeOK
  <2> QED BY <1>1, <2>1, <2>3
<1>2. CASE pc = "hydrate"
  <2>1. Post("optimize") /\ AllDone /\ kept' = [r \in Ranks |-> rank[r].counter]
    BY <1>2 DEF Proceed, States
  <2> QED BY <1>2, <2>1, PostArrives DEF Stages
<1>3. CASE pc = "optimize"
  <2>1. Post("export") /\ AllDone /\ kept' = kept
    BY <1>3 DEF Proceed, States
  <2> QED BY <1>3, <2>1, PostArrives DEF Stages
<1> QED BY <1>1, <1>2, <1>3 DEF Proceed

LEMMA RegisterArrives ==
  ASSUME TypeOK, Register
  PROVE  /\ pc' \in {"offload", "cleanup"} /\ ActorTypes' /\ Arrives(pc', Args(pc'))
<1>1. CASE Post("offload")
  BY <1>1, PostArrives DEF Stages
<1>2. CASE Post("cleanup")
  BY <1>2, PostArrives DEF Prepares
<1> QED BY <1>1, <1>2 DEF Register

LEMMA CleanUpArrives ==
  ASSUME TypeOK, CleanUp
  PROVE  pc' = "cleanup" /\ ActorTypes' /\ Arrives("cleanup", Args("cleanup"))
<1>1. Post("cleanup")
  BY DEF CleanUp
<1> QED BY <1>1, PostArrives DEF Prepares

LEMMA RunFinishes ==
  ASSUME ActorTypes, NEW r \in Ranks, Run(r)
  PROVE  (\E s, a : Finishes(r, s, a)) /\ UNCHANGED files /\ UNCHANGED writing
<1> SUFFICES \E s, a : Finishes(r, s, a)
  BY DEF Run
<1>1. inbox[r] \in Seq(Calls) /\ inbox[r] # <<>>
  BY DEF Run, ActorTypes
<1>2. Len(inbox[r]) >= 1 /\ Head(inbox[r]) = inbox[r][1]
  BY <1>1
<1> DEFINE call == inbox[r][1]
<1> HIDE DEF call
<1>3. /\ UNCHANGED <<driver, failed, failures>> /\ writing' = writing
      /\ r = 0 => ~writing
  BY DEF Run
<1>4. \/ Answer(r, "done") /\ rank' = [rank EXCEPT ![r] = Returned(@, call)]
      \/ Answer(r, "failed") /\ \E s \in RaisedIn(rank[r], call) : rank' = [rank EXCEPT ![r] = s]
      \/ Answer(r, "failed") /\ rank' = rank
  BY <1>2 DEF Run, call
<1>5. CASE Answer(r, "done") /\ rank' = [rank EXCEPT ![r] = Returned(@, call)]
  <2>1. PICK s : s = Returned(rank[r], call)
    OBVIOUS
  <2>2. Finishes(r, s, "done")
    BY <1>2, <1>3, <1>5, <2>1 DEF Finishes, call
  <2> QED BY <2>2
<1>6. ASSUME NEW s \in {rank[r], Returned(rank[r], call)}, Answer(r, "failed"),
             rank' = [rank EXCEPT ![r] = s]
      PROVE  \E t, x : Finishes(r, t, x)
  <2>1. Finishes(r, s, "failed")
    BY <1>2, <1>3, <1>6 DEF Finishes, call
  <2> QED BY <2>1
<1>7. CASE Answer(r, "failed") /\ \E s \in RaisedIn(rank[r], call) : rank' = [rank EXCEPT ![r] = s]
  BY <1>6, <1>7 DEF RaisedIn
<1>8. CASE Answer(r, "failed") /\ rank' = rank
  <2>1. rank' = [rank EXCEPT ![r] = rank[r]]
    BY <1>8 DEF ActorTypes
  <2> QED BY <1>6, <1>8, <2>1
<1> QED BY <1>4, <1>5, <1>7, <1>8

\* The end of a write is the end of rank 0's export; it leaves the rank as it was.
LEMMA WriteFinishes ==
  ASSUME ActorTypes, First(0, "export"), FinishWrite \/ WriteFails
  PROVE  \E s, a : s = rank[0] /\ Finishes(0, s, a)
<1>1. PICK s : s = rank[0]
  OBVIOUS
<1>2. Len(inbox[0]) >= 1 /\ Returned(rank[0], inbox[0][1]) = s
  BY <1>1 DEF First, Returned
<1>3. rank' = [rank EXCEPT ![0] = s]
  BY <1>1, RankZero DEF FinishWrite, WriteFails, ActorTypes, driver, Answer
<1>4. /\ UNCHANGED <<driver, failed, failures>> /\ writing' = FALSE
      /\ Answer(0, "done") \/ Answer(0, "failed")
  BY DEF FinishWrite, WriteFails, history
<1>5. Finishes(0, s, "done") \/ Finishes(0, s, "failed")
  BY <1>1, <1>2, <1>3, <1>4 DEF Finishes
<1> QED BY <1>1, <1>5

LEMMA InitTypes == Init => TypeOK
<1> SUFFICES ASSUME Init PROVE TypeOK
  OBVIOUS
<1>1. DriverTypes
  BY RanksAssumption DEF Init, DriverTypes, Down, FirstBatch, NothingKept, NoFailures, Versions
<1>2. ActorTypes
  <2>1. /\ <<>> \in Seq(Calls) /\ <<>> \in Seq(Batches)
        /\ rank = [r \in Ranks |-> [ready |-> FALSE, counter |-> 0, shard |-> <<>>]]
        /\ inbox = [r \in Ranks |-> <<>>] /\ answers = [r \in Ranks |-> "none"]
        /\ writing = FALSE
    BY DEF Init, NewRanks, NoCalls, NoAnswers
  <2> QED BY <2>1 DEF ActorTypes
<1>3. FileTypes
  BY DEF Init, FileTypes, NewRegistry
<1> QED BY <1>1, <1>2, <1>3 DEF TypeOK

LEMMA CrashTypes == ASSUME TypeOK, Crash PROVE TypeOK'
<1>1. DriverTypes'
  BY RanksAssumption DEF Crash, DriverTypes, Down, FirstBatch, NothingKept, NoFailures, Versions
<1>2. ActorTypes'
  <2>1. /\ <<>> \in Seq(Calls) /\ <<>> \in Seq(Batches)
        /\ rank' = [r \in Ranks |-> [ready |-> FALSE, counter |-> 0, shard |-> <<>>]]
        /\ inbox' = [r \in Ranks |-> <<>>] /\ answers' = [r \in Ranks |-> "none"]
        /\ writing' = FALSE
    BY DEF Crash, NewRanks, NoCalls, NoAnswers
  <2> QED BY <2>1 DEF ActorTypes
<1>3. FileTypes'
  BY DEF Crash, FileTypes, NewRegistry, TypeOK
<1> QED BY <1>1, <1>2, <1>3 DEF TypeOK

\* Every action of the driver keeps its variables in their ranges.
LEMMA DriverKeepsTypes == ASSUME TypeOK, Line, Driver PROVE TypeOK'
<1> USE DEF TypeOK
<1>1. ASSUME NEW b \in Batches, BeginWindow(b) PROVE TypeOK'
  <2>1. DriverTypes'
    BY <1>1, BeginWindowArrives DEF BeginWindow, DriverTypes, Prepares, history
  <2>2. FileTypes'
    BY <1>1 DEF BeginWindow, FileTypes, files
  <2> QED BY <1>1, <2>1, <2>2, BeginWindowArrives
<1>2. CASE Proceed
  <2>1. kept' = [r \in Ranks |-> rank[r].counter] \/ kept' = kept
    BY <1>2, ProceedArrives
  <2>2. kept' \in [Ranks -> Nat \union {Unknown}]
    BY <2>1, Counters DEF DriverTypes
  <2>3. pc' \in Prepares \union Stages
    BY <1>2, ProceedArrives DEF Prepares, Stages
  <2>4. DriverTypes'
    BY <1>2, <2>2, <2>3 DEF Proceed, DriverTypes, history
  <2>5. FileTypes'
    BY <1>2 DEF Proceed, FileTypes, files
  <2> QED BY <1>2, <2>4, <2>5, ProceedArrives
<1>3. CASE Register
  <2>1. DriverTypes'
    BY <1>3, RegisterArrives DEF Register, DriverTypes, Prepares, Stages, Fault
  <2>2. FileTypes'
    <3>1. disk' = disk
      BY <1>3 DEF Register, files
    <3>2. \/ checksums' = checksums
          \/ checksums' = [checksums EXCEPT ![NewVersion] = IF @ = NoFile THEN disk[NewVersion] ELSE @]
      BY <1>3 DEF Register
    <3> QED BY <3>1, <3>2 DEF FileTypes
  <2> QED BY <1>3, <2>1, <2>2, RegisterArrives
<1>4. CASE Ack
  <2>1. kept' = [r \in Ranks |-> rank[r].counter]
    BY <1>4 DEF Ack, States
  <2>2. kept' \in [Ranks -> Nat \union {Unknown}]
    BY <2>1, Counters
  <2> QED BY <1>4, <2>2 DEF Ack, DriverTypes, ActorTypes, FileTypes, actors, files, history
<1>5. CASE CleanUp
  <2>1. DriverTypes'
    BY <1>5, CleanUpArrives DEF CleanUp, DriverTypes, Prepares, history
  <2>2. FileTypes'
    BY <1>5 DEF CleanUp, FileTypes, files
  <2> QED BY <1>5, <2>1, <2>2, CleanUpArrives
<1>6. CASE Release
  <2>1. kept' = [r \in Ranks |-> rank[r].counter] \/ kept' = kept
    BY <1>6 DEF Release, States
  <2>2. kept' \in [Ranks -> Nat \union {Unknown}]
    BY <2>1, Counters DEF DriverTypes
  <2>3. failed' \in [Batches -> Nat] /\ failures' \in Nat
    BY <1>6 DEF Release, DriverTypes
  <2>4. DriverTypes'
    BY <1>6, <2>2, <2>3 DEF Release, DriverTypes
  <2> QED BY <1>6, <2>4 DEF Release, ActorTypes, FileTypes, actors, files
<1>7. CASE Activate
  <2>1. active' \in Versions
    BY <1>7, RanksAssumption DEF Activate, Line, OnlyTheNext, DriverTypes, Versions, NewVersion
  <2> QED BY <1>7, <2>1 DEF Activate, DriverTypes, ActorTypes, FileTypes, actors, files, history
<1>8. CASE ActivateFails
  BY <1>8 DEF ActivateFails, DriverTypes, ActorTypes, FileTypes, actors, files
<1>9. CASE RunAgain
  <2>1. kept' \in [Ranks -> Nat \union {Unknown}]
    BY <1>9 DEF RunAgain, NothingKept, DriverTypes
  <2> QED BY <1>9, <2>1 DEF RunAgain, DriverTypes, ActorTypes, FileTypes, actors, files, history
<1> QED BY <1>1, <1>2, <1>3, <1>4, <1>5, <1>6, <1>7, <1>8, <1>9 DEF Driver

LEMMA FinishKeepsTypes ==
  ASSUME TypeOK, NEW r \in Ranks, NEW s, NEW a, Finishes(r, s, a)
  PROVE  ActorTypes' /\ DriverTypes' /\ UNCHANGED checksums
<1>1. UNCHANGED <<driver, failed, failures>>
  BY DEF Finishes
<1> QED BY <1>1, FinishedTypes DEF TypeOK, DriverTypes, driver

LEMMA NextTypes == ASSUME TypeOK, Line, [Next]_vars PROVE TypeOK'
<1>1. CASE UNCHANGED vars
  BY <1>1 DEF vars, driver, actors, files, history, TypeOK, DriverTypes, ActorTypes, FileTypes
<1>2. CASE Open
  BY <1>2 DEF Open, Down, actors, history, TypeOK, DriverTypes, ActorTypes, FileTypes
<1>3. CASE Crash
  BY <1>3, CrashTypes
<1>4. CASE Driver
  BY <1>4, DriverKeepsTypes
<1>5. ASSUME NEW r \in Ranks, Run(r) PROVE TypeOK'
  <2>1. PICK s, a : Finishes(r, s, a)
    BY <1>5, RunFinishes DEF TypeOK
  <2>2. UNCHANGED disk
    BY <1>5, RunFinishes DEF TypeOK, files
  <2> QED BY <2>1, <2>2, FinishKeepsTypes DEF TypeOK, FileTypes
<1>6. CASE BeginWrite
  <2>1. FileTypes'
    BY <1>6 DEF BeginWrite, TypeOK, FileTypes, driver
  <2> QED BY <1>6, <2>1 DEF BeginWrite, TypeOK, DriverTypes, ActorTypes, driver, history
<1>7. CASE FinishWrite \/ WriteFails
  <2>1. First(0, "export")
    BY <1>7 DEF FinishWrite, WriteFails, Line, OnlyTheNext
  <2>2. PICK s, a : Finishes(0, s, a)
    BY <1>7, <2>1, WriteFinishes DEF TypeOK
  <2>3. disk' = disk \/ disk' = [disk EXCEPT ![VersionDir(Head(inbox[0]))] = Payload(VersionDir(Head(inbox[0])))]
    BY <1>7 DEF FinishWrite, WriteFails, files
  <2>4. disk' = [v \in Versions |-> disk'[v]]
    BY <2>3 DEF TypeOK, FileTypes
  <2> QED BY <2>2, <2>4, FinishKeepsTypes, RankZero DEF TypeOK, FileTypes
<1>8. ASSUME NEW r \in Ranks, NEW v \in Versions, Load(r, v) PROVE TypeOK'
  BY <1>8 DEF Load, driver, actors, history, TypeOK, DriverTypes, ActorTypes, FileTypes
<1> QED BY <1>1, <1>2, <1>3, <1>4, <1>5, <1>6, <1>7, <1>8 DEF Next

-----------------------------------------------------------------------------
(* One call at a time, at most clean-ups and preparations behind it.       *)

\* When every rank has answered, every inbox is empty.
LEMMA AllDoneEmpties ==
  ASSUME TypeOK, Line, AllDone
  PROVE  (\A r \in Ranks : Len(inbox[r]) = 0) /\ ~writing
<1>1. \A r \in Ranks : Len(inbox[r]) = 0
  BY DEF AllDone, Line, OnlyPrepares
<1>2. ~writing
  BY <1>1, RankZero DEF Line, OnlyTheNext, First
<1> QED BY <1>1, <1>2

\* What a call sent to every rank finds there: work, or nothing.
LEMMA ArrivesBehind ==
  ASSUME NEW call, NEW args, Arrives(call, args), NEW r \in Ranks
  PROVE  /\ Len(inbox[r]) \in Nat /\ Len(inbox'[r]) = Len(inbox[r]) + 1
         /\ \A i \in 1..Len(inbox[r]) : inbox'[r][i] = inbox[r][i]
         /\ inbox'[r][Len(inbox[r]) + 1].do = call
<1> DEFINE n == Len(inbox[r])
<1>1. /\ n \in Nat /\ Len(inbox'[r]) = n + 1
      /\ \A i \in 1..n : inbox'[r][i] = inbox[r][i]
      /\ inbox'[r][n + 1] = [do |-> call, arg |-> args[r]]
  BY DEF Arrives
<1> HIDE DEF n
<1>2. inbox'[r][n + 1].do = call
  BY <1>1
<1> QED BY <1>1, <1>2 DEF n

LEMMA ArrivesFirst ==
  ASSUME NEW call, NEW args, Arrives(call, args), NEW r \in Ranks, Len(inbox[r]) = 0
  PROVE  /\ Len(inbox'[r]) = 1
         /\ inbox'[r][1].do = call /\ inbox'[r][1].arg = args[r]
<1> DEFINE n == Len(inbox[r])
<1>1. /\ n = 0 /\ Len(inbox'[r]) = n + 1
      /\ inbox'[r][n + 1] = [do |-> call, arg |-> args[r]]
  BY DEF Arrives
<1> HIDE DEF n
<1>2. Len(inbox'[r]) = 1 /\ inbox'[r][1] = [do |-> call, arg |-> args[r]]
  BY <1>1
<1> QED BY <1>2

LEMMA ArrivesSecond ==
  ASSUME NEW call, NEW args, Arrives(call, args), NEW r \in Ranks, Len(inbox[r]) >= 1
  PROVE  Len(inbox'[r]) >= 1 /\ inbox'[r][1] = inbox[r][1]
<1>1. Len(inbox[r]) \in Nat /\ Len(inbox'[r]) = Len(inbox[r]) + 1
  BY ArrivesBehind
<1>2. 1 \in 1..Len(inbox[r])
  BY <1>1
<1> QED BY <1>1, <1>2, ArrivesBehind

\* A preparation or clean-up may be sent behind anything.
LEMMA PrepareKeepsLine ==
  ASSUME TypeOK, Line, NEW call \in Prepares, NEW args, Arrives(call, args),
         pc' = call, UNCHANGED active, active < MaxVersion, batch' \notin acked'
  PROVE  Line'
<1> USE DEF Prepares, Stages
<1>1. ASSUME NEW r \in Ranks, NEW i \in 2..Len(inbox'[r])
      PROVE  inbox'[r][i].do \in Prepares
  <2> DEFINE n == Len(inbox[r])
  <2>1. n \in Nat /\ Len(inbox'[r]) = n + 1
    BY ArrivesBehind
  <2> HIDE DEF n
  <2>2. CASE i = n + 1
    <3>1. inbox'[r][i].do = call
      BY <2>2, ArrivesBehind DEF n
    <3> QED BY <3>1
  <2>3. CASE i # n + 1
    <3>1. i \in 2..n /\ i \in 1..n
      BY <1>1, <2>1, <2>3
    <3>2. inbox'[r][i] = inbox[r][i]
      BY <3>1, ArrivesBehind DEF n
    <3>3. inbox[r][i].do \in Prepares
      BY <3>1 DEF n, Line, OnlyPrepares
    <3> QED BY <3>2, <3>3
  <2> QED BY <2>2, <2>3
<1>2. OnlyPrepares'
  BY <1>1 DEF OnlyPrepares, Arrives
<1>3. OnlyTheStage'
  BY DEF OnlyTheStage
<1>4. ASSUME NEW r \in Ranks, Len(inbox[r]) >= 1
      PROVE  inbox'[r][1] = inbox[r][1] /\ Len(inbox'[r]) >= 1
  BY <1>4, ArrivesSecond
<1>5. ASSUME NEW r \in Ranks, Len(inbox[r]) < 1
      PROVE  inbox'[r][1].do = call
  <2>1. Len(inbox[r]) = 0
    BY <1>5, ArrivesBehind
  <2> QED BY <2>1, ArrivesFirst
<1>6. writing' => First(0, "export")'
  BY <1>4, RankZero DEF Arrives, First, Line, OnlyTheNext
<1>7. ASSUME NEW r \in Ranks, First(r, "export")'
      PROVE  inbox'[r][1].arg = active' /\ active' < MaxVersion
  <2>1. CASE Len(inbox[r]) >= 1
    BY <1>4, <1>7, <2>1 DEF First, Line, OnlyTheNext
  <2>2. CASE Len(inbox[r]) < 1
    BY <1>5, <1>7, <2>2 DEF First
  <2>3. Len(inbox[r]) \in Nat
    BY ArrivesBehind
  <2> QED BY <2>1, <2>2, <2>3
<1>8. OnlyTheNext'
  BY <1>6, <1>7 DEF OnlyTheNext
<1> QED BY <1>2, <1>3, <1>8 DEF Line

\* A stage is sent to ranks that have nothing to do.
LEMMA StageKeepsLine ==
  ASSUME TypeOK, Line, NEW call \in Stages, AllDone, Arrives(call, Args(call)),
         pc' = call, UNCHANGED <<active, batch, acked>>,
         active < MaxVersion, batch \notin acked
  PROVE  Line'
<1> USE DEF Prepares, Stages
<1>1. ASSUME NEW r \in Ranks
      PROVE  /\ Len(inbox'[r]) = 1
             /\ inbox'[r][1].do = call /\ inbox'[r][1].arg = Args(call)[r]
  <2>1. Len(inbox[r]) = 0
    BY AllDoneEmpties
  <2> QED BY <2>1, ArrivesFirst
<1>2. /\ ~writing'
      /\ \A r \in Ranks : answers'[r] = "waiting"
  BY AllDoneEmpties DEF Arrives
<1>3. /\ call = "optimize" => \A r \in Ranks : Args(call)[r] = batch
      /\ call = "export" => \A r \in Ranks : Args(call)[r] = active
  BY DEF Args, Argument
<1>4. OnlyPrepares'
  BY <1>1, <1>2 DEF OnlyPrepares
<1>5. OnlyTheStage'
  <2>1. pc' # "activate" /\ batch' = batch
    OBVIOUS
  <2>2. ASSUME NEW r \in Ranks
        PROVE  /\ Len(inbox'[r]) <= 1
               /\ inbox'[r][1].do = pc' /\ (pc' = "optimize" => inbox'[r][1].arg = batch)
    <3>1. Len(inbox'[r]) <= 1
      <4>1. Len(inbox'[r]) = 1
        BY <1>1
      <4> QED BY <4>1
    <3>4. inbox'[r][1].do = pc'
      BY <1>1
    <3>2. pc' = "optimize" => Args(call)[r] = batch
      BY <1>3
    <3>3. inbox'[r][1].arg = Args(call)[r]
      BY <1>1
    <3> QED BY <3>1, <3>2, <3>3, <3>4
  <2> QED BY <2>1, <2>2 DEF OnlyTheStage
<1>6. OnlyTheNext'
  BY <1>1, <1>2, <1>3 DEF OnlyTheNext, First
<1> QED BY <1>4, <1>5, <1>6 DEF Line

LEMMA FinishKeepsLine ==
  ASSUME TypeOK, Line, NEW r \in Ranks, NEW s, NEW a, Finishes(r, s, a)
  PROVE  Line'
<1>1. /\ Len(inbox[r]) \in Nat /\ Len(inbox[r]) >= 1
      /\ Len(inbox'[r]) = Len(inbox[r]) - 1
      /\ \A i \in 1..Len(inbox'[r]) : inbox'[r][i] = inbox[r][i + 1]
      /\ answers'[r] = IF Len(inbox[r]) = 1 THEN a ELSE answers[r]
      /\ \A k \in Ranks : k # r => inbox'[k] = inbox[k] /\ answers'[k] = answers[k]
      /\ UNCHANGED <<pc, batch, acked, active>>
      /\ writing' \in {writing, FALSE} /\ (writing' => r # 0)
  <2>1. /\ Len(inbox[r]) \in Nat
        /\ Len(inbox'[r]) = Len(inbox[r]) - 1
        /\ \A i \in 1..Len(inbox'[r]) : inbox'[r][i] = inbox[r][i + 1]
        /\ answers'[r] = IF Len(inbox[r]) = 1 THEN a ELSE answers[r]
        /\ \A k \in Ranks : k # r => inbox'[k] = inbox[k] /\ answers'[k] = answers[k]
    BY FinishFacts DEF TypeOK
  <2>2. /\ Len(inbox[r]) >= 1 /\ UNCHANGED <<pc, batch, acked, active>>
        /\ writing' \in {writing, FALSE} /\ (writing' => r # 0)
    BY DEF Finishes, driver
  <2> QED BY <2>1, <2>2
<1>2. \A i \in 1..Len(inbox'[r]) : inbox'[r][i].do \in Prepares
  <2> SUFFICES ASSUME NEW i \in 1..Len(inbox'[r]) PROVE inbox[r][i + 1].do \in Prepares
    BY <1>1
  <2>1. i + 1 \in 2..Len(inbox[r])
    BY <1>1
  <2> QED BY <2>1 DEF Line, OnlyPrepares
<1>3. OnlyPrepares'
  <2>1. ASSUME NEW k \in Ranks, NEW i \in 2..Len(inbox'[k]) PROVE inbox'[k][i].do \in Prepares
    <3>1. CASE k = r
      BY <1>1, <1>2, <2>1, <3>1
    <3>2. CASE k # r
      BY <1>1, <2>1, <3>2 DEF Line, OnlyPrepares
    <3> QED BY <3>1, <3>2
  <2>2. ASSUME NEW k \in Ranks, answers'[k] \in {"done", "failed"} PROVE Len(inbox'[k]) = 0
    <3>1. CASE k = r
      BY <1>1, <2>2, <3>1 DEF Line, OnlyPrepares
    <3>2. CASE k # r
      BY <1>1, <2>2, <3>2 DEF Line, OnlyPrepares
    <3> QED BY <3>1, <3>2
  <2> QED BY <2>1, <2>2 DEF OnlyPrepares
<1>4. OnlyTheStage'
  <2>1. ASSUME pc \in Stages, NEW k \in Ranks
        PROVE  /\ Len(inbox'[k]) <= 1
               /\ Len(inbox'[k]) = 1 =>
                    inbox'[k][1].do = pc /\ (pc = "optimize" => inbox'[k][1].arg = batch)
    <3>1. CASE k = r
      <4>1. Len(inbox[r]) <= 1
        BY <2>1 DEF Line, OnlyTheStage
      <4> QED BY <1>1, <3>1, <4>1
    <3>2. CASE k # r
      BY <1>1, <2>1, <3>2 DEF Line, OnlyTheStage
    <3> QED BY <3>1, <3>2
  <2>2. pc # "activate"
    BY <1>1 DEF Line, OnlyTheStage
  <2> QED BY <1>1, <2>1, <2>2 DEF OnlyTheStage
<1>5. OnlyTheNext'
  <2>1. writing' => First(0, "export")'
    BY <1>1, RankZero DEF Line, OnlyTheNext, First
  <2>2. ASSUME NEW k \in Ranks, First(k, "export")'
        PROVE  inbox'[k][1].arg = active' /\ active' < MaxVersion
    <3>1. CASE k = r
      BY <1>1, <1>2, <2>2, <3>1 DEF First, Prepares
    <3>2. CASE k # r
      BY <1>1, <2>2, <3>2 DEF First, Line, OnlyTheNext
    <3> QED BY <3>1, <3>2
  <2> QED BY <1>1, <2>1, <2>2 DEF Line, OnlyTheNext
<1> QED BY <1>3, <1>4, <1>5 DEF Line

LEMMA InitLine == Init => Line
BY DEF Init, NoCalls, NoAnswers, Line, OnlyPrepares, OnlyTheStage, OnlyTheNext, First,
       Prepares, Stages

LEMMA CrashLine == ASSUME Crash PROVE Line'
BY DEF Crash, NoCalls, NoAnswers, Line, OnlyPrepares, OnlyTheStage, OnlyTheNext, First,
       Prepares, Stages

\* The driver moves to a stage only past all answers; and when it rests, no
\* inbox changes.
LEMMA RestKeepsLine ==
  ASSUME Line, UNCHANGED <<inbox, answers, writing>>,
         \/ UNCHANGED <<pc, batch, acked, active>>
         \/ /\ pc' \in Down \union {"idle", "dead"}
            /\ UNCHANGED <<batch, acked, active>>
  PROVE  Line'
<1>1. OnlyPrepares' /\ OnlyTheStage'
  BY DEF Line, OnlyPrepares, OnlyTheStage, Down, Stages
<1>2. OnlyTheNext'
  BY DEF Line, OnlyTheNext, First, Down, Stages, Prepares
<1> QED BY <1>1, <1>2 DEF Line

LEMMA DriverKeepsLine == ASSUME TypeOK, Line, Driver PROVE Line'
<1> USE DEF Prepares, Stages
<1>1. ASSUME NEW b \in Batches, BeginWindow(b) PROVE Line'
  <2>1. active < MaxVersion /\ UNCHANGED <<active, acked>> /\ batch' \notin acked
    BY <1>1 DEF BeginWindow
  <2> QED BY <1>1, <2>1, BeginWindowArrives, PrepareKeepsLine
<1>2. CASE Proceed
  <2>1. /\ AllDone /\ UNCHANGED <<active, batch, acked>>
        /\ active < MaxVersion /\ batch \notin acked
    BY <1>2 DEF Proceed, Line, OnlyTheNext
  <2>2. CASE /\ pc' = "hydrate" /\ Arrives("hydrate", kept')
    <3>1. PICK args : args = kept'
      OBVIOUS
    <3>2. Arrives("hydrate", args)
      BY <2>2, <3>1 DEF Arrives
    <3> QED BY <2>1, <2>2, <3>2, PrepareKeepsLine
  <2>3. CASE pc' = "optimize" /\ Arrives("optimize", Args("optimize"))
    BY <2>1, <2>3, StageKeepsLine
  <2>4. CASE pc' = "export" /\ Arrives("export", Args("export"))
    BY <2>1, <2>4, StageKeepsLine
  <2> QED BY <1>2, <2>2, <2>3, <2>4, ProceedArrives
<1>3. CASE Register
  <2>1. /\ AllDone /\ UNCHANGED <<active, batch, acked>>
        /\ active < MaxVersion /\ batch \notin acked
    BY <1>3 DEF Register, Line, OnlyTheNext
  <2>2. CASE pc' = "offload"
    BY <1>3, <2>1, <2>2, RegisterArrives, StageKeepsLine
  <2>3. CASE pc' = "cleanup"
    BY <1>3, <2>1, <2>3, RegisterArrives, PrepareKeepsLine
  <2> QED BY <1>3, <2>2, <2>3, RegisterArrives
<1>4. CASE Ack
  <2>1. /\ pc' = "activate" /\ AllDone /\ UNCHANGED <<inbox, answers, writing, active>>
        /\ active < MaxVersion
    BY <1>4 DEF Ack, actors, Line, OnlyTheNext
  <2>2. \A r \in Ranks : Len(inbox[r]) = 0
    BY <2>1, AllDoneEmpties
  <2>3. OnlyPrepares' /\ OnlyTheStage'
    BY <2>1, <2>2 DEF Line, OnlyPrepares, OnlyTheStage
  <2>4. OnlyTheNext'
    BY <2>1 DEF Line, OnlyTheNext, First
  <2> QED BY <2>3, <2>4 DEF Line
<1>5. CASE CleanUp
  <2>1. active < MaxVersion /\ UNCHANGED <<active, batch, acked>> /\ batch \notin acked
    BY <1>5 DEF CleanUp, Line, OnlyTheNext
  <2> QED BY <1>5, <2>1, CleanUpArrives, PrepareKeepsLine
<1>6. CASE Release
  BY <1>6, RestKeepsLine DEF Release, actors
<1>7. CASE Activate
  <2>1. /\ \A r \in Ranks : Len(inbox[r]) = 0
        /\ UNCHANGED <<inbox, answers, writing>> /\ pc' = "idle"
    BY <1>7 DEF Activate, actors, Line, OnlyTheStage
  <2>2. ~writing
    BY <2>1, RankZero DEF Line, OnlyTheNext, First
  <2>3. OnlyPrepares' /\ OnlyTheStage'
    BY <2>1 DEF Line, OnlyPrepares, OnlyTheStage
  <2>4. OnlyTheNext'
    BY <2>1, <2>2 DEF OnlyTheNext, First
  <2> QED BY <2>3, <2>4 DEF Line
<1>8. CASE ActivateFails
  BY <1>8, RestKeepsLine DEF ActivateFails, actors
<1>9. CASE RunAgain
  BY <1>9, RestKeepsLine DEF RunAgain, actors
<1> QED BY <1>1, <1>2, <1>3, <1>4, <1>5, <1>6, <1>7, <1>8, <1>9 DEF Driver

LEMMA NextLine == ASSUME TypeOK, Line, [Next]_vars PROVE Line'
<1>1. CASE UNCHANGED vars
  BY <1>1, RestKeepsLine DEF vars, driver, actors
<1>2. CASE Open
  BY <1>2, RestKeepsLine DEF Open, actors, Down
<1>3. CASE Crash
  BY <1>3, CrashLine
<1>4. CASE Driver
  BY <1>4, DriverKeepsLine
<1>5. ASSUME NEW r \in Ranks, Run(r) PROVE Line'
  BY <1>5, RunFinishes, FinishKeepsLine DEF TypeOK
<1>6. CASE BeginWrite
  <2>1. /\ UNCHANGED <<pc, batch, acked, active, inbox, answers>>
        /\ inbox[0] \in Seq(Calls) /\ inbox[0] # <<>> /\ Head(inbox[0]).do = "export"
    BY <1>6, RankZero DEF BeginWrite, driver, Publishes, TypeOK, ActorTypes
  <2>2. First(0, "export")
    BY <2>1 DEF First
  <2>3. OnlyPrepares' /\ OnlyTheStage'
    BY <2>1 DEF Line, OnlyPrepares, OnlyTheStage
  <2>4. OnlyTheNext'
    BY <2>1, <2>2 DEF Line, OnlyTheNext, First
  <2> QED BY <2>3, <2>4 DEF Line
<1>7. CASE FinishWrite \/ WriteFails
  <2>1. First(0, "export")
    BY <1>7 DEF FinishWrite, WriteFails, Line, OnlyTheNext
  <2> QED BY <1>7, <2>1, WriteFinishes, FinishKeepsLine, RankZero DEF TypeOK
<1>8. ASSUME NEW r \in Ranks, NEW v \in Versions, Load(r, v) PROVE Line'
  BY <1>8, RestKeepsLine DEF Load, driver, actors
<1> QED BY <1>1, <1>2, <1>3, <1>4, <1>5, <1>6, <1>7, <1>8 DEF Next

-----------------------------------------------------------------------------
(* The counter a rank keeps, and the ones given back to it.                *)

Updates(r) == Len(rank[r].shard)

\* An update that may still come: the rank is at optimize.
Pending(r) == IF First(r, "optimize") THEN 1 ELSE 0

\* The window under way may have updated the rank; if it fails, failures says so.
Extra == IF pc \in {"optimize", "export", "offload", "cleanup"} THEN 1 ELSE 0

\* What the driver keeps for a rank lags behind it, while its window is under way
\* by one more than when it has ended.
KeptFollows ==
  \A r \in Ranks : kept[r] # Unknown =>
    kept[r] <= Updates(r) /\ Updates(r) + Pending(r) <= kept[r] + failures + Extra

\* So does a counter on its way to the rank, even one sent by an earlier window.
SentFollows ==
  \A r \in Ranks : \A i \in 1..Len(inbox[r]) :
    inbox[r][i].do = "hydrate" =>
      inbox[r][i].arg <= Updates(r) /\ Updates(r) + Pending(r) <= inbox[r][i].arg + failures

Counting == CounterFollowsUpdates /\ KeptFollows /\ SentFollows

LEMMA Naturals ==
  ASSUME TypeOK
  PROVE  /\ \A r \in Ranks : /\ Updates(r) \in Nat /\ rank[r].counter \in Nat
                             /\ kept[r] # Unknown => kept[r] \in Nat
                             /\ Pending(r) \in {0, 1}
                             /\ Len(inbox[r]) \in Nat
         /\ Extra \in {0, 1} /\ failures \in Nat
<1>1. ASSUME NEW r \in Ranks
      PROVE  /\ Updates(r) \in Nat /\ rank[r].counter \in Nat
             /\ kept[r] # Unknown => kept[r] \in Nat
             /\ Len(inbox[r]) \in Nat
  <2>1. rank[r] \in RankStates /\ inbox[r] \in Seq(Calls)
    BY DEF TypeOK, ActorTypes, RankStates
  <2>2. rank[r].shard \in Seq(Batches) /\ rank[r].counter \in Nat
    BY <2>1 DEF RankStates
  <2>3. kept[r] # Unknown => kept[r] \in Nat
    BY DEF TypeOK, DriverTypes
  <2> QED BY <2>1, <2>2, <2>3 DEF Updates
<1>2. \A r \in Ranks : Pending(r) \in {0, 1}
  BY DEF Pending
<1> QED BY <1>1, <1>2 DEF Extra, TypeOK, DriverTypes

LEMMA HydrateArgument ==
  ASSUME TypeOK, NEW r \in Ranks, NEW i \in 1..Len(inbox[r]), inbox[r][i].do = "hydrate"
  PROVE  inbox[r][i].arg \in Nat
<1>1. inbox[r] \in Seq(Calls)
  BY DEF TypeOK, ActorTypes
<1>2. inbox[r][i] \in Calls
  BY <1>1
<1> QED BY <1>2 DEF Calls

\* A preparation sent to every rank gives none a new update to make.
LEMMA PreparePending ==
  ASSUME TypeOK, NEW call \in Prepares, NEW args, Arrives(call, args)
  PROVE  \A r \in Ranks : Updates(r)' = Updates(r) /\ Pending(r)' = Pending(r)
<1> SUFFICES ASSUME NEW r \in Ranks
             PROVE  Updates(r)' = Updates(r) /\ Pending(r)' = Pending(r)
  OBVIOUS
<1>1. Updates(r)' = Updates(r)
  BY DEF Updates, Arrives
<1>2. CASE Len(inbox[r]) = 0
  <2>1. ~First(r, "optimize")
    BY <1>2 DEF First
  <2>2. inbox'[r][1].do = call
    BY <1>2, ArrivesFirst
  <2>3. ~First(r, "optimize")'
    BY <2>2 DEF First, Prepares
  <2> QED BY <1>1, <2>1, <2>3 DEF Pending
<1>3. CASE Len(inbox[r]) >= 1
  <2>1. Len(inbox'[r]) >= 1 /\ inbox'[r][1] = inbox[r][1]
    BY <1>3, ArrivesSecond
  <2>2. First(r, "optimize")' <=> First(r, "optimize")
    BY <1>3, <2>1 DEF First
  <2> QED BY <1>1, <2>2 DEF Pending
<1>4. Len(inbox[r]) \in Nat
  BY Naturals
<1> QED BY <1>2, <1>3, <1>4

LEMMA StagePending ==
  ASSUME TypeOK, Line, AllDone, NEW call \in Stages, NEW args, Arrives(call, args)
  PROVE  \A r \in Ranks :
           /\ Updates(r)' = Updates(r) /\ Pending(r) = 0
           /\ Pending(r)' = IF call = "optimize" THEN 1 ELSE 0
           /\ Len(inbox'[r]) = 1 /\ inbox'[r][1].do = call /\ inbox'[r][1].arg = args[r]
<1> SUFFICES ASSUME NEW r \in Ranks
             PROVE  /\ Updates(r)' = Updates(r) /\ Pending(r) = 0
                    /\ Pending(r)' = IF call = "optimize" THEN 1 ELSE 0
                    /\ Len(inbox'[r]) = 1 /\ inbox'[r][1].do = call
                    /\ inbox'[r][1].arg = args[r]
  OBVIOUS
<1>1. Updates(r)' = Updates(r)
  BY DEF Updates, Arrives
<1>2. Len(inbox[r]) = 0
  BY AllDoneEmpties
<1>3. /\ Len(inbox'[r]) = 1
      /\ inbox'[r][1].do = call /\ inbox'[r][1].arg = args[r]
  BY <1>2, ArrivesFirst
<1>4. ~First(r, "optimize") /\ (First(r, "optimize")' <=> call = "optimize")
  BY <1>2, <1>3 DEF First
<1> QED BY <1>1, <1>3, <1>4 DEF Pending

\* A rank that finishes its first call makes the pending update or drops it; no
\* update is pending then, and the counter follows.
LEMMA FinishCounts ==
  ASSUME TypeOK, Line, Counting, NEW r \in Ranks, NEW s, NEW a, Finishes(r, s, a)
  PROVE  /\ Updates(r) <= Updates(r)' /\ Updates(r)' <= Updates(r) + Pending(r)
         /\ Pending(r)' = 0
         /\ rank'[r].counter <= Updates(r)' /\ Updates(r)' <= rank'[r].counter + failures
         /\ \A k \in Ranks : k # r =>
              Updates(k)' = Updates(k) /\ Pending(k)' = Pending(k)
<1> DEFINE c == inbox[r][1]
           old == rank[r]
<1>1. /\ old \in RankStates /\ c \in Calls /\ rank'[r] = s
      /\ s \in {old, Returned(old, c)}
      /\ 1 \in 1..Len(inbox[r])
  BY FinishFacts DEF TypeOK, ActorTypes, RankStates, Finishes
<1>2. \A k \in Ranks : k # r => Updates(k)' = Updates(k) /\ Pending(k)' = Pending(k)
  BY FinishFacts DEF TypeOK, Updates, Pending, First
<1>3. Pending(r)' = 0
  <2>1. ASSUME Len(inbox'[r]) >= 1 PROVE inbox'[r][1].do \in Prepares
    <3>1. /\ Len(inbox[r]) \in Nat /\ Len(inbox'[r]) = Len(inbox[r]) - 1
          /\ \A i \in 1..Len(inbox'[r]) : inbox'[r][i] = inbox[r][i + 1]
      BY FinishFacts DEF TypeOK
    <3>2. 2 \in 2..Len(inbox[r]) /\ inbox'[r][1] = inbox[r][2]
      BY <2>1, <3>1
    <3> QED BY <3>2 DEF Line, OnlyPrepares
  <2> QED BY <2>1 DEF Pending, First, Prepares
<1>4. /\ Updates(r) \in Nat /\ Pending(r) \in {0, 1} /\ old.counter \in Nat /\ failures \in Nat
      /\ old.counter <= Updates(r) /\ Updates(r) <= old.counter + failures
      /\ old.shard \in Seq(Batches) /\ Updates(r) = Len(old.shard)
      /\ Updates(r)' = Len(s.shard)
  BY <1>1, Naturals DEF Counting, CounterFollowsUpdates, Updates, RankStates
<1>5. c.do = "hydrate" => c.arg <= Updates(r) /\ Updates(r) + Pending(r) <= c.arg + failures
  BY <1>1 DEF Counting, SentFollows
<1>6. c.do = "optimize" => Pending(r) = 1
  BY <1>1 DEF Pending, First
<1> HIDE DEF c, old
<1>7. CASE s = old
  BY <1>1, <1>2, <1>3, <1>4, <1>7
<1>8. CASE s = Returned(old, c)
  <2>1. CASE c.do = "optimize"
    <3>1. s.shard = Append(old.shard, c.arg) /\ s.counter = old.counter + 1
      BY <1>1, <1>8, <2>1, Returns
    <3>2. Len(s.shard) = Updates(r) + 1
      BY <1>4, <3>1
    <3> QED BY <1>1, <1>2, <1>3, <1>4, <1>6, <2>1, <3>1, <3>2
  <2>2. CASE c.do = "hydrate"
    <3>1. s.shard = old.shard /\ s.counter = c.arg /\ c.arg \in Nat
      BY <1>1, <1>8, <2>2, Returns
    <3> QED BY <1>1, <1>2, <1>3, <1>4, <1>5, <2>2, <3>1
  <2>3. CASE c.do \notin {"optimize", "hydrate"}
    <3>1. s.shard = old.shard /\ s.counter = old.counter
      BY <1>1, <1>8, <2>3, Returns
    <3> QED BY <1>1, <1>2, <1>3, <1>4, <3>1
  <2> QED BY <2>1, <2>2, <2>3
<1> QED BY <1>1, <1>7, <1>8

LEMMA FinishKeepsCounting ==
  ASSUME TypeOK, Line, Counting, NEW r \in Ranks, NEW s, NEW a, Finishes(r, s, a)
  PROVE  Counting'
<1>1. /\ UNCHANGED <<pc, kept, failures>>
      /\ \A k \in Ranks : k # r => rank'[k] = rank[k] /\ inbox'[k] = inbox[k]
      /\ Len(inbox[r]) \in Nat /\ Len(inbox'[r]) = Len(inbox[r]) - 1
      /\ \A i \in 1..Len(inbox'[r]) : inbox'[r][i] = inbox[r][i + 1]
  BY FinishFacts DEF TypeOK, Finishes, driver
<1>2. /\ Updates(r) \in Nat /\ Pending(r) \in {0, 1} /\ failures \in Nat /\ Extra \in {0, 1}
      /\ Updates(r)' \in Nat
      /\ kept[r] # Unknown => kept[r] \in Nat
  BY Naturals, FinishedTypes DEF TypeOK, Updates, RankStates, ActorTypes
<1>3. /\ Updates(r) <= Updates(r)' /\ Updates(r)' <= Updates(r) + Pending(r)
      /\ Pending(r)' = 0
      /\ rank'[r].counter <= Updates(r)' /\ Updates(r)' <= rank'[r].counter + failures
      /\ \A k \in Ranks : k # r => Updates(k)' = Updates(k) /\ Pending(k)' = Pending(k)
  BY FinishCounts
<1>4. CounterFollowsUpdates'
  BY <1>1, <1>3 DEF Counting, CounterFollowsUpdates, Updates
<1>5. KeptFollows'
  <2>1. Extra' = Extra
    BY <1>1 DEF Extra
  <2>2. kept[r] # Unknown =>
          kept[r] <= Updates(r)' /\ Updates(r)' + Pending(r)' <= kept[r] + failures + Extra
    BY <1>2, <1>3 DEF Counting, KeptFollows
  <2> QED BY <1>1, <1>3, <2>1, <2>2 DEF Counting, KeptFollows
<1>6. SentFollows'
  <2>1. ASSUME NEW i \in 1..Len(inbox'[r]), inbox'[r][i].do = "hydrate"
        PROVE  /\ inbox'[r][i].arg <= Updates(r)'
               /\ Updates(r)' + Pending(r)' <= inbox'[r][i].arg + failures
    <3>1. i + 1 \in 1..Len(inbox[r]) /\ inbox'[r][i] = inbox[r][i + 1]
      BY <1>1
    <3> DEFINE n == inbox[r][i + 1].arg
    <3>2. n \in Nat
      BY <2>1, <3>1, HydrateArgument
    <3>3. n <= Updates(r) /\ Updates(r) + Pending(r) <= n + failures
      BY <2>1, <3>1 DEF Counting, SentFollows
    <3> HIDE DEF n
    <3>4. n <= Updates(r)' /\ Updates(r)' + Pending(r)' <= n + failures
      BY <1>2, <1>3, <3>2, <3>3
    <3> QED BY <3>1, <3>4 DEF n
  <2>2. ASSUME NEW k \in Ranks, k # r, NEW i \in 1..Len(inbox'[k]), inbox'[k][i].do = "hydrate"
        PROVE  /\ inbox'[k][i].arg <= Updates(k)'
               /\ Updates(k)' + Pending(k)' <= inbox'[k][i].arg + failures
    BY <1>1, <1>3, <2>2 DEF Counting, SentFollows
  <2> QED BY <1>1, <2>1, <2>2 DEF SentFollows
<1> QED BY <1>4, <1>5, <1>6 DEF Counting

LEMMA PrepareKeepsCounting ==
  ASSUME TypeOK, Counting, NEW call \in Prepares, NEW args, Arrives(call, args),
         UNCHANGED failures,
         call = "hydrate" => \A r \in Ranks :
           args[r] <= Updates(r) /\ Updates(r) + Pending(r) <= args[r] + failures
  PROVE  CounterFollowsUpdates' /\ SentFollows'
<1>1. \A r \in Ranks : Updates(r)' = Updates(r) /\ Pending(r)' = Pending(r)
  BY PreparePending
<1>2. CounterFollowsUpdates'
  BY DEF Arrives, Counting, CounterFollowsUpdates
<1>3. ASSUME NEW r \in Ranks, NEW i \in 1..Len(inbox'[r]), inbox'[r][i].do = "hydrate"
      PROVE  /\ inbox'[r][i].arg <= Updates(r)
             /\ Updates(r) + Pending(r) <= inbox'[r][i].arg + failures
  <2> DEFINE n == Len(inbox[r])
  <2>1. n \in Nat /\ Len(inbox'[r]) = n + 1
    BY ArrivesBehind
  <2>2. CASE i = n + 1
    <3>1. inbox'[r][i] = [do |-> call, arg |-> args[r]]
      BY <2>2 DEF Arrives
    <3>2. call = "hydrate" /\ inbox'[r][i].arg = args[r]
      BY <1>3, <3>1
    <3> QED BY <3>2
  <2>3. CASE i # n + 1
    <3>1. i \in 1..Len(inbox[r])
      BY <1>3, <2>1, <2>3
    <3>2. inbox'[r][i] = inbox[r][i]
      BY <3>1, ArrivesBehind
    <3> QED BY <1>3, <3>1, <3>2 DEF Counting, SentFollows
  <2> QED BY <2>2, <2>3
<1>4. SentFollows'
  BY <1>1, <1>3 DEF SentFollows
<1> QED BY <1>2, <1>4

LEMMA StageKeepsCounting ==
  ASSUME TypeOK, Line, Counting, AllDone, NEW call \in Stages, NEW args, Arrives(call, args),
         UNCHANGED failures
  PROVE  CounterFollowsUpdates' /\ SentFollows'
<1>1. CounterFollowsUpdates'
  BY DEF Arrives, Counting, CounterFollowsUpdates
<1>2. \A r \in Ranks : Len(inbox'[r]) = 1 /\ inbox'[r][1].do = call
  BY StagePending
<1>3. ASSUME NEW r \in Ranks, NEW i \in 1..Len(inbox'[r])
      PROVE  inbox'[r][i].do # "hydrate"
  BY <1>2, <1>3 DEF Stages
<1> QED BY <1>1, <1>3 DEF SentFollows

\* The counters of ranks that have all answered.
LEMMA FreshCounters ==
  ASSUME TypeOK, Line, Counting, AllDone, NEW r \in Ranks
  PROVE  /\ rank[r].counter \in Nat /\ Pending(r) = 0
         /\ rank[r].counter <= Updates(r) /\ Updates(r) <= rank[r].counter + failures
<1>1. Len(inbox[r]) = 0
  BY AllDoneEmpties
<1>2. Pending(r) = 0
  BY <1>1 DEF Pending, First
<1> QED BY <1>2, Naturals DEF Counting, CounterFollowsUpdates, Updates

LEMMA RestKeepsCounting ==
  ASSUME TypeOK, Counting, UNCHANGED <<rank, inbox, failures>>,
         UNCHANGED kept \/ kept' = NothingKept,
         Extra' = Extra \/ Extra = 0
  PROVE  Counting'
<1>1. \A r \in Ranks : Updates(r)' = Updates(r) /\ Pending(r)' = Pending(r)
  BY DEF Updates, Pending, First
<1>2. CounterFollowsUpdates' /\ SentFollows'
  BY <1>1 DEF Counting, CounterFollowsUpdates, SentFollows
<1>3. Extra \in {0, 1} /\ Extra' \in {0, 1} /\ Extra <= Extra' /\ failures \in Nat
  BY DEF Extra, TypeOK, DriverTypes
<1>4. ASSUME NEW r \in Ranks, kept'[r] # Unknown
      PROVE  kept'[r] <= Updates(r) /\ Updates(r) + Pending(r) <= kept'[r] + failures + Extra'
  <2>1. kept'[r] = kept[r] /\ kept[r] \in Nat
    BY <1>4, Naturals DEF NothingKept
  <2>2. kept[r] <= Updates(r) /\ Updates(r) + Pending(r) <= kept[r] + failures + Extra
    BY <1>4, <2>1 DEF Counting, KeptFollows
  <2>3. Updates(r) \in Nat /\ Pending(r) \in {0, 1}
    BY Naturals
  <2> QED BY <1>3, <2>1, <2>2, <2>3
<1>5. KeptFollows'
  BY <1>1, <1>4 DEF KeptFollows
<1> QED BY <1>2, <1>5 DEF Counting

LEMMA InitCounting == Init => Counting
BY DEF Init, NewRanks, NoCalls, NothingKept, Counting, CounterFollowsUpdates, KeptFollows,
       SentFollows

LEMMA CrashCounting == ASSUME Crash PROVE Counting'
BY DEF Crash, NewRanks, NoCalls, NothingKept, Counting, CounterFollowsUpdates, KeptFollows,
       SentFollows

LEMMA DriverKeepsCounting == ASSUME TypeOK, Line, Counting, Driver PROVE Counting'
<1> USE DEF Prepares, Stages
<1>0. /\ Extra \in {0, 1} /\ failures \in Nat
      /\ \A r \in Ranks : /\ Updates(r) \in Nat /\ Pending(r) \in {0, 1}
                          /\ kept[r] # Unknown => kept[r] \in Nat
  BY Naturals
<1>1. ASSUME NEW b \in Batches, BeginWindow(b) PROVE Counting'
  <2>1. /\ UNCHANGED <<kept, failures>> /\ Extra = 0
        /\ pc' \in Prepares /\ Arrives(pc', Args(pc'))
        /\ pc' = "hydrate" => kept \in [Ranks -> Nat]
    BY <1>1, BeginWindowArrives DEF BeginWindow, history, Extra
  <2>2. Extra' = 0
    BY <1>1, BeginWindowArrives DEF Extra
  <2>3. PICK call : call = pc'
    OBVIOUS
  <2>4. call \in Prepares /\ Arrives(call, Args(call)) /\ (call = "hydrate" => kept \in [Ranks -> Nat])
    BY <2>1, <2>3
  <2>5. ASSUME call = "hydrate", NEW r \in Ranks
        PROVE  /\ Args(call)[r] <= Updates(r)
               /\ Updates(r) + Pending(r) <= Args(call)[r] + failures
    <3>1. Args(call)[r] = kept[r] /\ kept[r] \in Nat /\ kept[r] # Unknown
      BY <2>4, <2>5, RanksAssumption DEF Args, Argument
    <3>2. kept[r] <= Updates(r) /\ Updates(r) + Pending(r) <= kept[r] + failures + Extra
      BY <3>1 DEF Counting, KeptFollows
    <3> QED BY <1>0, <2>1, <3>1, <3>2
  <2>6. CounterFollowsUpdates' /\ SentFollows'
    <3>1. PICK args : args = Args(call)
      OBVIOUS
    <3>2. Arrives(call, args)
      BY <2>4, <3>1
    <3>3. call = "hydrate" => \A r \in Ranks :
            args[r] <= Updates(r) /\ Updates(r) + Pending(r) <= args[r] + failures
      BY <2>5, <3>1
    <3> QED BY <2>1, <2>4, <3>2, <3>3, PrepareKeepsCounting
  <2>7. KeptFollows'
    <3>1. \A r \in Ranks : Updates(r)' = Updates(r) /\ Pending(r)' = Pending(r)
      BY <2>4, PreparePending
    <3> QED BY <2>1, <2>2, <3>1 DEF Counting, KeptFollows
  <2> QED BY <2>6, <2>7 DEF Counting
<1>2. CASE Proceed
  <2>1. AllDone /\ UNCHANGED failures
    BY <1>2 DEF Proceed, history
  <2>2. \A r \in Ranks : /\ rank[r].counter \in Nat /\ Pending(r) = 0
                         /\ rank[r].counter <= Updates(r)
                         /\ Updates(r) <= rank[r].counter + failures
    BY <2>1, FreshCounters
  <2>3. CASE /\ pc' = "hydrate" /\ kept' = [r \in Ranks |-> rank[r].counter]
             /\ Arrives("hydrate", kept')
    <3>1. PICK args : args = [r \in Ranks |-> rank[r].counter]
      OBVIOUS
    <3>2. Arrives("hydrate", args) /\ kept' = args
      BY <2>3, <3>1
    <3>3. \A r \in Ranks : /\ args[r] \in Nat /\ args[r] <= Updates(r)
                           /\ Updates(r) + Pending(r) <= args[r] + failures
      BY <1>0, <2>2, <3>1
    <3>4. CounterFollowsUpdates' /\ SentFollows'
      BY <2>1, <3>2, <3>3, PrepareKeepsCounting
    <3>5. \A r \in Ranks : Updates(r)' = Updates(r) /\ Pending(r)' = Pending(r)
      BY <3>2, PreparePending
    <3>6. Extra' = 0
      BY <2>3 DEF Extra
    <3>7. KeptFollows'
      BY <1>0, <2>1, <3>2, <3>3, <3>5, <3>6 DEF KeptFollows
    <3> QED BY <3>4, <3>7 DEF Counting
  <2>4. CASE /\ pc' = "optimize" /\ kept' = [r \in Ranks |-> rank[r].counter]
             /\ Arrives("optimize", Args("optimize"))
    <3>1. PICK args : args = [r \in Ranks |-> rank[r].counter]
      OBVIOUS
    <3>2. CounterFollowsUpdates' /\ SentFollows'
      BY <2>1, <2>4, StageKeepsCounting
    <3>3. \A r \in Ranks : Updates(r)' = Updates(r) /\ Pending(r)' = 1
      BY <2>1, <2>4, StagePending
    <3>4. Extra' = 1
      BY <2>4 DEF Extra
    <3>5. \A r \in Ranks : /\ args[r] \in Nat /\ args[r] <= Updates(r)
                           /\ Updates(r) + 1 <= args[r] + failures + 1
      BY <1>0, <2>2, <3>1
    <3>6. KeptFollows'
      BY <2>1, <2>4, <3>1, <3>3, <3>4, <3>5 DEF KeptFollows
    <3> QED BY <3>2, <3>6 DEF Counting
  <2>5. CASE /\ pc = "optimize" /\ pc' = "export" /\ kept' = kept
             /\ Arrives("export", Args("export"))
    <3>1. CounterFollowsUpdates' /\ SentFollows'
      BY <2>1, <2>5, StageKeepsCounting
    <3>2. \A r \in Ranks : Updates(r)' = Updates(r) /\ Pending(r)' = 0 /\ Pending(r) = 0
      BY <2>1, <2>5, StagePending
    <3>3. Extra' = 1 /\ Extra = 1
      BY <2>5 DEF Extra
    <3>4. KeptFollows'
      BY <2>1, <2>5, <3>2, <3>3 DEF Counting, KeptFollows
    <3> QED BY <3>1, <3>4 DEF Counting
  <2> QED BY <1>2, <2>3, <2>4, <2>5, ProceedArrives
<1>3. CASE Register
  <2>1. AllDone /\ UNCHANGED <<kept, failures>> /\ pc = "export" /\ pc' \in {"offload", "cleanup"}
    BY <1>3, RegisterArrives DEF Register
  <2>2. Extra = 1 /\ Extra' = 1
    BY <2>1 DEF Extra
  <2>3. PICK call : call = pc'
    OBVIOUS
  <2>4. Arrives(call, Args(call))
    BY <1>3, <2>3, RegisterArrives
  <2>5. \A r \in Ranks : Pending(r) = 0
    BY <2>1, FreshCounters
  <2>6. \A r \in Ranks : Updates(r)' = Updates(r) /\ Pending(r)' = Pending(r)
    <3>1. CASE call = "offload"
      BY <2>1, <2>4, <2>5, <3>1, StagePending
    <3>2. CASE call = "cleanup"
      BY <2>4, <3>2, PreparePending
    <3> QED BY <2>1, <2>3, <3>1, <3>2
  <2>7. CounterFollowsUpdates' /\ SentFollows'
    <3>1. CASE call = "offload"
      BY <2>1, <2>4, <3>1, StageKeepsCounting
    <3>2. CASE call = "cleanup"
      BY <2>1, <2>4, <3>2, PrepareKeepsCounting
    <3> QED BY <2>1, <2>3, <3>1, <3>2
  <2>8. KeptFollows'
    BY <2>1, <2>2, <2>6 DEF Counting, KeptFollows
  <2> QED BY <2>7, <2>8 DEF Counting
<1>4. CASE Ack
  <2>1. /\ AllDone /\ UNCHANGED <<rank, inbox, failures>> /\ pc' = "activate"
        /\ kept' = [r \in Ranks |-> rank[r].counter]
    BY <1>4 DEF Ack, States, actors, history
  <2>2. \A r \in Ranks : Updates(r)' = Updates(r) /\ Pending(r)' = Pending(r)
    BY <2>1 DEF Updates, Pending, First
  <2>3. Extra' = 0
    BY <2>1 DEF Extra
  <2>4. CounterFollowsUpdates' /\ SentFollows'
    BY <2>1, <2>2 DEF Counting, CounterFollowsUpdates, SentFollows
  <2>5. ASSUME NEW r \in Ranks
        PROVE  kept'[r] <= Updates(r) /\ Updates(r) + Pending(r) <= kept'[r] + failures + Extra'
    BY <1>0, <2>1, <2>3, FreshCounters
  <2>6. KeptFollows'
    BY <2>1, <2>2, <2>5 DEF KeptFollows
  <2> QED BY <2>4, <2>6 DEF Counting
<1>5. CASE CleanUp
  <2>1. /\ UNCHANGED <<kept, failures>> /\ Arrives("cleanup", Args("cleanup"))
        /\ Extra' = 1
    BY <1>5, CleanUpArrives DEF CleanUp, history, Extra
  <2>2. \A r \in Ranks : Updates(r)' = Updates(r) /\ Pending(r)' = Pending(r)
    BY <2>1, PreparePending
  <2>3. CounterFollowsUpdates' /\ SentFollows'
    BY <2>1, PrepareKeepsCounting
  <2>4. ASSUME NEW r \in Ranks, kept[r] # Unknown
        PROVE  kept[r] <= Updates(r) /\ Updates(r) + Pending(r) <= kept[r] + failures + 1
    <3>1. kept[r] <= Updates(r) /\ Updates(r) + Pending(r) <= kept[r] + failures + Extra
      BY <2>4 DEF Counting, KeptFollows
    <3>2. kept[r] \in Nat
      BY <1>0, <2>4
    <3> QED BY <1>0, <3>1, <3>2
  <2>5. KeptFollows'
    BY <2>1, <2>2, <2>4 DEF KeptFollows
  <2> QED BY <2>3, <2>5 DEF Counting
<1>6. CASE Release
  <2>1. /\ UNCHANGED <<rank, inbox>> /\ failures' = failures + 1
        /\ pc = "cleanup" /\ pc' = "dead"
        /\ kept' = IF AllDone THEN [r \in Ranks |-> rank[r].counter] ELSE kept
    BY <1>6 DEF Release, actors, States
  <2>2. \A r \in Ranks : Updates(r)' = Updates(r) /\ Pending(r)' = Pending(r)
    BY <2>1 DEF Updates, Pending, First
  <2>3. Extra = 1 /\ Extra' = 0
    BY <2>1 DEF Extra
  <2>4. CounterFollowsUpdates'
    <3>1. ASSUME NEW r \in Ranks
          PROVE  rank[r].counter <= Updates(r) /\ Updates(r) <= rank[r].counter + (failures + 1)
      BY <1>0, Naturals DEF Counting, CounterFollowsUpdates, Updates
    <3> QED BY <2>1, <3>1 DEF CounterFollowsUpdates, Updates
  <2>5. SentFollows'
    <3>1. ASSUME NEW r \in Ranks, NEW i \in 1..Len(inbox[r]), inbox[r][i].do = "hydrate"
          PROVE  /\ inbox[r][i].arg <= Updates(r)
                 /\ Updates(r) + Pending(r) <= inbox[r][i].arg + (failures + 1)
      <4>1. inbox[r][i].arg \in Nat
        BY <3>1, HydrateArgument
      <4>2. /\ inbox[r][i].arg <= Updates(r)
            /\ Updates(r) + Pending(r) <= inbox[r][i].arg + failures
        BY <3>1 DEF Counting, SentFollows
      <4>3. Updates(r) \in Nat /\ Pending(r) \in {0, 1}
        BY <1>0
      <4> QED BY <1>0, <4>1, <4>2, <4>3
    <3> QED BY <2>1, <2>2, <3>1 DEF SentFollows
  <2>6. ASSUME NEW r \in Ranks, kept'[r] # Unknown
        PROVE  kept'[r] <= Updates(r) /\ Updates(r) + Pending(r) <= kept'[r] + (failures + 1) + Extra'
    <3>1. CASE AllDone
      BY <1>0, <2>1, <2>3, <3>1, FreshCounters
    <3>2. CASE ~AllDone
      <4>1. kept'[r] = kept[r] /\ kept[r] \in Nat
        BY <1>0, <2>1, <2>6, <3>2
      <4>2. kept[r] <= Updates(r) /\ Updates(r) + Pending(r) <= kept[r] + failures + Extra
        BY <2>6, <4>1 DEF Counting, KeptFollows
      <4>3. Updates(r) \in Nat /\ Pending(r) \in {0, 1}
        BY <1>0
      <4> QED BY <1>0, <2>3, <4>1, <4>2, <4>3
    <3> QED BY <3>1, <3>2
  <2>7. KeptFollows'
    BY <2>1, <2>2, <2>6 DEF KeptFollows
  <2> QED BY <2>4, <2>5, <2>7 DEF Counting
<1>7. CASE Activate
  <2>1. /\ UNCHANGED <<rank, inbox, failures, kept>> /\ Extra = 0
    BY <1>7 DEF Activate, actors, history, Extra
  <2> QED BY <2>1, RestKeepsCounting
<1>8. CASE ActivateFails
  <2>1. /\ UNCHANGED <<rank, inbox, failures, kept>> /\ Extra = 0
    BY <1>8 DEF ActivateFails, actors, Extra
  <2> QED BY <2>1, RestKeepsCounting
<1>9. CASE RunAgain
  <2>1. /\ UNCHANGED <<rank, inbox, failures>> /\ (UNCHANGED kept \/ kept' = NothingKept)
        /\ Extra = 0
    BY <1>9 DEF RunAgain, actors, history, Extra
  <2> QED BY <2>1, RestKeepsCounting
<1> QED BY <1>1, <1>2, <1>3, <1>4, <1>5, <1>6, <1>7, <1>8, <1>9 DEF Driver

LEMMA NextCounting == ASSUME TypeOK, Line, Counting, [Next]_vars PROVE Counting'
<1>1. CASE UNCHANGED vars
  BY <1>1, RestKeepsCounting DEF vars, driver, actors, history, Extra
<1>2. CASE Open
  BY <1>2, RestKeepsCounting DEF Open, actors, history, Extra
<1>3. CASE Crash
  BY <1>3, CrashCounting
<1>4. CASE Driver
  BY <1>4, DriverKeepsCounting
<1>5. ASSUME NEW r \in Ranks, Run(r) PROVE Counting'
  BY <1>5, RunFinishes, FinishKeepsCounting DEF TypeOK
<1>6. CASE BeginWrite
  BY <1>6, RestKeepsCounting DEF BeginWrite, driver, history, Extra
<1>7. CASE FinishWrite \/ WriteFails
  <2>1. First(0, "export")
    BY <1>7 DEF FinishWrite, WriteFails, Line, OnlyTheNext
  <2> QED BY <1>7, <2>1, WriteFinishes, FinishKeepsCounting, RankZero DEF TypeOK
<1>8. ASSUME NEW r \in Ranks, NEW v \in Versions, Load(r, v) PROVE Counting'
  BY <1>8, RestKeepsCounting DEF Load, driver, actors, history, Extra
<1> QED BY <1>1, <1>2, <1>3, <1>4, <1>5, <1>6, <1>7, <1>8 DEF Next

-----------------------------------------------------------------------------
(* The batches a rank was updated with.                                    *)

Count(q, b) == Cardinality({i \in DOMAIN q : q[i] = b})
Times(r, b) == Count(rank[r].shard, b)

\* One more time that may still come: the rank is at optimize with the batch.
Coming(r, b) == IF First(r, "optimize") /\ inbox[r][1].arg = b THEN 1 ELSE 0

\* The windows of a batch that are not among the failed ones.
Due(b) == IF b \in acked \/ (b = batch /\ Extra = 1) THEN 1 ELSE 0

\* Each update of a rank with a batch is of a window of its own.
OnceAWindow == \A r \in Ranks, b \in Batches : Times(r, b) + Coming(r, b) <= failed[b] + Due(b)

\* An acked batch was trained; so was the batch at hand on a rank that answers,
\* and on every rank past optimize.
TrainedByNow ==
  /\ \A b \in acked, r \in Ranks : 1 <= Times(r, b)
  /\ pc = "optimize" => \A r \in Ranks : answers[r] = "done" => 1 <= Times(r, batch)
  /\ pc \in {"export", "offload"} => \A r \in Ranks : 1 <= Times(r, batch)

Trained == OnceAWindow /\ TrainedByNow

LEMMA CountIsNat ==
  ASSUME NEW S, NEW q \in Seq(S), NEW b
  PROVE  IsFiniteSet({i \in DOMAIN q : q[i] = b}) /\ Count(q, b) \in Nat
<1>1. Len(q) \in Nat /\ DOMAIN q = 1..Len(q)
  OBVIOUS
<1>2. IsFiniteSet(1..Len(q))
  <2>1. 1 \in Int /\ Len(q) \in Int
    BY <1>1
  <2> QED BY <2>1, FS_Interval, Zenon
<1>3. {i \in DOMAIN q : q[i] = b} \subseteq 1..Len(q)
  BY <1>1
<1>4. IsFiniteSet({i \in DOMAIN q : q[i] = b})
  BY <1>2, <1>3, FS_Subset, Zenon
<1> QED BY <1>4, FS_CardinalityType DEF Count

LEMMA CountAppend ==
  ASSUME NEW S, NEW q \in Seq(S), NEW c \in S, NEW b
  PROVE  Count(Append(q, c), b) = Count(q, b) + IF c = b THEN 1 ELSE 0
<1> DEFINE n == Len(q) + 1
           D == {i \in DOMAIN q : q[i] = b}
           E == {i \in DOMAIN Append(q, c) : Append(q, c)[i] = b}
<1>1. /\ Len(q) \in Nat /\ DOMAIN q = 1..Len(q)
      /\ DOMAIN Append(q, c) = 1..n /\ Append(q, c)[n] = c
      /\ \A i \in 1..Len(q) : Append(q, c)[i] = q[i]
  OBVIOUS
<1>2. n \notin DOMAIN q /\ DOMAIN Append(q, c) = DOMAIN q \union {n}
  BY <1>1
<1>3. IsFiniteSet(D) /\ Count(q, b) \in Nat /\ n \notin D
  BY <1>2, CountIsNat
<1>4. CASE c = b
  <2>1. E = D \union {n}
    BY <1>1, <1>2, <1>4
  <2>2. Cardinality(D \union {n}) = Cardinality(D) + 1
    <3> HIDE DEF D, n
    <3> QED BY <1>3, FS_AddElement
  <2> QED BY <1>4, <2>1, <2>2 DEF Count
<1>5. CASE c # b
  <2>1. E = D
    BY <1>1, <1>2, <1>5
  <2>2. Count(Append(q, c), b) = Count(q, b)
    BY <2>1, Zenon DEF Count
  <2> QED BY <1>3, <1>5, <2>2
<1> QED BY <1>4, <1>5

LEMMA TrainedTypes ==
  ASSUME TypeOK, NEW r \in Ranks, NEW b \in Batches
  PROVE  /\ Times(r, b) \in Nat /\ Coming(r, b) \in {0, 1}
         /\ failed[b] \in Nat /\ Due(b) \in {0, 1}
<1>1. rank[r].shard \in Seq(Batches)
  BY DEF TypeOK, ActorTypes
<1>2. Times(r, b) \in Nat
  BY <1>1, CountIsNat DEF Times
<1> QED BY <1>2 DEF Coming, Due, TypeOK, DriverTypes

\* A rank that finishes optimize with its batch has trained it; it makes the
\* update that was coming, or drops it.
LEMMA FinishTrains ==
  ASSUME TypeOK, Line, NEW r \in Ranks, NEW s, NEW a, Finishes(r, s, a), NEW b \in Batches
  PROVE  /\ Times(r, b)' \in Nat /\ Times(r, b) <= Times(r, b)'
         /\ Times(r, b)' <= Times(r, b) + Coming(r, b)
         /\ Coming(r, b)' = 0
         /\ Coming(r, b) = 1 /\ a = "done" => 1 <= Times(r, b)'
         /\ \A k \in Ranks : k # r => Times(k, b)' = Times(k, b) /\ Coming(k, b)' = Coming(k, b)
<1> DEFINE c == inbox[r][1]
           old == rank[r]
<1>1. /\ old \in RankStates /\ c \in Calls /\ rank'[r] = s
      /\ s \in {old, Returned(old, c)} /\ (a = "done" => s = Returned(old, c))
      /\ 1 \in 1..Len(inbox[r]) /\ Len(inbox[r]) >= 1
  BY FinishFacts DEF TypeOK, ActorTypes, RankStates, Finishes
<1>2. \A k \in Ranks : k # r => Times(k, b)' = Times(k, b) /\ Coming(k, b)' = Coming(k, b)
  BY FinishFacts DEF TypeOK, Times, Coming, First
<1>3. Coming(r, b)' = 0
  <2>1. ASSUME Len(inbox'[r]) >= 1 PROVE inbox'[r][1].do \in Prepares
    <3>1. /\ Len(inbox[r]) \in Nat /\ Len(inbox'[r]) = Len(inbox[r]) - 1
          /\ \A i \in 1..Len(inbox'[r]) : inbox'[r][i] = inbox[r][i + 1]
      BY FinishFacts DEF TypeOK
    <3>2. 2 \in 2..Len(inbox[r]) /\ inbox'[r][1] = inbox[r][2]
      BY <2>1, <3>1
    <3> QED BY <3>2 DEF Line, OnlyPrepares
  <2> QED BY <2>1 DEF Coming, First, Prepares
<1>4. /\ old.shard \in Seq(Batches) /\ Count(old.shard, b) \in Nat
      /\ Times(r, b) = Count(old.shard, b) /\ Times(r, b)' = Count(s.shard, b)
  BY <1>1, CountIsNat DEF Times, RankStates
<1>5. Coming(r, b) = IF c.do = "optimize" /\ c.arg = b THEN 1 ELSE 0
  BY <1>1 DEF Coming, First
<1> HIDE DEF c, old
<1>6. CASE s = old /\ a # "done"
  BY <1>1, <1>2, <1>3, <1>4, <1>5, <1>6
<1>7. CASE s = Returned(old, c)
  <2>1. CASE c.do = "optimize"
    <3>1. s.shard = Append(old.shard, c.arg) /\ c.arg \in Batches
      BY <1>1, <1>7, <2>1, Returns
    <3>2. Count(s.shard, b) = Count(old.shard, b) + IF c.arg = b THEN 1 ELSE 0
      BY <1>4, <3>1, CountAppend
    <3> QED BY <1>2, <1>3, <1>4, <1>5, <2>1, <3>2
  <2>2. CASE c.do # "optimize"
    <3>1. s.shard = old.shard
      BY <1>1, <1>7, <2>2, Returns
    <3> QED BY <1>2, <1>3, <1>4, <1>5, <2>2, <3>1
  <2> QED BY <2>1, <2>2
<1> QED BY <1>1, <1>6, <1>7

LEMMA FinishKeepsTrained ==
  ASSUME TypeOK, Line, Trained, NEW r \in Ranks, NEW s, NEW a, Finishes(r, s, a)
  PROVE  Trained'
<1>1. /\ UNCHANGED <<pc, batch, acked, failed>>
      /\ answers'[r] = IF Len(inbox[r]) = 1 THEN a ELSE answers[r]
      /\ \A k \in Ranks : k # r => answers'[k] = answers[k]
      /\ Len(inbox[r]) \in Nat /\ Len(inbox[r]) >= 1
  <2>1. /\ answers'[r] = IF Len(inbox[r]) = 1 THEN a ELSE answers[r]
        /\ \A k \in Ranks : k # r => answers'[k] = answers[k]
        /\ Len(inbox[r]) \in Nat
    BY FinishFacts DEF TypeOK
  <2>2. UNCHANGED <<pc, batch, acked, failed>> /\ Len(inbox[r]) >= 1
    BY DEF Finishes, driver
  <2> QED BY <2>1, <2>2
<1>2. \A b : Due(b)' = Due(b)
  BY <1>1 DEF Due, Extra
<1>3. \A b \in Batches, k \in Ranks :
        /\ Times(k, b)' \in Nat /\ Times(k, b) <= Times(k, b)'
        /\ Times(k, b)' + Coming(k, b)' <= Times(k, b) + Coming(k, b)
  <2> SUFFICES ASSUME NEW b \in Batches, NEW k \in Ranks
               PROVE  /\ Times(k, b)' \in Nat /\ Times(k, b) <= Times(k, b)'
                      /\ Times(k, b)' + Coming(k, b)' <= Times(k, b) + Coming(k, b)
    OBVIOUS
  <2>1. Times(k, b) \in Nat /\ Coming(k, b) \in {0, 1}
    BY TrainedTypes
  <2>2. CASE k = r
    <3>1. /\ Times(r, b)' \in Nat /\ Times(r, b) <= Times(r, b)'
          /\ Times(r, b)' <= Times(r, b) + Coming(r, b)
          /\ Coming(r, b)' = 0
      BY FinishTrains
    <3> QED BY <2>1, <2>2, <3>1
  <2>3. CASE k # r
    <3>1. Times(k, b)' = Times(k, b) /\ Coming(k, b)' = Coming(k, b)
      BY <2>3, FinishTrains
    <3> QED BY <2>1, <3>1
  <2> QED BY <2>2, <2>3
<1>4. OnceAWindow'
  <2>1. ASSUME NEW k \in Ranks, NEW b \in Batches
        PROVE  Times(k, b)' + Coming(k, b)' <= failed[b] + Due(b)
    <3>1. Times(k, b) + Coming(k, b) <= failed[b] + Due(b)
      BY DEF Trained, OnceAWindow
    <3>2. Times(k, b)' + Coming(k, b)' <= Times(k, b) + Coming(k, b)
      BY <1>3
    <3>3. Times(k, b)' \in Nat /\ Coming(k, b)' \in {0, 1}
      BY <1>3 DEF Coming
    <3> QED BY <3>1, <3>2, <3>3, TrainedTypes
  <2> QED BY <1>1, <1>2, <2>1 DEF OnceAWindow
<1>5. ASSUME NEW b \in Batches, NEW k \in Ranks, 1 <= Times(k, b) PROVE 1 <= Times(k, b)'
  BY <1>3, <1>5, TrainedTypes
<1>6. PICK g \in Batches : g = batch
  BY DEF TypeOK, DriverTypes
<1>7. ASSUME pc = "optimize", NEW k \in Ranks, answers'[k] = "done"
      PROVE  1 <= Times(k, g)'
  <2>1. CASE k # r \/ Len(inbox[r]) # 1
    <3>1. answers[k] = "done"
      BY <1>1, <1>7, <2>1
    <3>2. 1 <= Times(k, g)
      BY <1>6, <1>7, <3>1 DEF Trained, TrainedByNow
    <3> QED BY <1>5, <3>2
  <2>2. CASE k = r /\ Len(inbox[r]) = 1
    <3>1. inbox[r][1].do = "optimize" /\ inbox[r][1].arg = g
      BY <1>6, <1>7, <2>2 DEF Line, OnlyTheStage, Stages
    <3>2. Coming(r, g) = 1
      BY <1>1, <3>1 DEF Coming, First
    <3>3. a = "done"
      BY <1>1, <1>7, <2>2
    <3>4. 1 <= Times(r, g)'
      BY <3>2, <3>3, FinishTrains
    <3> QED BY <2>2, <3>4
  <2> QED BY <2>1, <2>2
<1>8. ASSUME pc \in {"export", "offload"}, NEW k \in Ranks
      PROVE  1 <= Times(k, g)'
  <2>1. 1 <= Times(k, g)
    BY <1>6, <1>8 DEF Trained, TrainedByNow
  <2> QED BY <1>5, <2>1
<1>9. ASSUME NEW b \in acked, NEW k \in Ranks
      PROVE  1 <= Times(k, b)'
  <2>1. b \in Batches /\ 1 <= Times(k, b)
    BY DEF TypeOK, DriverTypes, Trained, TrainedByNow
  <2> QED BY <1>5, <2>1
<1>10. batch' = g /\ pc' = pc /\ acked' = acked
  BY <1>1, <1>6
<1>11. TrainedByNow'
  BY <1>7, <1>8, <1>9, <1>10 DEF TrainedByNow, Times
<1> QED BY <1>4, <1>11 DEF Trained

LEMMA PrepareComing ==
  ASSUME TypeOK, NEW call \in Prepares, NEW args, Arrives(call, args)
  PROVE  \A r \in Ranks, b \in Batches :
           Times(r, b)' = Times(r, b) /\ Coming(r, b)' = Coming(r, b)
<1> SUFFICES ASSUME NEW r \in Ranks, NEW b \in Batches
             PROVE  Times(r, b)' = Times(r, b) /\ Coming(r, b)' = Coming(r, b)
  OBVIOUS
<1>1. Times(r, b)' = Times(r, b)
  BY DEF Times, Arrives
<1>2. CASE Len(inbox[r]) = 0
  <2>1. inbox'[r][1].do = call
    BY <1>2, ArrivesFirst
  <2>2. ~First(r, "optimize") /\ ~First(r, "optimize")'
    BY <1>2, <2>1 DEF First, Prepares
  <2> QED BY <1>1, <2>2 DEF Coming
<1>3. CASE Len(inbox[r]) >= 1
  <2>1. Len(inbox'[r]) >= 1 /\ inbox'[r][1] = inbox[r][1]
    BY <1>3, ArrivesSecond
  <2> QED BY <1>1, <1>3, <2>1 DEF Coming, First
<1>4. Len(inbox[r]) \in Nat
  BY Naturals
<1> QED BY <1>2, <1>3, <1>4

LEMMA StageComing ==
  ASSUME TypeOK, Line, AllDone, NEW call \in Stages, NEW args, Arrives(call, args)
  PROVE  \A r \in Ranks, b \in Batches :
           /\ Times(r, b)' = Times(r, b) /\ Coming(r, b) = 0
           /\ Coming(r, b)' = IF call = "optimize" /\ args[r] = b THEN 1 ELSE 0
<1> SUFFICES ASSUME NEW r \in Ranks, NEW b \in Batches
             PROVE  /\ Times(r, b)' = Times(r, b) /\ Coming(r, b) = 0
                    /\ Coming(r, b)' = IF call = "optimize" /\ args[r] = b THEN 1 ELSE 0
  OBVIOUS
<1>1. Times(r, b)' = Times(r, b)
  BY DEF Times, Arrives
<1>2. Len(inbox[r]) = 0
  BY AllDoneEmpties
<1>3. /\ Len(inbox'[r]) = 1
      /\ inbox'[r][1].do = call /\ inbox'[r][1].arg = args[r]
  BY <1>2, ArrivesFirst
<1>4. ~First(r, "optimize") /\ (First(r, "optimize")' <=> call = "optimize")
  BY <1>2, <1>3 DEF First
<1> QED BY <1>1, <1>3, <1>4 DEF Coming

\* While the shards stay and nothing comes, a window may only become due.
LEMMA NothingComes ==
  ASSUME TypeOK, Trained, UNCHANGED failed,
         \A r \in Ranks, b \in Batches :
           Times(r, b)' = Times(r, b) /\ Coming(r, b)' \in {0, Coming(r, b)},
         \A b \in Batches : Due(b)' \in {1, Due(b)}
  PROVE  OnceAWindow'
<1> SUFFICES ASSUME NEW r \in Ranks, NEW b \in Batches
             PROVE  Times(r, b)' + Coming(r, b)' <= failed[b] + Due(b)'
  BY DEF OnceAWindow
<1>1. Times(r, b) + Coming(r, b) <= failed[b] + Due(b)
  BY DEF Trained, OnceAWindow
<1>2. /\ Times(r, b) \in Nat /\ Coming(r, b) \in {0, 1}
      /\ failed[b] \in Nat /\ Due(b) \in {0, 1}
  BY TrainedTypes
<1>3. /\ Times(r, b)' = Times(r, b) /\ Coming(r, b)' \in {0, Coming(r, b)}
      /\ Due(b)' \in {1, Due(b)}
  OBVIOUS
<1> QED BY <1>1, <1>2, <1>3

LEMMA RestKeepsTrained ==
  ASSUME TypeOK, Trained, UNCHANGED <<rank, inbox, answers, batch, acked, failed>>,
         \/ UNCHANGED pc
         \/ Extra = 0 /\ pc' \in Down \union {"idle", "dead"}
  PROVE  Trained'
<1>1. \A r \in Ranks, b \in Batches :
        Times(r, b)' = Times(r, b) /\ Coming(r, b)' = Coming(r, b)
  BY DEF Times, Coming, First
<1>2. Extra' = Extra
  BY DEF Extra, Down
<1>3. \A b \in Batches : Due(b)' = Due(b)
  BY <1>2 DEF Due
<1>4. OnceAWindow'
  BY <1>1, <1>3, NothingComes
<1>5. TrainedByNow'
  BY DEF Trained, TrainedByNow, Times, Down
<1> QED BY <1>4, <1>5 DEF Trained

LEMMA InitTrained == Init => Trained
<1> SUFFICES ASSUME Init PROVE Trained
  OBVIOUS
<1>1. ASSUME NEW b PROVE Count(<<>>, b) = 0
  <2>1. {i \in DOMAIN <<>> : <<>>[i] = b} = {}
    OBVIOUS
  <2> QED BY <2>1, FS_EmptySet DEF Count
<1>2. \A r \in Ranks : rank[r].shard = <<>> /\ inbox[r] = <<>>
  BY DEF Init, NewRanks, NoCalls
<1>3. \A r \in Ranks, b \in Batches : Times(r, b) = 0 /\ Coming(r, b) = 0
  BY <1>1, <1>2 DEF Times, Coming, First
<1>4. \A b \in Batches : failed[b] = 0 /\ Due(b) = 0
  BY DEF Init, NoFailures, Due, Extra
<1>5. OnceAWindow
  BY <1>3, <1>4 DEF OnceAWindow
<1>6. TrainedByNow
  BY DEF Init, TrainedByNow
<1> QED BY <1>5, <1>6 DEF Trained

LEMMA CrashTrained == ASSUME Crash PROVE Trained'
<1>1. ASSUME NEW b PROVE Count(<<>>, b) = 0
  <2>1. {i \in DOMAIN <<>> : <<>>[i] = b} = {}
    OBVIOUS
  <2> QED BY <2>1, FS_EmptySet DEF Count
<1>2. \A r \in Ranks : rank'[r].shard = <<>> /\ inbox'[r] = <<>>
  BY DEF Crash, NewRanks, NoCalls
<1>3. \A r \in Ranks, b \in Batches : Times(r, b)' = 0 /\ Coming(r, b)' = 0
  BY <1>1, <1>2 DEF Times, Coming, First
<1>4. \A b \in Batches : failed'[b] = 0 /\ Due(b)' = 0
  BY DEF Crash, NoFailures, Due, Extra
<1>5. OnceAWindow'
  BY <1>3, <1>4 DEF OnceAWindow
<1>6. TrainedByNow'
  BY DEF Crash, TrainedByNow
<1> QED BY <1>5, <1>6 DEF Trained

LEMMA DriverKeepsTrained == ASSUME TypeOK, Line, Trained, Driver PROVE Trained'
<1> USE DEF Prepares, Stages
<1>0. batch \in Batches /\ acked \in SUBSET Batches
  BY DEF TypeOK, DriverTypes
<1>1. ASSUME NEW b \in Batches, BeginWindow(b) PROVE Trained'
  <2>1. PICK call : call = pc'
    OBVIOUS
  <2>2. /\ UNCHANGED <<acked, failed>> /\ pc = "idle"
        /\ call \in {"initialize", "hydrate"} /\ Arrives(call, Args(call))
    BY <1>1, <2>1, BeginWindowArrives DEF BeginWindow, history
  <2>3. \A r \in Ranks, x \in Batches :
          Times(r, x)' = Times(r, x) /\ Coming(r, x)' = Coming(r, x)
    BY <2>2, PrepareComing
  <2>4. \A x \in Batches : Due(x)' = Due(x)
    BY <2>1, <2>2 DEF Due, Extra
  <2>5. OnceAWindow'
    BY <2>2, <2>3, <2>4, NothingComes
  <2>6. TrainedByNow'
    BY <1>0, <2>1, <2>2, <2>3 DEF Trained, TrainedByNow
  <2> QED BY <2>5, <2>6 DEF Trained
<1>2. CASE Proceed
  <2>1. AllDone /\ UNCHANGED <<batch, acked, failed>> /\ batch \notin acked
    BY <1>2 DEF Proceed, history, Line, OnlyTheNext
  <2>2. CASE /\ pc = "initialize" /\ pc' = "hydrate" /\ Arrives("hydrate", kept')
    <3>1. PICK args : args = kept'
      OBVIOUS
    <3>2. Arrives("hydrate", args)
      BY <2>2, <3>1 DEF Arrives
    <3>3. \A r \in Ranks, x \in Batches :
            Times(r, x)' = Times(r, x) /\ Coming(r, x)' = Coming(r, x)
      BY <3>2, PrepareComing
    <3>4. \A x \in Batches : Due(x)' = Due(x)
      BY <2>1, <2>2 DEF Due, Extra
    <3>5. OnceAWindow'
      BY <2>1, <3>3, <3>4, NothingComes
    <3>6. TrainedByNow'
      BY <1>0, <2>1, <2>2, <3>3 DEF Trained, TrainedByNow
    <3> QED BY <3>5, <3>6 DEF Trained
  <2>3. CASE /\ pc = "hydrate" /\ pc' = "optimize" /\ Arrives("optimize", Args("optimize"))
    <3>1. \A r \in Ranks, x \in Batches :
            /\ Times(r, x)' = Times(r, x) /\ Coming(r, x) = 0
            /\ Coming(r, x)' = IF Args("optimize")[r] = x THEN 1 ELSE 0
      BY <2>1, <2>3, StageComing
    <3>2. \A r \in Ranks : Args("optimize")[r] = batch
      BY DEF Args, Argument
    <3>3. ASSUME NEW x \in Batches
          PROVE  Due(x) \in {0, 1} /\ Due(x)' = IF x = batch THEN 1 ELSE Due(x)
      BY <2>1, <2>3 DEF Due, Extra
    <3>4. ASSUME NEW r \in Ranks, NEW x \in Batches
          PROVE  Times(r, x)' + Coming(r, x)' <= failed[x] + Due(x)'
      <4>1. Times(r, x) + Coming(r, x) <= failed[x] + Due(x)
        BY DEF Trained, OnceAWindow
      <4>2. Times(r, x) \in Nat /\ failed[x] \in Nat
        BY TrainedTypes
      <4>3. Times(r, x)' = Times(r, x) /\ Coming(r, x) = 0
        BY <3>1
      <4>4. Coming(r, x)' = IF x = batch THEN 1 ELSE 0
        BY <3>1, <3>2
      <4>5. x = batch => Due(x) = 0
        BY <2>1, <2>3 DEF Due, Extra
      <4> QED BY <3>3, <4>1, <4>2, <4>3, <4>4, <4>5
    <3>5. OnceAWindow'
      BY <2>1, <3>4 DEF OnceAWindow
    <3>6. \A r \in Ranks : answers'[r] = "waiting"
      BY <2>3 DEF Arrives
    <3>7. TrainedByNow'
      BY <1>0, <2>1, <2>3, <3>1, <3>6 DEF Trained, TrainedByNow
    <3> QED BY <3>5, <3>7 DEF Trained
  <2>4. CASE /\ pc = "optimize" /\ pc' = "export" /\ Arrives("export", Args("export"))
    <3>1. \A r \in Ranks, x \in Batches :
            Times(r, x)' = Times(r, x) /\ Coming(r, x)' = 0
      BY <2>1, <2>4, StageComing
    <3>2. \A x \in Batches : Due(x)' = Due(x)
      BY <2>1, <2>4 DEF Due, Extra
    <3>3. OnceAWindow'
      BY <2>1, <3>1, <3>2, NothingComes
    <3>4. \A r \in Ranks : 1 <= Times(r, batch)
      BY <2>1, <2>4 DEF AllDone, Trained, TrainedByNow
    <3>5. TrainedByNow'
      BY <1>0, <2>1, <2>4, <3>1, <3>4 DEF Trained, TrainedByNow, Times
    <3> QED BY <3>3, <3>5 DEF Trained
  <2> QED BY <1>2, <2>2, <2>3, <2>4, ProceedArrives
<1>3. CASE Register
  <2>1. AllDone /\ UNCHANGED <<batch, acked, failed>> /\ pc = "export" /\ pc' \in {"offload", "cleanup"}
    BY <1>3, RegisterArrives DEF Register
  <2>2. PICK call : call = pc'
    OBVIOUS
  <2>3. Arrives(call, Args(call)) /\ call \in {"offload", "cleanup"}
    BY <1>3, <2>2, RegisterArrives
  <2>4. \A r \in Ranks, x \in Batches :
          Times(r, x)' = Times(r, x) /\ Coming(r, x)' \in {0, Coming(r, x)}
    <3>1. CASE call = "offload"
      BY <2>1, <2>3, <3>1, StageComing
    <3>2. CASE call = "cleanup"
      BY <2>3, <3>2, PrepareComing
    <3> QED BY <2>3, <3>1, <3>2
  <2>5. \A x \in Batches : Due(x)' = Due(x)
    BY <2>1 DEF Due, Extra
  <2>6. OnceAWindow'
    BY <2>1, <2>4, <2>5, NothingComes
  <2>7. \A r \in Ranks : 1 <= Times(r, batch)
    BY <2>1 DEF Trained, TrainedByNow
  <2>8. rank' = rank
    BY <2>3 DEF Arrives
  <2>9. TrainedByNow'
    BY <2>1, <2>7, <2>8 DEF Trained, TrainedByNow, Times
  <2> QED BY <2>6, <2>9 DEF Trained
<1>4. CASE Ack
  <2>1. /\ UNCHANGED <<rank, inbox, answers, batch, failed>> /\ pc = "offload" /\ pc' = "activate"
        /\ acked' = acked \union {batch}
    BY <1>4 DEF Ack, actors, history
  <2>2. \A r \in Ranks, x \in Batches :
          Times(r, x)' = Times(r, x) /\ Coming(r, x)' = Coming(r, x)
    BY <2>1 DEF Times, Coming, First
  <2>3. \A x \in Batches : Due(x)' = Due(x)
    BY <2>1 DEF Due, Extra
  <2>4. OnceAWindow'
    BY <2>1, <2>2, <2>3, NothingComes
  <2>5. \A r \in Ranks : 1 <= Times(r, batch)
    BY <2>1 DEF Trained, TrainedByNow
  <2>6. TrainedByNow'
    BY <2>1, <2>5 DEF Trained, TrainedByNow, Times
  <2> QED BY <2>4, <2>6 DEF Trained
<1>5. CASE CleanUp
  <2>1. UNCHANGED <<batch, acked, failed>> /\ pc' = "cleanup" /\ Arrives("cleanup", Args("cleanup"))
    BY <1>5, CleanUpArrives DEF CleanUp, history
  <2>2. \A r \in Ranks, x \in Batches :
          Times(r, x)' = Times(r, x) /\ Coming(r, x)' = Coming(r, x)
    BY <2>1, PrepareComing
  <2>3. \A x \in Batches : Due(x)' \in {1, Due(x)}
    BY <2>1 DEF Due, Extra
  <2>4. OnceAWindow'
    BY <2>1, <2>2, <2>3, NothingComes
  <2>5. TrainedByNow'
    BY <1>0, <2>1, <2>2 DEF Trained, TrainedByNow
  <2> QED BY <2>4, <2>5 DEF Trained
<1>6. CASE Release
  <2>1. /\ UNCHANGED <<rank, inbox, batch, acked>> /\ pc = "cleanup" /\ pc' = "dead"
        /\ failed' = [failed EXCEPT ![batch] = @ + 1]
        /\ batch \notin acked
    BY <1>6 DEF Release, actors, Line, OnlyTheNext
  <2>2. ASSUME NEW r \in Ranks, NEW x \in Batches
        PROVE  Times(r, x)' + Coming(r, x)' <= failed'[x] + Due(x)'
    <3>1. Times(r, x)' = Times(r, x) /\ Coming(r, x)' = Coming(r, x)
      BY <2>1 DEF Times, Coming, First
    <3>2. Times(r, x) + Coming(r, x) <= failed[x] + Due(x)
      BY DEF Trained, OnceAWindow
    <3>3. CASE x = batch
      <4>1. Due(x) = 1 /\ Due(x)' = 0
        BY <2>1, <3>3 DEF Due, Extra
      <4>2. failed'[x] = failed[x] + 1
        BY <2>1, <3>3 DEF TypeOK, DriverTypes
      <4> QED BY <3>1, <3>2, <4>1, <4>2, TrainedTypes
    <3>4. CASE x # batch
      <4>1. Due(x)' = Due(x) /\ failed'[x] = failed[x]
        BY <2>1, <3>4 DEF Due, TypeOK, DriverTypes
      <4> QED BY <3>1, <3>2, <4>1
    <3> QED BY <3>3, <3>4
  <2>3. OnceAWindow'
    BY <2>2 DEF OnceAWindow
  <2>4. TrainedByNow'
    BY <2>1 DEF Trained, TrainedByNow, Times
  <2> QED BY <2>3, <2>4 DEF Trained
<1>7. CASE Activate
  BY <1>7, RestKeepsTrained DEF Activate, actors, history, Extra
<1>8. CASE ActivateFails
  BY <1>8, RestKeepsTrained DEF ActivateFails, actors, Extra
<1>9. CASE RunAgain
  BY <1>9, RestKeepsTrained DEF RunAgain, actors, history, Extra
<1> QED BY <1>1, <1>2, <1>3, <1>4, <1>5, <1>6, <1>7, <1>8, <1>9 DEF Driver

LEMMA NextTrained == ASSUME TypeOK, Line, Trained, [Next]_vars PROVE Trained'
<1>1. CASE UNCHANGED vars
  BY <1>1, RestKeepsTrained DEF vars, driver, actors, history
<1>2. CASE Open
  BY <1>2, RestKeepsTrained DEF Open, actors, history, Extra, Down
<1>3. CASE Crash
  BY <1>3, CrashTrained
<1>4. CASE Driver
  BY <1>4, DriverKeepsTrained
<1>5. ASSUME NEW r \in Ranks, Run(r) PROVE Trained'
  BY <1>5, RunFinishes, FinishKeepsTrained DEF TypeOK
<1>6. CASE BeginWrite
  BY <1>6, RestKeepsTrained DEF BeginWrite, driver, history
<1>7. CASE FinishWrite \/ WriteFails
  <2>1. First(0, "export")
    BY <1>7 DEF FinishWrite, WriteFails, Line, OnlyTheNext
  <2> QED BY <1>7, <2>1, WriteFinishes, FinishKeepsTrained, RankZero DEF TypeOK
<1>8. ASSUME NEW r \in Ranks, NEW v \in Versions, Load(r, v) PROVE Trained'
  BY <1>8, RestKeepsTrained DEF Load, driver, actors, history
<1> QED BY <1>1, <1>2, <1>3, <1>4, <1>5, <1>6, <1>7, <1>8 DEF Next

-----------------------------------------------------------------------------
(* The artifact the replicas are told to load.                             *)

\* From its registration to its activation the new version is what was
\* registered; and the active one stays so, as exports are of the next version.
Artifacts ==
  /\ active > 0 => disk[active] = checksums[active]
  /\ pc \in {"offload", "activate"} => disk[NewVersion] = checksums[NewVersion]

LEMMA InitArtifacts == Init => Artifacts
BY DEF Init, Artifacts

LEMMA CrashArtifacts == ASSUME Crash PROVE Artifacts'
BY DEF Crash, Artifacts

LEMMA RestKeepsArtifacts ==
  ASSUME Artifacts, UNCHANGED <<active, checksums, disk>>,
         \/ UNCHANGED pc
         \/ pc' = "activate" /\ pc = "offload"
         \/ pc' \notin {"offload", "activate"}
  PROVE  Artifacts'
BY DEF Artifacts, NewVersion

\* Rank 0 writes the version after the active one, and never between its
\* registration and its activation.
LEMMA WriteKeepsArtifacts ==
  ASSUME TypeOK, Line, Artifacts, First(0, "export"), UNCHANGED <<pc, active, checksums>>,
         NEW p, disk' = [disk EXCEPT ![VersionDir(inbox[0][1])] = p]
  PROVE  Artifacts'
<1>1. VersionDir(inbox[0][1]) = active + 1
  BY RankZero DEF Line, OnlyTheNext, VersionDir
<1>2. pc \notin {"offload", "activate"}
  <2>1. CASE pc = "offload"
    <3> DEFINE n == Len(inbox[0])
    <3>1. n = 1 => inbox[0][1].do = "offload"
      BY <2>1, RankZero DEF Line, OnlyTheStage, Stages
    <3>2. n <= 1
      BY <2>1, RankZero DEF Line, OnlyTheStage, Stages
    <3>3. n >= 1 /\ inbox[0][1].do = "export"
      BY DEF First
    <3>4. n \in Nat
      BY RankZero, Naturals
    <3> HIDE DEF n
    <3>5. n = 1
      BY <3>2, <3>3, <3>4
    <3> QED BY <3>1, <3>3, <3>5
  <2>2. CASE pc = "activate"
    BY <2>2, RankZero DEF Line, OnlyTheStage, First
  <2> QED BY <2>1, <2>2
<1>3. active \in Versions /\ active # active + 1
  BY RanksAssumption DEF TypeOK, DriverTypes, Versions
<1>4. disk'[active] = disk[active]
  BY <1>1, <1>3 DEF TypeOK, FileTypes
<1> QED BY <1>2, <1>4 DEF Artifacts

\* What is registered is what is on disk, whether the version is new to the
\* registry or was registered by an earlier window.
LEMMA RegisterKeepsArtifacts ==
  ASSUME TypeOK, Line, Artifacts, Register PROVE Artifacts'
<1>1. UNCHANGED <<active, disk>> /\ pc' \in {"offload", "cleanup"} /\ active < MaxVersion
  BY RegisterArrives DEF Register, files, Line, OnlyTheNext, Stages
<1>2. /\ active \in Versions /\ active # NewVersion /\ NewVersion \in Versions
      /\ NewVersion' = NewVersion
  BY <1>1, RanksAssumption DEF TypeOK, DriverTypes, Versions, NewVersion
<1>3. CASE ~Accepts(NewVersion, disk[NewVersion])
  BY <1>1, <1>3 DEF Register, Post, Artifacts
<1>4. CASE Accepts(NewVersion, disk[NewVersion])
  <2> DEFINE d == disk[NewVersion]
             n == NewVersion
  <2>1. /\ checksums' = [checksums EXCEPT ![n] = IF @ = NoFile THEN d ELSE @]
        /\ checksums[n] \in {NoFile, d}
    BY <1>4 DEF Register, Accepts
  <2> HIDE DEF d, n
  <2>2. checksums'[n] = d
    BY <1>2, <2>1 DEF TypeOK, FileTypes, n
  <2>3. checksums'[active] = checksums[active]
    BY <1>2, <2>1 DEF TypeOK, FileTypes, n
  <2>4. disk'[NewVersion'] = d /\ checksums'[NewVersion'] = d
    BY <1>1, <1>2, <2>2 DEF n, d
  <2>5. active > 0 => disk'[active] = checksums'[active]
    BY <1>1, <2>3 DEF Artifacts
  <2>6. active' = active
    BY <1>1
  <2> QED BY <2>4, <2>5, <2>6 DEF Artifacts
<1> QED BY <1>3, <1>4

LEMMA NextArtifacts == ASSUME TypeOK, Line, Artifacts, [Next]_vars PROVE Artifacts'
<1>1. CASE UNCHANGED vars
  BY <1>1, RestKeepsArtifacts DEF vars, driver, files
<1>2. CASE Open
  BY <1>2, RestKeepsArtifacts DEF Open
<1>3. CASE Crash
  BY <1>3, CrashArtifacts
<1>4. CASE Driver
  <2>1. ASSUME NEW b \in Batches, BeginWindow(b) PROVE Artifacts'
    <3>1. UNCHANGED <<active, checksums, disk>> /\ pc' \in {"initialize", "hydrate"}
      BY <2>1, BeginWindowArrives DEF BeginWindow, files
    <3> QED BY <3>1, RestKeepsArtifacts
  <2>2. CASE Proceed
    <3>1. UNCHANGED <<active, checksums, disk>> /\ pc' \in {"hydrate", "optimize", "export"}
      BY <2>2, ProceedArrives DEF Proceed, files
    <3> QED BY <3>1, RestKeepsArtifacts
  <2>3. CASE Register
    BY <2>3, RegisterKeepsArtifacts
  <2>4. CASE Ack
    BY <2>4, RestKeepsArtifacts DEF Ack, files
  <2>5. CASE CleanUp
    <3>1. UNCHANGED <<active, checksums, disk>> /\ pc' = "cleanup"
      BY <2>5, CleanUpArrives DEF CleanUp, files
    <3> QED BY <3>1, RestKeepsArtifacts
  <2>6. CASE Release
    BY <2>6, RestKeepsArtifacts DEF Release, files
  <2>7. CASE Activate
    <3>1. /\ active' = NewVersion /\ pc = "activate" /\ pc' = "idle"
          /\ UNCHANGED <<disk, checksums>>
      BY <2>7 DEF Activate, files
    <3>2. disk[NewVersion] = checksums[NewVersion]
      BY <3>1 DEF Artifacts
    <3> QED BY <3>1, <3>2 DEF Artifacts
  <2>8. CASE ActivateFails
    BY <2>8, RestKeepsArtifacts DEF ActivateFails, files
  <2>9. CASE RunAgain
    BY <2>9, RestKeepsArtifacts DEF RunAgain, files
  <2> QED BY <1>4, <2>1, <2>2, <2>3, <2>4, <2>5, <2>6, <2>7, <2>8, <2>9 DEF Driver
<1>5. ASSUME NEW r \in Ranks, Run(r) PROVE Artifacts'
  BY <1>5, RestKeepsArtifacts DEF Run, driver, files
<1>6. CASE BeginWrite \/ FinishWrite
  <2>1. inbox[0] \in Seq(Calls)
    BY RankZero DEF TypeOK, ActorTypes
  <2>2. First(0, "export")
    <3>1. CASE BeginWrite
      <4>1. inbox[0] # <<>> /\ Head(inbox[0]).do = "export"
        BY <3>1 DEF BeginWrite, Publishes
      <4> QED BY <2>1, <4>1 DEF First
    <3>2. CASE FinishWrite
      BY <3>2 DEF FinishWrite, Line, OnlyTheNext
    <3> QED BY <1>6, <3>1, <3>2
  <2>3. Head(inbox[0]) = inbox[0][1]
    BY <2>1, <2>2 DEF First
  <2>4. UNCHANGED <<pc, active, checksums>>
    BY <1>6 DEF BeginWrite, FinishWrite, driver
  <2>5. PICK p : disk' = [disk EXCEPT ![VersionDir(inbox[0][1])] = p]
    <3>1. CASE BeginWrite
      BY <2>3, <3>1 DEF BeginWrite
    <3>2. CASE FinishWrite
      BY <2>3, <3>2 DEF FinishWrite
    <3> QED BY <1>6, <3>1, <3>2
  <2> QED BY <2>2, <2>4, <2>5, WriteKeepsArtifacts
<1>7. CASE WriteFails
  BY <1>7, RestKeepsArtifacts DEF WriteFails, driver, files
<1>8. ASSUME NEW r \in Ranks, NEW v \in Versions, Load(r, v) PROVE Artifacts'
  BY <1>8, RestKeepsArtifacts DEF Load, driver
<1> QED BY <1>1, <1>2, <1>3, <1>4, <1>5, <1>6, <1>7, <1>8 DEF Next

-----------------------------------------------------------------------------
IInv == TypeOK /\ Line /\ Counting /\ Trained /\ Artifacts

\* Every state of the driver and the ranks has its types, in no inbox is more
\* than one call that counts, and counters, shards and artifacts agree.
THEOREM RanksInvariance == Spec => []IInv
<1>1. Init => IInv
  BY InitTypes, InitLine, InitCounting, InitTrained, InitArtifacts DEF IInv
<1>2. IInv /\ [Next]_vars => IInv'
  BY NextTypes, NextLine, NextCounting, NextTrained, NextArtifacts DEF IInv
<1> QED BY <1>1, <1>2, PTL DEF Spec

\* The step counter of a rank never runs ahead of the updates the rank made, and
\* lags by at most one for each failed window, though it goes through the driver
\* and back, and a hydrate may be late (training.py:384-397).
THEOREM CounterIsTrue == Spec => []CounterFollowsUpdates
<1>1. IInv => CounterFollowsUpdates
  BY DEF IInv, Counting
<1> QED BY <1>1, RanksInvariance, PTL

\* An acked batch was trained by every rank, by none more often than once and once
\* again for each failed window that gave it back (training.py:262-274).
THEOREM AckedWasTrained == Spec => []AckedIsTrained
<1>1. ASSUME IInv PROVE AckedIsTrained
  <2> SUFFICES ASSUME NEW b \in acked, NEW r \in Ranks
               PROVE  Times(r, b) \in 1..1 + failed[b]
    BY DEF AckedIsTrained, Times, Count
  <2>1. TypeOK /\ Trained /\ b \in Batches
    BY <1>1 DEF IInv, TypeOK, DriverTypes
  <2>2. /\ Times(r, b) \in Nat /\ Coming(r, b) \in {0, 1} /\ failed[b] \in Nat
    BY <2>1, TrainedTypes
  <2>3. Due(b) = 1
    BY DEF Due
  <2>4. Times(r, b) + Coming(r, b) <= failed[b] + Due(b) /\ 1 <= Times(r, b)
    BY <2>1 DEF Trained, OnceAWindow, TrainedByNow
  <2> QED BY <2>2, <2>3, <2>4
<1> QED BY <1>1, RanksInvariance, PTL

\* The artifact of the active version, and of the one being activated, has the
\* checksum it was registered with, whatever was exported again, left half written
\* or written late (fsdp2_backend.py:167-232, weight_store.py:179-191).
THEOREM ArtifactStaysIntact == Spec => []ActiveArtifactIntact
<1>1. IInv => ActiveArtifactIntact
  BY DEF IInv, Artifacts, ActiveArtifactIntact
<1> QED BY <1>1, RanksInvariance, PTL
=============================================================================
