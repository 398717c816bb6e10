----------------------------- MODULE TrainerRanks -----------------------------
(***************************************************************************)
(* The trainer ranks and the artifacts they publish: the FSDP2 backend of  *)
(* src/nano_rl/runtime/backends/fsdp2_backend.py or the mock of            *)
(* trainer_backend.py with its file store (weight_store.py), driven by the *)
(* train steps of ray/training.py.                                         *)
(*                                                                         *)
(* What is trained is the sequence of batches a rank's shard was updated   *)
(* with.  Beside it runs the counter _train_step, which the driver keeps   *)
(* for the rank and gives back at the next hydrate.  An artifact is        *)
(* written in place, in the directory of its version.  A call may fail on  *)
(* any rank; the driver gives up at the first failure while the other      *)
(* ranks are still at work.  A run may be started again on the same        *)
(* actors, and the whole process may crash and be started again: the ranks *)
(* begin from the base model with an empty registry, and find the          *)
(* directory as it was left.                                               *)
(***************************************************************************)
EXTENDS Integers, Sequences, FiniteSets

CONSTANTS
  Ranks,       \* 0 is the rank that publishes
  Batches,     \* the train batches in the queue
  MaxVersion,  \* bound: the last version trained
  MaxWindows,  \* bound: train windows in one process
  MaxFaults,   \* bound: calls that fail
  MaxCrashes,  \* bound: crashes of the process
  Base,        \* the checksum of the base model, version 0
  NoFile,      \* a version without an artifact or a checksum
  Torn,        \* an artifact whose writing began and has not ended
  Unknown      \* no state kept for a rank

ASSUME RankZero == 0 \in Ranks /\ Ranks \subseteq Nat

ASSUME RanksAssumption ==
  /\ Batches # {} /\ MaxVersion \in Nat
  /\ Unknown \notin Nat

VARIABLES
  backend,     \* "fsdp2" or "mock"
  pc,          \* the call the driver waits for, or where it is between calls
  batch,       \* the reserved batch
  acked,       \* the batches acked
  active,      \* the version active in the registry
  checksums,   \* the registered checksum of each version
  unusable,    \* the versions marked failed
  kept,        \* _trainer_states: the counter in the state kept for a rank
  rank,        \* per rank: ready, counter, shard
  inbox,       \* the calls an actor has not finished
  answers,     \* the answers to the last call
  writing,     \* rank 0 is in the middle of writing an artifact
  disk,        \* what each version's directory holds
  cache,       \* the payloads each rank's store has in memory
  \* history
  whole,       \* the artifacts ever written to their end, by version
  failed,      \* the windows that failed in this process, by batch,
  failures,    \* and all together
  faults, crashes

driver  == <<pc, batch, acked, active, checksums, unusable, kept>>
actors  == <<rank, inbox, answers, writing>>
files   == <<disk, cache, whole>>
history == <<failed, failures, faults, crashes>>
vars    == <<backend, driver, actors, files, history>>

Versions == 0..MaxVersion
Down     == {"opening", "refused"}
NewVersion == active + 1

\* Driver, registry and ranks of a new process.
FirstBatch   == CHOOSE b \in Batches : TRUE
NewRegistry  == [v \in Versions |-> IF v = 0 THEN Base ELSE NoFile]
NothingKept  == [r \in Ranks |-> Unknown]
NewRanks     == [r \in Ranks |-> [ready |-> FALSE, counter |-> 0, shard |-> <<>>]]
NoCalls      == [r \in Ranks |-> <<>>]
NoAnswers    == [r \in Ranks |-> "none"]
EmptyStores  == [r \in Ranks |-> [v \in Versions |-> NoFile]]
NoFailures   == [b \in Batches |-> 0]

Init ==
  /\ backend \in {"fsdp2", "mock"}
  /\ pc = "opening" /\ batch = FirstBatch /\ acked = {}
  /\ active = 0 /\ checksums = NewRegistry /\ unusable = {}
  /\ kept = NothingKept
  /\ rank = NewRanks /\ inbox = NoCalls /\ answers = NoAnswers /\ writing = FALSE
  /\ disk = [v \in Versions |-> NoFile] /\ whole = [v \in Versions |-> {}]
  /\ cache = EmptyStores
  /\ failed = NoFailures /\ failures = 0 /\ faults = 0 /\ crashes = 0

-----------------------------------------------------------------------------
(* The process: a store per rank reads the manifests it finds. *)

Open ==
  /\ pc = "opening"
  /\ IF backend = "mock" /\ \E v \in Versions : disk[v] = Torn
       THEN pc' = "refused" /\ UNCHANGED cache
       ELSE /\ pc' = "idle"
            /\ cache' = IF backend = "mock" THEN [r \in Ranks |-> disk] ELSE cache
  /\ UNCHANGED <<backend, batch, acked, active, checksums, unusable, kept, actors, disk, whole, history>>

Crash ==
  /\ pc \notin Down
  /\ crashes < MaxCrashes
  /\ crashes' = crashes + 1
  /\ pc' = "opening" /\ batch' = FirstBatch /\ acked' = {}
  /\ active' = 0 /\ checksums' = NewRegistry /\ unusable' = {}
  /\ kept' = NothingKept
  /\ rank' = NewRanks /\ inbox' = NoCalls /\ answers' = NoAnswers /\ writing' = FALSE
  /\ cache' = EmptyStores /\ failed' = NoFailures /\ failures' = 0
  /\ UNCHANGED <<backend, disk, whole, faults>>

\* The run is started again, by the same loop or by a new one on the actors.
RunAgain ==
  /\ \/ pc = "dead" /\ kept' \in {kept, NothingKept}
     \/ pc = "idle" /\ kept' = NothingKept
  /\ pc' = "idle"
  /\ UNCHANGED <<backend, batch, acked, active, checksums, unusable, actors, files, history>>

\* Anyone who holds a rank's store loads a version.
Load(r, v) ==
  /\ backend = "mock" /\ pc \notin Down
  /\ cache[r][v] = NoFile /\ disk[v] \notin {NoFile, Torn}
  /\ cache' = [cache EXCEPT ![r][v] = disk[v]]
  /\ UNCHANGED <<backend, driver, actors, disk, whole, history>>

-----------------------------------------------------------------------------
(* The driver. *)

Argument(call, r) == CASE call = "hydrate"  -> kept[r]
                       [] call = "optimize" -> batch
                       [] call = "export"   -> active
                       [] OTHER             -> 0

\* The call goes to every rank, and ray.get waits for the answers.
Post(call) ==
  /\ inbox' = [r \in Ranks |-> Append(inbox[r], [do |-> call, arg |-> Argument(call, r)])]
  /\ answers' = [r \in Ranks |-> "waiting"]
  /\ pc' = call
  /\ UNCHANGED <<rank, writing>>

\* A slip: the first answer will do.
AllDone_first == answers[0] = "done"
AllDone       == \A r \in Ranks : answers[r] = "done"
SomeFailed    == \E r \in Ranks : answers[r] = "failed"

\* A slip: the states of an offload are not kept.
States_hydrateOnly(call) == IF call \in {"initialize", "hydrate"}
                              THEN [r \in Ranks |-> rank[r].counter] ELSE kept
\* What the driver keeps when a call returned on every rank.
States(call) == IF call \in {"initialize", "hydrate", "offload", "cleanup"}
                  THEN [r \in Ranks |-> rank[r].counter] ELSE kept

Fault == /\ faults < MaxFaults
         /\ faults' = faults + 1

BeginWindow(b) ==
  /\ pc = "idle" /\ active < MaxVersion
  /\ failures + Cardinality(acked) < MaxWindows
  /\ b \in Batches \ acked
  /\ batch' = b
  /\ Post(IF \E r \in Ranks : kept[r] = Unknown THEN "initialize" ELSE "hydrate")
  /\ UNCHANGED <<backend, acked, active, checksums, unusable, kept, files, history>>

\* initialize, hydrate and optimize are followed by the next call.
Proceed ==
  /\ AllDone
  /\ kept' = States(pc)
  /\ \/ /\ pc = "initialize" /\ pc' = "hydrate"
        /\ inbox' = [r \in Ranks |-> Append(inbox[r], [do |-> "hydrate", arg |-> kept'[r]])]
        /\ answers' = [r \in Ranks |-> "waiting"]
        /\ UNCHANGED <<rank, writing>>
     \/ pc = "hydrate" /\ Post("optimize")
     \/ pc = "optimize" /\ Post("export")
  /\ UNCHANGED <<backend, batch, acked, active, checksums, unusable, files, history>>

\* A slip: a second registration is not compared with the first.
Accepts_any(v, sum) == TRUE
Accepts(v, sum) == checksums[v] \in {NoFile, sum}

\* The exported version is registered; the registry may refuse it, and the
\* native sync that follows may fail.
Register ==
  /\ pc = "export" /\ AllDone
  /\ IF Accepts(NewVersion, disk[NewVersion])
       THEN /\ checksums' = [checksums EXCEPT ![NewVersion] = IF @ = NoFile THEN disk[NewVersion] ELSE @]
            /\ \/ Post("offload") /\ UNCHANGED faults
               \/ Fault /\ Post("cleanup")
       ELSE Post("cleanup") /\ UNCHANGED <<checksums, faults>>
  /\ UNCHANGED <<backend, batch, acked, active, unusable, kept, files, failed, failures, crashes>>

Ack ==
  /\ pc = "offload" /\ AllDone
  /\ kept' = States(pc)
  /\ acked' = acked \union {batch}
  /\ pc' = "activate"
  /\ UNCHANGED <<backend, batch, active, checksums, unusable, actors, files, history>>

\* The best-effort offload, whatever the other ranks are at.
CleanUp ==
  /\ pc \in {"initialize", "hydrate", "optimize", "export", "offload"} /\ SomeFailed
  /\ Post("cleanup")
  /\ UNCHANGED <<backend, batch, acked, active, checksums, unusable, kept, files, history>>

\* Its outcome is swallowed, the batch is released and the run ends.
Release ==
  /\ pc = "cleanup" /\ (AllDone \/ SomeFailed)
  /\ kept' = IF AllDone THEN States(pc) ELSE kept
  /\ failed' = [failed EXCEPT ![batch] = @ + 1] /\ failures' = failures + 1
  /\ pc' = "dead"
  /\ UNCHANGED <<backend, batch, acked, active, checksums, unusable, actors, files, faults, crashes>>

Activate ==
  /\ pc = "activate" /\ NewVersion \notin unusable
  /\ active' = NewVersion
  /\ pc' = "idle"
  /\ UNCHANGED <<backend, batch, acked, checksums, unusable, kept, actors, files, history>>

\* Taking the GPUs back or a replica fails, or the version failed before.
ActivateFails ==
  /\ pc = "activate"
  /\ \/ NewVersion \in unusable /\ UNCHANGED <<unusable, faults>>
     \/ Fault /\ unusable' \in {unusable, unusable \union {NewVersion}}
  /\ pc' = "dead"
  /\ UNCHANGED <<backend, batch, acked, active, checksums, kept, actors, files, failed, failures, crashes>>

-----------------------------------------------------------------------------
(* The ranks. *)

\* The state a call leaves when it returns, and those it may raise in.
Returned(s, call) ==
  CASE call.do = "initialize" -> [s EXCEPT !.ready = TRUE]
    [] call.do = "hydrate"    -> [s EXCEPT !.ready = TRUE,
                                           !.counter = IF call.arg = Unknown THEN @ ELSE call.arg]
    [] call.do = "optimize"   -> [s EXCEPT !.counter = @ + 1, !.shard = Append(@, call.arg)]
    [] OTHER                  -> s

RaisedIn(s, call) ==
  IF call.do = "hydrate" \/ (call.do = "optimize" /\ backend = "fsdp2")
    THEN {s, Returned(s, call)} ELSE {s}

\* Only the answer to the driver's last call is waited for.
Answer(r, a) ==
  /\ inbox' = [inbox EXCEPT ![r] = Tail(@)]
  /\ answers' = IF Len(inbox[r]) = 1 THEN [answers EXCEPT ![r] = a] ELSE answers

Offloads(call) == call.do \in {"offload", "cleanup"}
Publishes(r, call) == r = 0 /\ call.do = "export"

Run(r) ==
  /\ inbox[r] # <<>> /\ ~(r = 0 /\ writing)
  /\ LET call == Head(inbox[r]) IN
       \/ /\ ~Publishes(r, call)
          /\ Offloads(call) => rank[r].ready
          /\ rank' = [rank EXCEPT ![r] = Returned(@, call)]
          /\ Answer(r, "done")
          /\ UNCHANGED faults
       \/ /\ Fault
          /\ \E s \in RaisedIn(rank[r], call) : rank' = [rank EXCEPT ![r] = s]
          /\ Answer(r, "failed")
       \/ /\ Offloads(call) /\ ~rank[r].ready
          /\ Answer(r, "failed")
          /\ UNCHANGED <<rank, faults>>
  /\ UNCHANGED <<backend, driver, writing, files, failed, failures, crashes>>

VersionDir(call) == call.arg + 1

\* What rank 0 writes: the shards gathered from every rank, or a payload that
\* names its parent's checksum and the counter.
Payload(v) == IF backend = "fsdp2" THEN [r \in Ranks |-> rank[r].shard]
                                   ELSE <<checksums[v - 1], v, rank[0].counter>>

\* A slip: the store remembers the payload before it is written.
Remembered_early(v, c) == IF backend = "mock" THEN [c EXCEPT ![0][v] = Payload(v)] ELSE c
Remembered(v, c) == IF backend = "mock" /\ writing THEN [c EXCEPT ![0][v] = Payload(v)] ELSE c

BeginWrite ==
  /\ inbox[0] # <<>> /\ Publishes(0, Head(inbox[0])) /\ ~writing
  /\ LET v == VersionDir(Head(inbox[0])) IN
       /\ disk' = [disk EXCEPT ![v] = Torn]
       /\ cache' = Remembered(v, cache)
  /\ writing' = TRUE
  /\ UNCHANGED <<backend, driver, rank, inbox, answers, whole, history>>

FinishWrite ==
  /\ writing
  /\ LET v == VersionDir(Head(inbox[0])) IN
       /\ disk' = [disk EXCEPT ![v] = Payload(v)]
       /\ whole' = [whole EXCEPT ![v] = @ \union {Payload(v)}]
       /\ cache' = Remembered(v, cache)
  /\ writing' = FALSE
  /\ Answer(0, "done")
  /\ UNCHANGED <<backend, driver, rank, history>>

WriteFails ==
  /\ writing /\ Fault
  /\ writing' = FALSE
  /\ Answer(0, "failed")
  /\ UNCHANGED <<backend, driver, rank, files, failed, failures, crashes>>

Driver == \/ \E b \in Batches : BeginWindow(b)
          \/ Proceed \/ Register \/ Ack \/ CleanUp \/ Release
          \/ Activate \/ ActivateFails \/ RunAgain

Next == \/ Open \/ Crash \/ Driver
        \/ \E r \in Ranks : Run(r)
        \/ BeginWrite \/ FinishWrite \/ WriteFails
        \/ \E r \in Ranks, v \in Versions : Load(r, v)

Spec == Init /\ [][Next]_vars

-----------------------------------------------------------------------------
\* The step counter of a rank, which the artifacts are labelled with, goes
\* through the driver and back at every hydrate.  It never runs ahead of the
\* updates the rank really made, and lags by one at most for each window that
\* failed (training.py:384-397).
CounterFollowsUpdates ==
  \A r \in Ranks : LET n == Len(rank[r].shard) IN
    rank[r].counter <= n /\ n <= rank[r].counter + failures

\* An acked batch was trained by every rank, and by none more often than once
\* and once again for each failed window that had given it back
\* (training.py:262-274: a released batch may have been stepped on already).
AckedIsTrained ==
  \A b \in acked, r \in Ranks :
    Cardinality({i \in DOMAIN rank[r].shard : rank[r].shard[i] = b}) \in 1..1 + failed[b]

\* The artifact of the active version, and of the one the replicas are being
\* told to load, is whole and has the checksum it was registered with, whatever
\* was exported again, left half written or written late
\* (fsdp2_backend.py:167-232, weight_store.py:179-191).
ActiveArtifactIntact ==
  /\ pc \notin Down /\ active > 0 => disk[active] = checksums[active]
  /\ pc = "activate" => disk[NewVersion] = checksums[NewVersion]

\* A store never hands out a payload that was not on disk in full, in this
\* process or before it: not the one of a failed write, not a torn manifest
\* (weight_store.py:179-232).
StoreServesWholeWrites ==
  \A r \in Ranks, v \in Versions : cache[r][v] # NoFile => cache[r][v] \in whole[v]
=============================================================================
