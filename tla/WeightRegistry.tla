--------------------------- MODULE WeightRegistry ---------------------------
(***************************************************************************)
(* WeightRegistryActorCore (src/nano_rl/runtime/weight_registry.py): the   *)
(* published weight versions and the activation under way.  A version      *)
(* becomes ACTIVE_GLOBAL when every rollout replica its activation asked   *)
(* for has acked.  There is one activation at a time; beginning another    *)
(* one, of any version that has not failed, silently replaces it.          *)
(*                                                                         *)
(* The actor is single-threaded and its calls come in any order.  A call   *)
(* that raises changes nothing and has no action here.                     *)
(***************************************************************************)
EXTENDS Naturals

CONSTANTS
  Versions,     \* weight version ids
  Workers,      \* ids of rollout replicas
  Checksums,
  NoVersion,    \* latest_registered, latest_active_global: None
  NoActivation

ASSUME RegistryAssumption ==
  /\ Versions \subseteq Nat
  /\ NoVersion \notin Versions

VARIABLES
  status,            \* _versions[v].status, "absent" if v is not registered
  checksum,          \* _versions[v].checksum, "absent" likewise
  activation,        \* _activation
  latestRegistered,  \* _latest_registered
  latestActive,      \* _latest_active_global
  asked, heard       \* history: the workers the last activation of v asked
                     \* for, and those that have acked v since it began

registryVars == <<status, checksum, activation, latestRegistered, latestActive,
          asked, heard>>

Status == {"REGISTERED", "ACTIVATING", "ACTIVE_GLOBAL", "FAILED"}

Activation ==
  [version : Versions, required : SUBSET Workers, acked : SUBSET Workers]

Registered(v) == status[v] # "absent"
Activating(v) == activation # NoActivation /\ activation.version = v

(***************************************************************************)
(* The activation under way is of an ACTIVATING version that still misses  *)
(* an ack, and both latest pointers name registered versions.              *)
(***************************************************************************)
RegistryTypeOK ==
  /\ status \in [Versions -> Status \cup {"absent"}]
  /\ checksum \in [Versions -> Checksums \cup {"absent"}]
  /\ activation \in Activation \cup {NoActivation}
  /\ latestRegistered \in Versions \cup {NoVersion}
  /\ latestActive \in Versions \cup {NoVersion}
  /\ asked \in [Versions -> SUBSET Workers]
  /\ heard \in [Versions -> SUBSET Workers]
  /\ activation # NoActivation =>
       /\ status[activation.version] = "ACTIVATING"
       /\ activation.acked \subseteq activation.required
       /\ activation.acked # activation.required
  /\ latestRegistered # NoVersion => Registered(latestRegistered)
  /\ latestActive # NoVersion => Registered(latestActive)

-----------------------------------------------------------------------------
RegistryInit ==
  /\ status = [v \in Versions |-> "absent"]
  /\ checksum = [v \in Versions |-> "absent"]
  /\ activation = NoActivation
  /\ latestRegistered = NoVersion
  /\ latestActive = NoVersion
  /\ asked = [v \in Versions |-> {}]
  /\ heard = [v \in Versions |-> {}]

\* register: a known version with its checksum is left as it is, whatever
\* became of it; with another checksum it is refused.
Newer(v) == latestRegistered # NoVersion => v > latestRegistered

Register(v, c) ==
  \/ /\ ~Registered(v)
     /\ status' = [status EXCEPT ![v] = "REGISTERED"]
     /\ checksum' = [checksum EXCEPT ![v] = c]
     /\ \/ Newer(v) /\ latestRegistered' = v
        \/ ~Newer(v) /\ UNCHANGED latestRegistered
     /\ UNCHANGED <<activation, latestActive, asked, heard>>
  \/ /\ Registered(v) /\ checksum[v] = c
     /\ UNCHANGED registryVars

\* begin_activation: also of an ACTIVE_GLOBAL version, or of an older one.
BeginActivation_keepsAcks(v, required) ==
  /\ required # {}
  /\ Registered(v) /\ status[v] # "FAILED"
  /\ status' = [status EXCEPT ![v] = "ACTIVATING"]
  /\ activation' =
       [version |-> v, required |-> required,
        acked |-> IF activation = NoActivation THEN {} ELSE activation.acked]
  /\ asked' = [asked EXCEPT ![v] = required]
  /\ heard' = [heard EXCEPT ![v] = {}]
  /\ UNCHANGED <<checksum, latestRegistered, latestActive>>

BeginActivation(v, required) ==
  /\ required # {}
  /\ Registered(v) /\ status[v] # "FAILED"
  /\ status' = [status EXCEPT ![v] = "ACTIVATING"]
  /\ activation' = [version |-> v, required |-> required, acked |-> {}]
  /\ asked' = [asked EXCEPT ![v] = required]
  /\ heard' = [heard EXCEPT ![v] = {}]
  /\ UNCHANGED <<checksum, latestRegistered, latestActive>>

\* ack_activation: the ack that completes the set commits the version.
Acked(w) == activation.acked \cup {w}

Ack(v, w) ==
  /\ Activating(v)
  /\ w \in activation.required
  /\ heard' = [heard EXCEPT ![v] = @ \cup {w}]
  /\ \/ /\ Acked(w) = activation.required
        /\ status' = [status EXCEPT ![v] = "ACTIVE_GLOBAL"]
        /\ latestActive' = v
        /\ activation' = NoActivation
     \/ /\ Acked(w) # activation.required
        /\ activation' = [activation EXCEPT !.acked = Acked(w)]
        /\ UNCHANGED <<status, latestActive>>
  /\ UNCHANGED <<checksum, latestRegistered, asked>>

\* mark_failed: of any registered version; latest_active_global stays.
MarkFailed_keepsActivation(v) ==
  /\ Registered(v)
  /\ status' = [status EXCEPT ![v] = "FAILED"]
  /\ UNCHANGED <<activation, checksum, latestRegistered, latestActive, asked, heard>>

MarkFailed(v) ==
  /\ Registered(v)
  /\ status' = [status EXCEPT ![v] = "FAILED"]
  /\ \/ Activating(v) /\ activation' = NoActivation
     \/ ~Activating(v) /\ UNCHANGED activation
  /\ UNCHANGED <<checksum, latestRegistered, latestActive, asked, heard>>

RegistryNext ==
  \E v \in Versions :
    \/ \E c \in Checksums : Register(v, c)
    \/ \E required \in SUBSET Workers : BeginActivation(v, required)
    \/ \E w \in Workers : Ack(v, w)
    \/ MarkFailed(v)

RegistrySpec == RegistryInit /\ [][RegistryNext]_registryVars

-----------------------------------------------------------------------------
(***************************************************************************)
(* A version is ACTIVE_GLOBAL only if every worker its last activation     *)
(* asked for has acked it since that activation began, however many other  *)
(* activations were begun, replaced or abandoned in between.               *)
(***************************************************************************)
CommittedByAll ==
  \A v \in Versions :
    status[v] = "ACTIVE_GLOBAL" => asked[v] # {} /\ asked[v] \subseteq heard[v]

(***************************************************************************)
(* A failed version stays failed: no ack that was under way, no further    *)
(* register or activation brings it back.                                  *)
(***************************************************************************)
FailedForGood ==
  [][\A v \in Versions : status[v] = "FAILED" => status'[v] = "FAILED"]_registryVars
=============================================================================
