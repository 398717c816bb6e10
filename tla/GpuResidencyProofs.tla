------------------------- MODULE GpuResidencyProofs -------------------------
(***************************************************************************)
(* The lease manager on any GPUs, for any holders, grants and failures,    *)
(* and the residency manager over it, whatever the hooks report and        *)
(* whenever a lease fails.  The invariant says of every shared GPU what is *)
(* on it: inside a call, by the hook the call is in; outside, by the       *)
(* residency state, which is halfway only on a GPU whose lease failed.     *)
(***************************************************************************)
EXTENDS GpuResidency, TLAPS

LEMMA LeaseFacts ==
  /\ LeaseAssumption
  /\ Roles = {"rollout", "trainer"}
  /\ \A g \in Shared : g \in Gpus /\ \A role \in Roles : role \in Supported[g]
<1>1. Roles = {"rollout", "trainer"}
  BY DEF Roles
<1> QED BY <1>1, LeaseAssumption DEF LeaseAssumption, Shared

-----------------------------------------------------------------------------
(***************************************************************************)
(* The leases, for any number of GPUs and holders.  A token that has been  *)
(* handed out is behind its GPU's epoch, or is the GPU's present lease.    *)
(***************************************************************************)
IssuedBehind ==
  \A t \in issued :
    \/ t.epoch < lease[t.gpu].epoch
    \/ t = TokenOf(t.gpu, lease[t.gpu]) /\ ~lease[t.gpu].failed

LeaseIInv == LeaseTypeOK /\ IssuedBehind

(* The leases of a fresh manager are well formed and no token is out.      *)
LEMMA InitLease == LeaseInit => LeaseIInv
<1> SUFFICES ASSUME LeaseInit PROVE LeaseIInv
  OBVIOUS
<1>1. lease \in [Gpus -> LeaseState]
  BY LeaseFacts DEF LeaseAssumption, LeaseInit, LeaseState, Roles
<1>2. ASSUME NEW g \in Gpus
      PROVE  /\ lease[g].role # NoRole <=> lease[g].holder # NoHolder
             /\ lease[g].role # NoRole => lease[g].role \in Supported[g]
             /\ lease[g].failed => lease[g].role = NoRole
  BY LeaseFacts DEF LeaseAssumption, LeaseInit, Roles
<1> QED BY <1>1, <1>2 DEF LeaseIInv, LeaseTypeOK, IssuedBehind, LeaseInit

(* current_lease hands out the present lease, nothing else.                *)
LEMMA CurrentLeaseKeeps ==
  ASSUME LeaseIInv, NEW g \in Gpus, CurrentLease(g)
  PROVE  LeaseIInv'
<1>1. lease[g] \in LeaseState
  BY DEF LeaseIInv, LeaseTypeOK
<1>2. TokenOf(g, lease[g]) \in Token
  BY <1>1 DEF LeaseIInv, LeaseTypeOK, CurrentLease, TokenOf, LeaseState, Token
<1>3. LeaseTypeOK'
  BY <1>2 DEF LeaseIInv, LeaseTypeOK, CurrentLease
<1>4. ~lease[g].failed
  BY DEF LeaseIInv, LeaseTypeOK, CurrentLease
<1>5. TokenOf(g, lease[g]).gpu = g
  BY DEF TokenOf
<1>6. IssuedBehind'
  BY <1>4, <1>5 DEF LeaseIInv, IssuedBehind, CurrentLease, TokenOf
<1> QED BY <1>3, <1>6 DEF LeaseIInv

(* A grant either hands out the present lease again or leaves every token  *)
(* handed out so far behind.                                               *)
LEMMA GrantKeeps ==
  ASSUME LeaseIInv, NEW g \in Gpus, NEW role \in Roles, NEW holder \in Holders,
         Grant(g, role, holder)
  PROVE  LeaseIInv'
<1>1. role \in Supported[g] /\ ~lease[g].failed /\ lease[g] \in LeaseState
  BY DEF LeaseIInv, LeaseTypeOK, Grant, Grantable
<1>2. role # NoRole /\ holder # NoHolder
  BY LeaseFacts DEF LeaseAssumption
<1>3. CASE UNCHANGED lease /\ Holds(g, role, holder)
  <2>1. TokenOf(g, lease'[g]) \in Token
    BY <1>1, <1>3 DEF TokenOf, LeaseState, Token, Holds
  <2>2. LeaseTypeOK'
    BY <2>1, <1>3 DEF LeaseIInv, LeaseTypeOK, Grant
  <2>3. TokenOf(g, lease'[g]).gpu = g
    BY DEF TokenOf
  <2>4. IssuedBehind'
    BY <2>3, <1>1, <1>3 DEF LeaseIInv, IssuedBehind, Grant, TokenOf
  <2> QED BY <2>2, <2>4 DEF LeaseIInv
<1>4. CASE lease' = [lease EXCEPT ![g] =
                       [role |-> role, holder |-> holder,
                        epoch |-> NextEpoch(g, role), failed |-> FALSE]]
  <2>1. lease[g].epoch \in Nat
    BY <1>1 DEF LeaseState
  <2>2. lease'[g] = [role |-> role, holder |-> holder,
                     epoch |-> lease[g].epoch + 1, failed |-> FALSE]
    BY <1>4 DEF LeaseIInv, LeaseTypeOK, NextEpoch
  <2>3. lease'[g] \in LeaseState
    BY <2>1, <2>2 DEF LeaseState
  <2>4. lease' \in [Gpus -> LeaseState]
    BY <1>4, <2>2, <2>3 DEF LeaseIInv, LeaseTypeOK
  <2>5. TokenOf(g, lease'[g]) \in Token
    BY <2>1, <2>2 DEF TokenOf, Token
  <2>6. \A h \in Gpus : h # g => lease'[h] = lease[h]
    BY <1>4 DEF LeaseIInv, LeaseTypeOK
  <2>7. LeaseTypeOK'
    <3>1. issued' \subseteq Token
      BY <2>5 DEF LeaseIInv, LeaseTypeOK, Grant
    <3>2. ASSUME NEW h \in Gpus
          PROVE  /\ lease'[h].role # NoRole <=> lease'[h].holder # NoHolder
                 /\ lease'[h].role # NoRole => lease'[h].role \in Supported[h]
                 /\ lease'[h].failed => lease'[h].role = NoRole
      <4>1. CASE h = g
        BY <4>1, <2>2, <1>1, <1>2
      <4>2. CASE h # g
        BY <4>2, <2>6 DEF LeaseIInv, LeaseTypeOK
      <4> QED BY <4>1, <4>2
    <3> QED BY <2>4, <3>1, <3>2 DEF LeaseTypeOK
  <2>8. ASSUME NEW t \in issued'
        PROVE  \/ t.epoch < lease'[t.gpu].epoch
               \/ t = TokenOf(t.gpu, lease'[t.gpu]) /\ ~lease'[t.gpu].failed
    <3>1. CASE t = TokenOf(g, lease'[g])
      <4>1. t.gpu = g
        BY <3>1 DEF TokenOf
      <4> QED BY <3>1, <4>1, <2>2
    <3>2. CASE t \in issued
      <4>1. t.gpu \in Gpus /\ t.epoch \in Nat
        BY <3>2 DEF LeaseIInv, LeaseTypeOK, Token
      <4>2. CASE t.gpu = g
        <5>1. t.epoch <= lease[g].epoch
          BY <3>2, <4>1, <4>2, <2>1 DEF LeaseIInv, IssuedBehind, TokenOf
        <5> QED BY <5>1, <4>1, <4>2, <2>1, <2>2
      <4>3. CASE t.gpu # g
        BY <3>2, <4>1, <4>3, <2>6 DEF LeaseIInv, IssuedBehind, TokenOf
      <4> QED BY <4>2, <4>3
    <3> QED BY <3>1, <3>2 DEF Grant
  <2> QED BY <2>7, <2>8 DEF LeaseIInv, IssuedBehind
<1> QED BY <1>3, <1>4 DEF Grant

(* A failure leaves every token of the GPU behind and issues none.         *)
LEMMA MarkFailedKeeps ==
  ASSUME LeaseIInv, NEW g \in Gpus, MarkFailed(g)
  PROVE  LeaseIInv'
<1>1. lease[g] \in LeaseState /\ lease[g].epoch \in Nat
  BY DEF LeaseIInv, LeaseTypeOK, LeaseState
<1>2. lease'[g] = [role |-> NoRole, holder |-> NoHolder,
                   epoch |-> lease[g].epoch + 1, failed |-> TRUE]
  BY DEF LeaseIInv, LeaseTypeOK, MarkFailed
<1>3. lease'[g] \in LeaseState
  BY <1>1, <1>2 DEF LeaseState
<1>4. \A h \in Gpus : h # g => lease'[h] = lease[h]
  BY DEF LeaseIInv, LeaseTypeOK, MarkFailed
<1>5. lease' \in [Gpus -> LeaseState]
  BY <1>2, <1>3 DEF LeaseIInv, LeaseTypeOK, MarkFailed
<1>6. LeaseTypeOK'
  <2>1. ASSUME NEW h \in Gpus
        PROVE  /\ lease'[h].role # NoRole <=> lease'[h].holder # NoHolder
               /\ lease'[h].role # NoRole => lease'[h].role \in Supported[h]
               /\ lease'[h].failed => lease'[h].role = NoRole
    <3>1. CASE h = g
      BY <3>1, <1>2
    <3>2. CASE h # g
      BY <3>2, <1>4 DEF LeaseIInv, LeaseTypeOK
    <3> QED BY <3>1, <3>2
  <2> QED BY <1>5, <2>1 DEF LeaseIInv, LeaseTypeOK, MarkFailed
<1>7. ASSUME NEW t \in issued'
      PROVE  \/ t.epoch < lease'[t.gpu].epoch
             \/ t = TokenOf(t.gpu, lease'[t.gpu]) /\ ~lease'[t.gpu].failed
  <2>1. t \in issued /\ t.gpu \in Gpus /\ t.epoch \in Nat
    BY DEF MarkFailed, LeaseIInv, LeaseTypeOK, Token
  <2>2. CASE t.gpu = g
    <3>1. t.epoch <= lease[g].epoch
      BY <2>1, <2>2, <1>1 DEF LeaseIInv, IssuedBehind, TokenOf
    <3> QED BY <3>1, <2>1, <2>2, <1>1, <1>2
  <2>3. CASE t.gpu # g
    BY <2>1, <2>3, <1>4 DEF LeaseIInv, IssuedBehind, TokenOf
  <2> QED BY <2>2, <2>3
<1> QED BY <1>6, <1>7 DEF LeaseIInv, IssuedBehind

LEMMA LeaseStep == LeaseIInv /\ [LeaseNext]_leaseVars => LeaseIInv' /\ LeaseTypeOK'
<1> SUFFICES ASSUME LeaseIInv, [LeaseNext]_leaseVars PROVE LeaseIInv'
  BY DEF LeaseIInv
<1>1. CASE UNCHANGED leaseVars
  BY <1>1 DEF leaseVars, LeaseIInv, LeaseTypeOK, IssuedBehind, TokenOf
<1>2. CASE LeaseNext
  <2>1. PICK g \in Gpus :
          \/ CurrentLease(g)
          \/ \E role \in Roles, holder \in Holders : Grant(g, role, holder)
          \/ MarkFailed(g)
    BY <1>2 DEF LeaseNext
  <2> QED BY <2>1, CurrentLeaseKeeps, GrantKeeps, MarkFailedKeeps
<1> QED BY <1>1, <1>2

(***************************************************************************)
(* Every token out is the present lease of its GPU or is behind it.        *)
(***************************************************************************)
THEOREM LeaseInvariance == LeaseSpec => []LeaseIInv
<1> QED BY InitLease, LeaseStep, PTL DEF LeaseSpec

(***************************************************************************)
(* GpuLeaseManagerCore only ever holds well-formed leases: a holder        *)
(* exactly with a role, a role the GPU supports, none on a failed GPU.     *)
(***************************************************************************)
THEOREM LeasesWellFormed == LeaseSpec => []LeaseTypeOK
<1>1. LeaseIInv => LeaseTypeOK
  BY DEF LeaseIInv
<1> QED BY <1>1, LeaseInvariance, PTL

(* The only token a step can add is the lease of that moment.               *)
LEMMA AddedToken ==
  ASSUME [LeaseNext]_leaseVars
  PROVE  \A t \in issued' : t \in issued \/ t = TokenOf(t.gpu, lease'[t.gpu])
<1>1. CASE UNCHANGED leaseVars
  BY <1>1 DEF leaseVars
<1>2. ASSUME NEW g \in Gpus, CurrentLease(g)
      PROVE  \A t \in issued' : t \in issued \/ t = TokenOf(t.gpu, lease'[t.gpu])
  <2>1. TokenOf(g, lease[g]).gpu = g
    BY DEF TokenOf
  <2> QED BY <1>2, <2>1 DEF CurrentLease
<1>3. ASSUME NEW g \in Gpus, NEW role \in Roles, NEW holder \in Holders,
             Grant(g, role, holder)
      PROVE  \A t \in issued' : t \in issued \/ t = TokenOf(t.gpu, lease'[t.gpu])
  <2>1. TokenOf(g, lease'[g]).gpu = g
    BY DEF TokenOf
  <2> QED BY <1>3, <2>1 DEF Grant
<1>4. ASSUME NEW g \in Gpus, MarkFailed(g)
      PROVE  \A t \in issued' : t \in issued \/ t = TokenOf(t.gpu, lease'[t.gpu])
  BY <1>4 DEF MarkFailed
<1> QED BY <1>1, <1>2, <1>3, <1>4 DEF LeaseNext

(***************************************************************************)
(* The epoch alone identifies a lease of a GPU among all ever handed out:  *)
(* the one token a step can add is the lease of that moment, which every   *)
(* token with its epoch already is.                                        *)
(***************************************************************************)
THEOREM EpochIdentifiesLease == LeaseSpec => []EpochNamesHolder
<1>1. LeaseInit => EpochNamesHolder
  BY DEF LeaseInit, EpochNamesHolder
<1>2. ASSUME LeaseIInv, LeaseIInv', EpochNamesHolder, [LeaseNext]_leaseVars
      PROVE  EpochNamesHolder'
  <2> SUFFICES ASSUME NEW t \in issued', NEW u \in issued',
                      t.gpu = u.gpu, t.epoch = u.epoch
               PROVE  t = u
    BY DEF EpochNamesHolder
  <2>1. CASE t \in issued /\ u \in issued
    BY <2>1, <1>2 DEF EpochNamesHolder
  <2>2. CASE t \notin issued \/ u \notin issued
    <3>1. PICK v \in {t, u} : v = TokenOf(v.gpu, lease'[v.gpu])
      BY <2>2, <1>2, AddedToken
    <3>2. t.epoch = lease'[t.gpu].epoch
      BY <3>1 DEF TokenOf
    <3>3. t.gpu \in Gpus /\ lease'[t.gpu].epoch \in Nat
      BY <1>2 DEF LeaseIInv, LeaseTypeOK, Token, LeaseState
    <3>4. ~(t.epoch < lease'[t.gpu].epoch)
      BY <3>2, <3>3
    <3>5. t = TokenOf(t.gpu, lease'[t.gpu])
      BY <3>4, <1>2 DEF LeaseIInv, IssuedBehind
    <3>6. u = TokenOf(u.gpu, lease'[u.gpu])
      BY <3>4, <1>2 DEF LeaseIInv, IssuedBehind
    <3> QED BY <3>5, <3>6
  <2> QED BY <2>1, <2>2
<1> QED BY <1>1, <1>2, LeaseInvariance, PTL DEF LeaseSpec

(* Epochs never go back, and a step that changes a lease raises its epoch. *)
LEMMA EpochsRise ==
  ASSUME LeaseIInv, [LeaseNext]_leaseVars
  PROVE  \A g \in Gpus :
           lease'[g] = lease[g] \/ lease'[g].epoch > lease[g].epoch
<1> SUFFICES ASSUME NEW h \in Gpus
             PROVE  lease'[h] = lease[h] \/ lease'[h].epoch > lease[h].epoch
  OBVIOUS
<1>0. lease \in [Gpus -> LeaseState] /\ lease[h].epoch \in Nat
  BY DEF LeaseIInv, LeaseTypeOK, LeaseState
<1>1. CASE UNCHANGED leaseVars
  BY <1>1 DEF leaseVars
<1>2. ASSUME NEW g \in Gpus, CurrentLease(g)
      PROVE  lease'[h] = lease[h]
  BY <1>2 DEF CurrentLease
<1>3. ASSUME NEW g \in Gpus, NEW role \in Roles, NEW holder \in Holders,
             Grant(g, role, holder)
      PROVE  lease'[h] = lease[h] \/ lease'[h].epoch > lease[h].epoch
  BY <1>0, <1>3 DEF Grant, NextEpoch
<1>4. ASSUME NEW g \in Gpus, MarkFailed(g)
      PROVE  lease'[h] = lease[h] \/ lease'[h].epoch > lease[h].epoch
  BY <1>0, <1>4 DEF MarkFailed
<1> QED BY <1>1, <1>2, <1>3, <1>4 DEF LeaseNext

(***************************************************************************)
(* A superseded lease is never accepted again by assert_active: the token  *)
(* is behind its GPU's epoch, or it is the lease of a failed GPU, and both *)
(* stay so.                                                                *)
(***************************************************************************)
THEOREM Fencing == LeaseSpec => StaleForever
<1>1. ASSUME LeaseIInv, [LeaseNext]_leaseVars, NEW t \in issued, ~AssertActive(t)
      PROVE  ~AssertActive(t)'
  <2>1. t \in Token /\ lease[t.gpu] \in LeaseState
    BY <1>1 DEF LeaseIInv, LeaseTypeOK, Token
  <2>2. t.gpu \in Gpus /\ t.epoch \in Nat /\ lease[t.gpu].epoch \in Nat
    BY <2>1 DEF Token, LeaseState
  <2>3. t.epoch < lease[t.gpu].epoch
    <3>1. CASE t = TokenOf(t.gpu, lease[t.gpu]) /\ ~lease[t.gpu].failed
      <4>1. t.role = lease[t.gpu].role /\ t.holder = lease[t.gpu].holder
            /\ t.epoch = lease[t.gpu].epoch
        BY <3>1 DEF TokenOf
      <4>2. t.role # NoRole
        BY <2>1, LeaseFacts DEF LeaseAssumption, Token
      <4>3. t.role \in Supported[t.gpu]
        BY <4>1, <4>2, <2>2, <1>1 DEF LeaseIInv, LeaseTypeOK
      <4> QED BY <3>1, <4>1, <4>3, <1>1 DEF AssertActive, Holds
    <3> QED BY <3>1, <1>1 DEF LeaseIInv, IssuedBehind
  <2>4. lease'[t.gpu].epoch >= lease[t.gpu].epoch
    <3>1. lease'[t.gpu] = lease[t.gpu]
          \/ lease'[t.gpu].epoch > lease[t.gpu].epoch
      BY <2>2, <1>1, EpochsRise
    <3>2. LeaseIInv'
      BY <1>1, LeaseStep
    <3>3. lease'[t.gpu].epoch \in Nat
      BY <2>2, <3>2 DEF LeaseIInv, LeaseTypeOK, LeaseState
    <3> QED BY <3>1, <3>3, <2>2
  <2>5. lease'[t.gpu].epoch \in Nat /\ lease'[t.gpu].epoch # t.epoch
    <3>1. LeaseIInv'
      BY <1>1, LeaseStep
    <3>2. lease'[t.gpu].epoch \in Nat
      BY <2>2, <3>1 DEF LeaseIInv, LeaseTypeOK, LeaseState
    <3> QED BY <3>2, <2>2, <2>3, <2>4
  <2> QED BY <2>5 DEF AssertActive
<1>2. LeaseIInv /\ [LeaseNext]_leaseVars
      => [\A t \in issued : ~AssertActive(t) => ~AssertActive(t)']_leaseVars
  BY <1>1
<1> QED BY <1>2, LeaseInvariance, PTL DEF LeaseSpec, StaleForever

-----------------------------------------------------------------------------
(***************************************************************************)
(* What is on a shared GPU.                                                *)
(***************************************************************************)
Place(g) ==
  IF Calling(g)
  THEN /\ resident[g] = IF call.hook = "offload" THEN {call.token.role} ELSE {}
       /\ lease[g].failed \/ lease[g].role = call.token.role
  ELSE /\ resident[g] # Roles
       /\ \/ residency[g] = "DEGRADED"
          \/ \E role \in Roles :
               /\ residency[g] = Active(role)
               /\ resident[g] = {role}
               /\ lease[g].failed \/ lease[g].role = role
          \/ lease[g].failed /\ \A role \in Roles : residency[g] # Active(role)

IInv == LeaseIInv /\ TypeOK /\ \A g \in Shared : Place(g)

(* Every GPU starts as the rollout worker's.                               *)
LEMMA InitIInv == Init => IInv
<1> SUFFICES ASSUME Init PROVE IInv
  OBVIOUS
<1>1. LeaseIInv
  BY InitLease DEF Init
<1>2. LeaseIInv => LeaseTypeOK
  BY DEF LeaseIInv
<1>3. TypeOK
  BY <1>1, <1>2, LeaseFacts DEF Init, TypeOK, ResidencyState
<1>4. ASSUME NEW g \in Shared PROVE Place(g)
  <2>1. ~Calling(g)
    BY DEF Init, Calling
  <2>2. lease[g].role = "rollout" /\ residency[g] = "ROLLOUT_ACTIVE"
        /\ resident[g] = {"rollout"}
    BY LeaseFacts DEF Init, LeaseInit
  <2> QED BY <2>1, <2>2, LeaseFacts DEF Place, Active
<1> QED BY <1>1, <1>3, <1>4 DEF IInv

(* A call begins on a GPU that is fully the leaving role's.                *)
LEMMA StartIInv ==
  ASSUME IInv, NEW role \in Roles, NEW token \in Token,
         NEW next \in Holders, Start(role, token, next)
  PROVE  IInv'
<1> DEFINE h == token.gpu
<1>1. TypeOK /\ h \in Shared /\ call = NoCall /\ Place(h)
  BY DEF IInv, Start
<1>2. token.role = role
  BY DEF Start
<1>3. Leaving(role) \in ResidencyState
  BY DEF Leaving, ResidencyState
<1>4. call' = [hook |-> "offload", token |-> token, next |-> next]
      /\ residency' = [residency EXCEPT ![h] = Leaving(role)]
      /\ UNCHANGED <<lease, issued, resident>>
  BY DEF Start
<1>5. LeaseIInv' /\ LeaseTypeOK'
  BY <1>4, LeaseStep DEF IInv, leaseVars
<1>6. call' \in Call /\ call' # NoCall
  BY <1>2, <1>4, ResidencyAssumption DEF Call
<1>7. residency' \in [Shared -> ResidencyState] /\ residency'[h] = Leaving(role)
      /\ \A g \in Shared : g # h => residency'[g] = residency[g]
  BY <1>1, <1>3, <1>4 DEF TypeOK
<1>8. TypeOK'
  BY <1>1, <1>2, <1>4, <1>5, <1>6, <1>7 DEF TypeOK
<1>9. Place(h)'
  <2>1. lease[h].role = role /\ residency[h] = Active(role)
    BY <1>2 DEF Start, AssertActive, Holds
  <2>2. resident[h] = {role}
    <3>1. \A r \in Roles : Active(r) = Active(role) => r = role
      BY LeaseFacts DEF Active
    <3>2. residency[h] # "DEGRADED"
      BY <2>1 DEF Active
    <3> QED BY <1>1, <2>1, <3>1, <3>2 DEF Place, Calling
  <2> QED BY <1>2, <1>4, <1>6, <2>1, <2>2 DEF Place, Calling
<1>10. ASSUME NEW g \in Shared, g # h PROVE Place(g)'
  <2>1. ~Calling(g) /\ ~Calling(g)'
    BY <1>1, <1>4, <1>10 DEF Calling
  <2> QED BY <2>1, <1>4, <1>7, <1>10 DEF Place, IInv
<1> QED BY <1>5, <1>8, <1>9, <1>10 DEF IInv

(***************************************************************************)
(* What a step of the running call leaves as it was: the other GPUs.       *)
(***************************************************************************)
LEMMA OtherPlaces ==
  ASSUME IInv, call # NoCall,
         call' = NoCall \/ (call' \in Call /\ call'.token.gpu = call.token.gpu),
         NEW R, resident' = [resident EXCEPT ![call.token.gpu] = R],
         NEW S, residency' = [residency EXCEPT ![call.token.gpu] = S],
         \A g \in Gpus : g # call.token.gpu => lease'[g] = lease[g]
  PROVE  \A g \in Shared : g # call.token.gpu => Place(g)'
<1> SUFFICES ASSUME NEW g \in Shared, g # call.token.gpu
             PROVE  Place(g)'
  OBVIOUS
<1>1. ~Calling(g) /\ ~Calling(g)'
  BY DEF Calling
<1>2. residency'[g] = residency[g] /\ resident'[g] = resident[g]
      /\ lease'[g] = lease[g]
  BY LeaseFacts DEF IInv, TypeOK
<1> QED BY <1>1, <1>2 DEF Place, IInv

(* What the running call knows of its GPU.                                 *)
LEMMA CallFacts ==
  ASSUME IInv, call # NoCall
  PROVE  /\ call \in Call /\ call.token \in Token
         /\ call.token.gpu \in Shared /\ call.token.gpu \in Gpus
         /\ call.token.role \in Roles
         /\ call.token.role \in {"rollout", "trainer"}
         /\ call.next \in Holders
         /\ Calling(call.token.gpu) /\ Place(call.token.gpu)
<1>1. call \in Call /\ call.token.gpu \in Shared
  BY DEF IInv, TypeOK
<1>2. call.token \in Token /\ call.next \in Holders
  BY <1>1 DEF Call
<1> QED BY <1>1, <1>2, LeaseFacts DEF Calling, IInv, Token

(* A rejected report degrades the GPU and leaves its lease where it was.   *)
LEMMA OffloadRejectedIInv ==
  ASSUME IInv, NEW outcome \in Outcomes, call # NoCall, call.hook = "offload",
         NEW R \in AfterOffload(call.token.role, resident[call.token.gpu], outcome),
         resident' = [resident EXCEPT ![call.token.gpu] = R],
         OffloadRejected(outcome)
  PROVE  IInv'
<1>0. PICK h \in Shared : h = call.token.gpu
  BY CallFacts
<1> USE <1>0
<1>1. h \in Shared /\ resident[h] = {call.token.role}
      /\ call.token.role \in Roles
  BY CallFacts DEF Place
<1>2. R \subseteq {call.token.role}
  BY <1>1 DEF AfterOffload, Outcomes
<1>3. call' = NoCall /\ UNCHANGED <<lease, issued>>
      /\ residency' = [residency EXCEPT ![h] = "DEGRADED"]
  BY DEF OffloadRejected
<1>4. LeaseIInv' /\ LeaseTypeOK'
  BY <1>3, LeaseStep DEF IInv, leaseVars
<1>5. TypeOK'
  BY <1>1, <1>2, <1>3, <1>4 DEF IInv, TypeOK, ResidencyState
<1>6. Place(h)'
  <2>1. residency'[h] = "DEGRADED" /\ resident'[h] = R
    BY <1>1, <1>3 DEF IInv, TypeOK
  <2>2. R # Roles
    BY <1>2, LeaseFacts
  <2> QED BY <2>1, <2>2, <1>3 DEF Place, Calling
<1>7. \A g \in Shared : g # h => Place(g)'
  BY <1>3, OtherPlaces
<1> QED BY <1>4, <1>5, <1>6, <1>7 DEF IInv

(* A grant to another role leaves a lease of that role.                    *)
LEMMA GrantGives ==
  ASSUME LeaseTypeOK, NEW g \in Gpus, NEW role \in Roles,
         NEW holder \in Holders, Grant(g, role, holder)
  PROVE  /\ lease'[g].role = role
         /\ ~lease'[g].failed
         /\ TokenOf(g, lease'[g]) \in Token
         /\ TokenOf(g, lease'[g]).role = role
         /\ TokenOf(g, lease'[g]).gpu = g
         /\ \A h \in Gpus : h # g => lease'[h] = lease[h]
         /\ LeaseNext
<1>1. lease \in [Gpus -> LeaseState] /\ lease[g].epoch \in Nat
  BY DEF LeaseTypeOK, LeaseState
<1>2. /\ lease'[g].role = role /\ lease'[g].holder = holder
      /\ lease'[g].epoch \in Nat /\ ~lease'[g].failed
      /\ \A h \in Gpus : h # g => lease'[h] = lease[h]
  BY <1>1 DEF Grant, Holds, Grantable, NextEpoch
<1>3. LeaseNext
  BY DEF LeaseNext
<1> QED BY <1>2, <1>3 DEF TokenOf, Token

(* The lease goes to the other role only from an empty GPU.                *)
LEMMA TakeOverIInv ==
  ASSUME IInv, NEW outcome \in Outcomes, call # NoCall, call.hook = "offload",
         NEW R \in AfterOffload(call.token.role, resident[call.token.gpu], outcome),
         resident' = [resident EXCEPT ![call.token.gpu] = R],
         TakeOver(outcome)
  PROVE  IInv'
<1>0. PICK h \in Shared : h = call.token.gpu
  BY CallFacts
<1> USE <1>0
<1> DEFINE to == Other(call.token.role)
<1>1. h \in Shared /\ h \in Gpus /\ resident[h] = {call.token.role}
  BY CallFacts DEF Place
<1>2. R = {}
  BY <1>1 DEF AfterOffload, TakeOver, Accepted
<1>3. to \in Roles /\ to \in {"rollout", "trainer"}
  BY LeaseFacts DEF Other
<1>4. Grant(h, to, call.next)
      /\ residency' = [residency EXCEPT ![h] = Arriving(to)]
      /\ call' = [call EXCEPT !.hook = "hydrate",
                              !.token = TokenOf(h, lease'[h])]
  BY DEF TakeOver
<1>5. /\ lease'[h].role = to /\ ~lease'[h].failed
      /\ TokenOf(h, lease'[h]) \in Token
      /\ TokenOf(h, lease'[h]).role = to
      /\ TokenOf(h, lease'[h]).gpu = h
      /\ \A g \in Gpus : g # h => lease'[g] = lease[g]
      /\ LeaseNext
  BY <1>1, <1>3, <1>4, CallFacts, GrantGives DEF IInv, TypeOK
<1>6. LeaseIInv' /\ LeaseTypeOK'
  BY <1>5, LeaseStep DEF IInv
<1>7. call' \in Call /\ call'.hook = "hydrate"
      /\ call'.token = TokenOf(h, lease'[h])
  BY <1>4, <1>5, CallFacts DEF Call
<1>8. call' # NoCall
  BY <1>7, ResidencyAssumption
<1>9. residency' \in [Shared -> ResidencyState] /\ residency'[h] = Arriving(to)
  BY <1>1, <1>4 DEF IInv, TypeOK, ResidencyState, Arriving
<1>10. resident' \in [Shared -> SUBSET Roles] /\ resident'[h] = {}
  BY <1>1, <1>2 DEF IInv, TypeOK
<1>11. TypeOK'
  BY <1>1, <1>5, <1>6, <1>7, <1>9, <1>10 DEF TypeOK
<1>12. Place(h)'
  BY <1>5, <1>7, <1>8, <1>10 DEF Place, Calling
<1>13. \A g \in Shared : g # h => Place(g)'
  BY <1>4, <1>5, <1>7, OtherPlaces
<1> QED BY <1>6, <1>11, <1>12, <1>13 DEF IInv

(* Only a failed lease refuses a role a shared GPU supports.               *)
LEMMA TakeOverRefusedIInv ==
  ASSUME IInv, NEW outcome \in Outcomes, call # NoCall, call.hook = "offload",
         NEW R \in AfterOffload(call.token.role, resident[call.token.gpu], outcome),
         resident' = [resident EXCEPT ![call.token.gpu] = R],
         TakeOverRefused(outcome)
  PROVE  IInv'
<1>0. PICK h \in Shared : h = call.token.gpu
  BY CallFacts
<1> USE <1>0
<1> DEFINE to == Other(call.token.role)
<1>1. h \in Shared /\ h \in Gpus /\ resident[h] = {call.token.role}
  BY CallFacts DEF Place
<1>2. R = {}
  BY <1>1 DEF AfterOffload, TakeOverRefused, Accepted
<1>3. call' = NoCall /\ UNCHANGED <<lease, issued>>
      /\ residency' = [residency EXCEPT ![h] = Left(call.token.role)]
  BY DEF TakeOverRefused
<1>4. lease[h].failed
  <2>1. to \in Supported[h]
    BY <1>1, LeaseFacts DEF Other
  <2> QED BY <2>1 DEF TakeOverRefused, Grantable
<1>5. LeaseIInv' /\ LeaseTypeOK'
  BY <1>3, LeaseStep DEF IInv, leaseVars
<1>6. TypeOK'
  BY <1>1, <1>2, <1>3, <1>5 DEF IInv, TypeOK, ResidencyState, Left
<1>7. Place(h)'
  <2>1. residency'[h] = Left(call.token.role) /\ resident'[h] = {}
    BY <1>1, <1>2, <1>3 DEF IInv, TypeOK
  <2> QED BY <2>1, <1>3, <1>4, LeaseFacts DEF Place, Calling, Left, Active
<1>8. \A g \in Shared : g # h => Place(g)'
  BY <1>3, OtherPlaces
<1> QED BY <1>5, <1>6, <1>7, <1>8 DEF IInv

(* A hydrate hook loads the arriving role onto an empty GPU, or fails.     *)
LEMMA HydrateIInv ==
  ASSUME IInv, NEW outcome \in Outcomes, HydrateReturns(outcome)
  PROVE  IInv'
<1>1. call # NoCall /\ call.hook = "hydrate"
  BY DEF HydrateReturns
<1>0. PICK h \in Shared : h = call.token.gpu
  BY <1>1, CallFacts
<1> USE <1>0
<1> DEFINE role == call.token.role
<1>2. /\ h \in Shared /\ resident[h] = {} /\ role \in Roles
      /\ lease[h].failed \/ lease[h].role = role
  BY <1>1, CallFacts DEF Place
<1>3. PICK R \in AfterHydrate(role, resident[h], outcome) :
        resident' = [resident EXCEPT ![h] = R]
  BY DEF HydrateReturns
<1>4. R \subseteq {role} /\ (Accepted(outcome) => R = {role})
  BY <1>2, <1>3 DEF AfterHydrate, Accepted
<1>5. call' = NoCall /\ UNCHANGED <<lease, issued>>
      /\ residency' = [residency EXCEPT ![h] =
            IF Accepted(outcome) THEN Active(role) ELSE "DEGRADED"]
  BY DEF HydrateReturns
<1>6. LeaseIInv' /\ LeaseTypeOK'
  BY <1>5, LeaseStep DEF IInv, leaseVars
<1>7. /\ residency'[h] = IF Accepted(outcome) THEN Active(role) ELSE "DEGRADED"
      /\ residency' \in [Shared -> ResidencyState]
      /\ resident'[h] = R /\ resident' \in [Shared -> SUBSET Roles]
  BY <1>2, <1>3, <1>4, <1>5 DEF IInv, TypeOK, ResidencyState, Active
<1>8. TypeOK'
  BY <1>5, <1>6, <1>7 DEF TypeOK
<1>9. Place(h)'
  <2>1. ~Calling(h)'
    BY <1>5 DEF Calling
  <2>2. R # Roles
    BY <1>4, LeaseFacts
  <2> QED BY <2>1, <2>2, <1>2, <1>4, <1>5, <1>7 DEF Place
<1>10. \A g \in Shared : g # h => Place(g)'
  BY <1>1, <1>3, <1>5, OtherPlaces
<1> QED BY <1>6, <1>8, <1>9, <1>10 DEF IInv

(* Others can read a lease or fail it; a failed one excuses its GPU.       *)
LEMMA LeaseCallIInv ==
  ASSUME IInv, LeaseCall
  PROVE  IInv'
<1>1. UNCHANGED <<residency, call, resident>>
  BY DEF LeaseCall
<1>2. PICK h \in Gpus : CurrentLease(h) \/ MarkFailed(h)
  BY DEF LeaseCall
<1>3. LeaseNext
  BY <1>2 DEF LeaseNext
<1>4. LeaseIInv' /\ LeaseTypeOK'
  BY <1>3, LeaseStep DEF IInv
<1>5. TypeOK'
  BY <1>1, <1>4 DEF IInv, TypeOK
<1>6. ASSUME NEW g \in Shared
      PROVE  lease'[g] = lease[g] \/ lease'[g].failed
  BY <1>2, LeaseFacts DEF CurrentLease, MarkFailed, IInv, TypeOK,
     LeaseTypeOK, LeaseState
<1>7. ASSUME NEW g \in Shared PROVE Place(g)'
  <2>1. Place(g)
    BY DEF IInv
  <2> QED BY <2>1, <1>1, <1>6 DEF Place, Calling
<1> QED BY <1>4, <1>5, <1>7 DEF IInv

LEMMA NextIInv == IInv /\ [Next]_vars => IInv'
<1> SUFFICES ASSUME IInv, [Next]_vars PROVE IInv'
  OBVIOUS
<1>1. CASE UNCHANGED vars
  <2>1. LeaseIInv' /\ LeaseTypeOK'
    BY <1>1, LeaseStep DEF vars, IInv, leaseVars
  <2> QED BY <2>1, <1>1 DEF vars, IInv, TypeOK, Place, Calling
<1>2. ASSUME NEW token \in issued, NEW holder \in Holders,
             EnterTrain(token, holder) \/ ExitTrain(token, holder)
      PROVE  IInv'
  <2>1. token \in Token
    BY DEF IInv, TypeOK, LeaseTypeOK
  <2> QED BY <1>2, <2>1, StartIInv, LeaseFacts DEF EnterTrain, ExitTrain
<1>3. ASSUME NEW outcome \in Outcomes, OffloadReturns(outcome)
      PROVE  IInv'
  <2>1. call # NoCall /\ call.hook = "offload"
    BY <1>3 DEF OffloadReturns
  <2>2. PICK R \in AfterOffload(call.token.role, resident[call.token.gpu], outcome) :
          resident' = [resident EXCEPT ![call.token.gpu] = R]
    BY <1>3 DEF OffloadReturns
  <2>3. CASE OffloadRejected(outcome)
    BY <2>1, <2>2, <2>3, OffloadRejectedIInv
  <2>4. CASE TakeOver(outcome)
    BY <2>1, <2>2, <2>4, TakeOverIInv
  <2>5. CASE TakeOverRefused(outcome)
    BY <2>1, <2>2, <2>5, TakeOverRefusedIInv
  <2> QED BY <1>3, <2>3, <2>4, <2>5 DEF OffloadReturns
<1>4. ASSUME NEW outcome \in Outcomes, HydrateReturns(outcome)
      PROVE  IInv'
  BY <1>4, HydrateIInv
<1>5. CASE LeaseCall
  BY <1>5, LeaseCallIInv
<1> QED BY <1>1, <1>2, <1>3, <1>4, <1>5 DEF Next

(***************************************************************************)
(* Every shared GPU is where its residency state and the running call say. *)
(***************************************************************************)
THEOREM Invariance == Spec => []IInv
<1> QED BY InitIInv, NextIInv, PTL DEF Spec

(***************************************************************************)
(* The residency state of a GPU in a call names the hook the call is in,   *)
(* and the leases stay well formed under the calls of this manager.        *)
(***************************************************************************)
THEOREM TypeCorrect == Spec => []TypeOK
<1>1. IInv => TypeOK
  BY DEF IInv
<1> QED BY <1>1, Invariance, PTL

LEMMA IInvMeans == IInv => Exclusive /\ Settled
<1>1. IInv => Exclusive
  <2> SUFFICES ASSUME IInv, NEW g \in Shared PROVE resident[g] # Roles
    BY DEF Exclusive
  <2> QED BY LeaseFacts DEF IInv, Place
<1>2. IInv => Settled
  <2> SUFFICES ASSUME IInv, NEW g \in Shared, ~Calling(g), ~lease[g].failed,
                      residency[g] # "DEGRADED"
               PROVE  residency[g] = Active(lease[g].role)
                      /\ resident[g] = {lease[g].role}
    BY DEF Settled
  <2> QED BY DEF IInv, Place
<1> QED BY <1>1, <1>2

(***************************************************************************)
(* Rollout and trainer are never loaded on a shared GPU together, whatever *)
(* the hooks of enter_train and exit_train do: the takeover waits for an   *)
(* accepted offload report, and nothing loads on a degraded GPU.           *)
(***************************************************************************)
THEOREM Exclusion == Spec => []Exclusive
<1> QED BY IInvMeans, Invariance, PTL

(***************************************************************************)
(* Between calls a GPU is the lease holder's, degraded, or failed.         *)
(***************************************************************************)
THEOREM Settling == Spec => []Settled
<1> QED BY IInvMeans, Invariance, PTL

-----------------------------------------------------------------------------
(***************************************************************************)
(* Taking turns.  A step of the manager or of the lease manager concerns   *)
(* one GPU; on that GPU it hands over, moves in, breaks or shows nothing.  *)
(***************************************************************************)
TurnOf(g) == IF Broken(g) THEN "none" ELSE lease[g].role

(* Who is on a GPU, as the ledger of turns sees it.                        *)
Shown ==
  \A g : /\ Broken(g) => UserOf(g) = "broken" /\ TurnOf(g) = "none"
         /\ ~Broken(g) => TurnOf(g) = lease[g].role
         /\ ~Broken(g) /\ resident[g] = {} => UserOf(g) = "nobody"
         /\ \A role : ~Broken(g) /\ resident[g] = {role} => UserOf(g) = role

LEMMA Users == Shown
<1> SUFFICES ASSUME NEW g
             PROVE  /\ Broken(g) => UserOf(g) = "broken" /\ TurnOf(g) = "none"
                    /\ ~Broken(g) => TurnOf(g) = lease[g].role
                    /\ ~Broken(g) /\ resident[g] = {} => UserOf(g) = "nobody"
                    /\ \A role : ~Broken(g) /\ resident[g] = {role} => UserOf(g) = role
  BY DEF Shown
<1>1. Broken(g) => UserOf(g) = "broken"
  BY DEF UserOf
<1>2. ~Broken(g) /\ resident[g] = {} => UserOf(g) = "nobody"
  BY DEF UserOf
<1>3. ASSUME NEW role, ~Broken(g), resident[g] = {role} PROVE UserOf(g) = role
  <2>1. resident[g] # {}
    BY <1>3
  <2>2. UserOf(g) = CHOOSE r \in resident[g] : TRUE
    BY <1>3, <2>1 DEF UserOf
  <2> QED BY <1>3, <2>2
<1> QED BY <1>1, <1>2, <1>3 DEF TurnOf

(* The four things that may show on the GPU a step is about.               *)
HandsOver(h) == /\ UserOf(h) = TurnOf(h) /\ UserOf(h)' = "nobody"
                /\ TurnOf(h)' = Other(TurnOf(h))
MovesIn(h)   == UserOf(h) = "nobody" /\ UserOf(h)' = TurnOf(h) /\ TurnOf(h)' = TurnOf(h)
Breaks(h)    == UserOf(h) # "broken" /\ UserOf(h)' = "broken" /\ TurnOf(h)' = "none"
ShowsNothing(h) == UserOf(h)' = UserOf(h) /\ TurnOf(h)' = TurnOf(h)

LEMMA OneGpu ==
  ASSUME NEW h \in Shared,
         \A g \in Shared : g # h =>
           lease'[g] = lease[g] /\ residency'[g] = residency[g] /\ resident'[g] = resident[g],
         HandsOver(h) \/ MovesIn(h) \/ Breaks(h) \/ ShowsNothing(h)
  PROVE  [Turns!Next]_(Turns!vars)
<1> DEFINE users == [g \in Shared |-> UserOf(g)]
           turns == [g \in Shared |-> IF Broken(g) THEN "none" ELSE lease[g].role]
<1>1. \A g \in Shared : g # h => UserOf(g)' = UserOf(g) /\ TurnOf(g)' = TurnOf(g)
  BY DEF UserOf, TurnOf, Broken
<1>2. turns = [g \in Shared |-> TurnOf(g)] /\ turns' = [g \in Shared |-> TurnOf(g)']
  BY DEF TurnOf
<1>3. /\ users' = [users EXCEPT ![h] = UserOf(h)']
      /\ turns' = [turns EXCEPT ![h] = TurnOf(h)']
  <2>1. PICK u, v, t, w : u = users /\ v = users' /\ t = turns /\ w = turns'
    OBVIOUS
  <2>2. /\ u = [g \in Shared |-> UserOf(g)] /\ v = [g \in Shared |-> UserOf(g)']
        /\ t = [g \in Shared |-> TurnOf(g)] /\ w = [g \in Shared |-> TurnOf(g)']
    BY <1>2, <2>1
  <2>3. /\ DOMAIN u = Shared /\ DOMAIN v = Shared /\ DOMAIN t = Shared /\ DOMAIN w = Shared
        /\ v[h] = UserOf(h)' /\ w[h] = TurnOf(h)'
        /\ \A g \in Shared : g # h => v[g] = u[g] /\ w[g] = t[g]
    BY <1>1, <2>2
  <2>4. /\ u = [g \in Shared |-> u[g]] /\ v = [g \in Shared |-> v[g]]
        /\ t = [g \in Shared |-> t[g]] /\ w = [g \in Shared |-> w[g]]
    BY <2>2, <2>3
  <2>5. v = [u EXCEPT ![h] = v[h]] /\ w = [t EXCEPT ![h] = w[h]]
    BY <2>3, <2>4
  <2> QED BY <2>1, <2>3, <2>5
<1>4. users[h] = UserOf(h) /\ turns[h] = TurnOf(h)
  BY <1>2
<1>10. users = [users EXCEPT ![h] = users[h]] /\ turns = [turns EXCEPT ![h] = turns[h]]
  OBVIOUS
<1>5. CASE HandsOver(h)
  <2>1. Turns!Other(turns[h]) = Other(TurnOf(h))
    BY <1>4 DEF Turns!Other, Other
  <2>2. Turns!HandOver(h)
    BY <1>3, <1>4, <1>5, <2>1 DEF HandsOver, Turns!HandOver
  <2> QED BY <2>2 DEF Turns!Next
<1>6. CASE MovesIn(h)
  <2>1. turns' = turns
    <3>1. TurnOf(h)' = turns[h]
      BY <1>4, <1>6 DEF MovesIn
    <3> HIDE DEF turns
    <3> QED BY <1>3, <1>10, <3>1
  <2>2. Turns!MoveIn(h)
    BY <1>3, <1>4, <1>6, <2>1 DEF MovesIn, Turns!MoveIn
  <2> QED BY <2>2 DEF Turns!Next
<1>7. CASE Breaks(h)
  <2>1. Turns!Break(h)
    BY <1>3, <1>4, <1>7 DEF Breaks, Turns!Break
  <2> QED BY <2>1 DEF Turns!Next
<1>8. CASE ShowsNothing(h)
  <2>1. users' = users /\ turns' = turns
    <3>1. UserOf(h)' = users[h] /\ TurnOf(h)' = turns[h]
      BY <1>4, <1>8 DEF ShowsNothing
    <3> HIDE DEF users, turns
    <3> QED BY <1>3, <1>10, <3>1
  <2> QED BY <2>1 DEF Turns!vars
<1> QED BY <1>5, <1>6, <1>7, <1>8

(* The offload hook returns: the GPU is handed over, breaks, or was broken *)
(* when its lease failed during the hook.                                  *)
LEMMA OffloadTurn ==
  ASSUME IInv, NEW outcome \in Outcomes, OffloadReturns(outcome)
  PROVE  [Turns!Next]_(Turns!vars)
<1>0. PICK h \in Shared : h = call.token.gpu
  BY CallFacts DEF OffloadReturns
<1>1. PICK R \in AfterOffload(call.token.role, resident[h], outcome) :
        resident' = [resident EXCEPT ![h] = R]
  BY <1>0 DEF OffloadReturns
<1> DEFINE role == call.token.role
<1>2. /\ h \in Gpus /\ resident[h] = {role} /\ role \in {"rollout", "trainer"}
      /\ call.next \in Holders
      /\ lease[h].failed \/ lease[h].role = role
      /\ residency[h] = Leaving(role) /\ residency \in [Shared -> ResidencyState]
      /\ resident \in [Shared -> SUBSET Roles] /\ LeaseTypeOK
  BY <1>0, CallFacts DEF OffloadReturns, Place, IInv, TypeOK
<1>3. residency[h] # "DEGRADED"
  BY <1>2 DEF Leaving
<1>4. resident'[h] = R /\ \A g \in Shared : g # h => resident'[g] = resident[g]
  BY <1>1, <1>2
<1>5. \/ lease[h].failed /\ UserOf(h) = "broken" /\ TurnOf(h) = "none"
      \/ ~lease[h].failed /\ UserOf(h) = role /\ TurnOf(h) = role /\ role # "broken"
  BY <1>2, <1>3, Users DEF Broken, Shown
<1>6. Shown'
  BY Users, PTL
<1>7. CASE OffloadRejected(outcome)
  <2>1. /\ lease' = lease /\ residency' = [residency EXCEPT ![h] = "DEGRADED"]
    BY <1>0, <1>7 DEF OffloadRejected
  <2>2. residency'[h] = "DEGRADED" /\ \A g \in Shared : g # h => residency'[g] = residency[g]
    BY <1>2, <2>1
  <2>3. UserOf(h)' = "broken" /\ TurnOf(h)' = "none"
    BY <1>6, <2>2 DEF Broken, Shown
  <2>4. Breaks(h) \/ ShowsNothing(h)
    BY <1>5, <2>3 DEF Breaks, ShowsNothing
  <2> QED BY <1>4, <2>1, <2>2, <2>4, OneGpu
<1>8. CASE TakeOver(outcome)
  <2>1. PICK to : to = Other(role)
    OBVIOUS
  <2>2. /\ to \in Roles /\ Grant(h, to, call.next)
        /\ residency' = [residency EXCEPT ![h] = Arriving(to)]
    BY <1>0, <1>8, <2>1, LeaseFacts DEF TakeOver, Other
  <2>3. /\ lease'[h].role = to /\ ~lease'[h].failed
        /\ \A g \in Gpus : g # h => lease'[g] = lease[g]
    BY <1>2, <2>2, GrantGives
  <2>4. ~lease[h].failed
    BY <2>2 DEF Grant, Grantable
  <2>5. R = {}
    BY <1>1, <1>2, <1>8 DEF AfterOffload, TakeOver, Accepted
  <2>6. /\ residency'[h] = Arriving(to) /\ residency'[h] # "DEGRADED"
        /\ \A g \in Shared : g # h => residency'[g] = residency[g]
    BY <1>2, <2>2 DEF Arriving
  <2>7. UserOf(h)' = "nobody" /\ TurnOf(h)' = to
    BY <1>4, <1>6, <2>3, <2>5, <2>6 DEF Broken, Shown
  <2>8. HandsOver(h)
    BY <1>5, <2>1, <2>4, <2>7 DEF HandsOver
  <2>9. \A g \in Shared : g # h => lease'[g] = lease[g]
    BY <2>3, LeaseFacts
  <2> QED BY <1>4, <2>6, <2>8, <2>9, OneGpu
<1>9. CASE TakeOverRefused(outcome)
  <2>1. /\ lease' = lease /\ residency' = [residency EXCEPT ![h] = Left(role)]
    BY <1>0, <1>9 DEF TakeOverRefused
  <2>2. \A g \in Shared : g # h => residency'[g] = residency[g]
    BY <1>2, <2>1
  <2>3. lease[h].failed
    <3>1. Other(role) \in Supported[h]
      BY LeaseFacts DEF Other
    <3> QED BY <1>0, <1>9, <3>1 DEF TakeOverRefused, Grantable
  <2>4. UserOf(h)' = "broken" /\ TurnOf(h)' = "none"
    BY <1>6, <2>1, <2>3 DEF Broken, Shown
  <2>5. ShowsNothing(h)
    BY <1>5, <2>3, <2>4 DEF ShowsNothing
  <2> QED BY <1>4, <2>1, <2>2, <2>5, OneGpu
<1> QED BY <1>7, <1>8, <1>9 DEF OffloadReturns

(* The hydrate hook returns: the role whose turn it is moves in, or the    *)
(* GPU breaks.                                                             *)
LEMMA HydrateTurn ==
  ASSUME IInv, NEW outcome \in Outcomes, HydrateReturns(outcome)
  PROVE  [Turns!Next]_(Turns!vars)
<1>0. PICK h \in Shared : h = call.token.gpu
  BY CallFacts DEF HydrateReturns
<1> DEFINE role == call.token.role
<1>1. /\ resident[h] = {} /\ role \in {"rollout", "trainer"}
      /\ lease[h].failed \/ lease[h].role = role
      /\ residency[h] = Arriving(role) /\ residency \in [Shared -> ResidencyState]
      /\ resident \in [Shared -> SUBSET Roles]
  BY <1>0, CallFacts DEF HydrateReturns, Place, IInv, TypeOK
<1>2. PICK R \in AfterHydrate(role, resident[h], outcome) :
        resident' = [resident EXCEPT ![h] = R]
  BY <1>0 DEF HydrateReturns
<1>3. /\ lease' = lease
      /\ residency' = [residency EXCEPT ![h] =
            IF Accepted(outcome) THEN Active(role) ELSE "DEGRADED"]
  BY <1>0 DEF HydrateReturns
<1>4. /\ resident'[h] = R /\ residency'[h] = IF Accepted(outcome) THEN Active(role) ELSE "DEGRADED"
      /\ \A g \in Shared : g # h => resident'[g] = resident[g] /\ residency'[g] = residency[g]
  BY <1>1, <1>2, <1>3
<1>5. Accepted(outcome) => R = {role}
  BY <1>1, <1>2 DEF AfterHydrate, Accepted
<1>6. \/ lease[h].failed /\ UserOf(h) = "broken" /\ TurnOf(h) = "none"
      \/ ~lease[h].failed /\ UserOf(h) = "nobody" /\ TurnOf(h) = role
  <2>1. residency[h] # "DEGRADED"
    BY <1>1 DEF Arriving
  <2> QED BY <1>1, <2>1, Users DEF Broken, Shown
<1>7. Shown'
  BY Users, PTL
<1>8. CASE lease[h].failed
  <2>1. UserOf(h)' = "broken" /\ TurnOf(h)' = "none"
    BY <1>3, <1>7, <1>8 DEF Broken, Shown
  <2>2. ShowsNothing(h)
    BY <1>6, <1>8, <2>1 DEF ShowsNothing
  <2> QED BY <1>3, <1>4, <2>2, OneGpu
<1>9. CASE ~lease[h].failed /\ Accepted(outcome)
  <2>1. residency'[h] # "DEGRADED" /\ resident'[h] = {role}
    BY <1>4, <1>5, <1>9 DEF Active
  <2>2. ~Broken(h)'
    BY <1>3, <1>9, <2>1 DEF Broken
  <2>3. UserOf(h)' = role
    BY <1>7, <2>1, <2>2 DEF Shown
  <2>4. TurnOf(h)' = role
    BY <1>1, <1>3, <1>7, <1>9, <2>2 DEF Shown
  <2>5. MovesIn(h)
    BY <1>6, <1>9, <2>3, <2>4 DEF MovesIn
  <2> QED BY <1>3, <1>4, <2>5, OneGpu
<1>10. CASE ~lease[h].failed /\ ~Accepted(outcome)
  <2>1. UserOf(h)' = "broken" /\ TurnOf(h)' = "none"
    BY <1>4, <1>7, <1>10 DEF Broken, Shown
  <2>2. Breaks(h)
    BY <1>6, <1>10, <2>1 DEF Breaks
  <2> QED BY <1>3, <1>4, <2>2, OneGpu
<1> QED BY <1>8, <1>9, <1>10

(* A call begins, or another looks at a lease: nothing shows.  A lease     *)
(* that fails breaks its GPU.                                              *)
LEMMA StartTurn ==
  ASSUME IInv, NEW role \in Roles, NEW token \in Token,
         NEW next \in Holders, Start(role, token, next)
  PROVE  [Turns!Next]_(Turns!vars)
<1>0. PICK h \in Shared : h = token.gpu
  BY DEF Start
<1>1. /\ lease' = lease /\ resident' = resident
      /\ residency' = [residency EXCEPT ![h] = Leaving(role)]
      /\ residency[h] = Active(role)
      /\ residency \in [Shared -> ResidencyState]
  BY <1>0 DEF Start, IInv, TypeOK
<1>2. /\ residency[h] # "DEGRADED" /\ residency'[h] # "DEGRADED"
      /\ \A g \in Shared : g # h => residency'[g] = residency[g]
  BY <1>1 DEF Active, Leaving
<1>3. ShowsNothing(h)
  BY <1>1, <1>2 DEF ShowsNothing, UserOf, TurnOf, Broken
<1> QED BY <1>1, <1>2, <1>3, OneGpu

LEMMA LeaseCallTurn ==
  ASSUME IInv, LeaseCall
  PROVE  [Turns!Next]_(Turns!vars)
<1>1. UNCHANGED <<residency, call, resident>>
  BY DEF LeaseCall
<1>2. PICK h \in Gpus : CurrentLease(h) \/ MarkFailed(h)
  BY DEF LeaseCall
<1>3. CASE lease' = lease \/ h \notin Shared
  <2>1. \A g \in Shared : lease'[g] = lease[g]
    BY <1>2, <1>3, LeaseFacts DEF CurrentLease, MarkFailed, IInv, TypeOK,
       LeaseTypeOK, LeaseState
  <2>2. \A g \in Shared : UserOf(g)' = UserOf(g) /\ Broken(g)' = Broken(g)
    BY <1>1, <2>1 DEF UserOf, Broken
  <2> QED BY <2>1, <2>2 DEF Turns!vars
<1>4. CASE lease' # lease /\ h \in Shared
  <2>1. lease'[h].failed /\ \A g \in Gpus : g # h => lease'[g] = lease[g]
    BY <1>2, <1>4 DEF CurrentLease, MarkFailed, IInv, TypeOK,
       LeaseTypeOK, LeaseState
  <2>2. Shown'
    BY Users, PTL
  <2>3. UserOf(h)' = "broken" /\ TurnOf(h)' = "none"
    BY <2>1, <2>2 DEF Broken, Shown
  <2>4. UserOf(h) = "broken" => TurnOf(h) = "none"
    <3> SUFFICES ASSUME ~Broken(h) PROVE UserOf(h) # "broken"
      BY Users DEF Shown
    <3>1. resident[h] \subseteq {"rollout", "trainer"}
      BY <1>4, LeaseFacts DEF IInv, TypeOK
    <3> QED BY <3>1 DEF UserOf
  <2>5. Breaks(h) \/ ShowsNothing(h)
    BY <2>3, <2>4 DEF Breaks, ShowsNothing
  <2>6. \A g \in Shared : g # h => lease'[g] = lease[g]
    BY <2>1, LeaseFacts
  <2> QED BY <1>1, <1>4, <2>5, <2>6, OneGpu
<1> QED BY <1>3, <1>4

LEMMA NextTurn ==
  ASSUME IInv, [Next]_vars PROVE [Turns!Next]_(Turns!vars)
<1>1. CASE UNCHANGED vars
  BY <1>1 DEF vars, Turns!vars, UserOf, Broken
<1>2. ASSUME NEW token \in issued, NEW holder \in Holders,
             EnterTrain(token, holder) \/ ExitTrain(token, holder)
      PROVE  [Turns!Next]_(Turns!vars)
  <2>1. token \in Token
    BY DEF IInv, TypeOK, LeaseTypeOK
  <2> QED BY <1>2, <2>1, StartTurn, LeaseFacts DEF EnterTrain, ExitTrain
<1>3. ASSUME NEW outcome \in Outcomes, OffloadReturns(outcome) \/ HydrateReturns(outcome)
      PROVE  [Turns!Next]_(Turns!vars)
  BY <1>3, OffloadTurn, HydrateTurn
<1>4. CASE LeaseCall
  BY <1>4, LeaseCallTurn
<1> QED BY <1>1, <1>2, <1>3, <1>4 DEF Next

LEMMA InitTurn == Init => Turns!Init
<1> SUFFICES ASSUME Init PROVE Turns!Init
  OBVIOUS
<1>1. ASSUME NEW g \in Shared PROVE UserOf(g) = "rollout" /\ ~Broken(g) /\ lease[g].role = "rollout"
  <2>1. lease[g].role = "rollout" /\ ~lease[g].failed
    BY LeaseFacts DEF Init, LeaseInit
  <2>2. resident[g] = {"rollout"} /\ residency[g] # "DEGRADED"
    BY DEF Init
  <2> QED BY <2>1, <2>2, Users DEF Broken, Shown
<1> QED BY <1>1 DEF Turns!Init

(***************************************************************************)
(* The residency manager takes turns: a role leaves a GPU before the turn  *)
(* is handed over, only the role whose turn it is moves in, and onto an    *)
(* empty GPU, and a GPU that broke takes no further part; whatever the     *)
(* hooks of enter_train and exit_train report (offload.py:202-382) and     *)
(* whenever mark_failed comes in between (slot.py:241-249).                *)
(***************************************************************************)
THEOREM SharingTakesTurns == Spec => TakesTurns
<1>1. Init => Turns!Init
  BY InitTurn
<1>2. IInv /\ [Next]_vars => [Turns!Next]_(Turns!vars)
  BY NextTurn
<1> QED BY <1>1, <1>2, Invariance, PTL DEF Spec, TakesTurns, Turns!Spec
=============================================================================
