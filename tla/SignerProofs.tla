---------------------------- MODULE SignerProofs ----------------------------
(***************************************************************************)
(* Theorems about several signer instances over one database, for any      *)
(* number of instances, keys and cloids.  A signer's step is a step of the *)
(* ledger and a step of the leader loops, or leaves them alone, so what is *)
(* proved of those two holds here; that an epoch has one writer needs both *)
(* at once.                                                                *)
(***************************************************************************)
EXTENDS Signer, LedgerProofs, LeaderProofs

\* The request of a handler was made from an epoch and a clock already read.
CallsMade ==
    /\ call = [i \in Instance |-> call[i]]
    /\ \A i \in Instance : call[i] # NoCall =>
         \E k \in Key, c \in Cloid, d \in Digest, n \in Notional, f \in Fence, t \in 1..now :
             call[i] = MakeRequest(k, c, d, n, f, t)

FreshType == fresh \subseteq [key : Key, fence : Nat, by : Instance]

SignerType == TypeOK /\ LeaderTypeOK /\ CallsMade /\ FreshType

\* A request in flight is one of those the ledger's specification ranges over.
LEMMA CallIsRequest ==
    ASSUME SignerType, NEW i \in Instance, call[i] # NoCall
    PROVE  call[i] \in Request /\ call[i].fence \in Nat /\ call[i].key \in Key
<1>1. PICK k \in Key, c \in Cloid, d \in Digest, n \in Notional, f \in Fence, t \in 1..now :
        call[i] = MakeRequest(k, c, d, n, f, t)
  BY DEF SignerType, CallsMade
<1>2. now \in 1..MaxNow
  BY DEF SignerType, TypeOK
<1>3. t \in (now - MaxLag)..now
  BY <1>2, SignerAssumption, LedgerAssumption
<1>4. call[i] \in Request
  BY <1>1, <1>3 DEF Request
<1> QED BY <1>2, <1>4, RequestShape

------------------------------------------------------------------------------
(* A step of the signers, seen from the ledger and from the leader loops. *)

LEMMA LedgerView ==
    ASSUME SignerType, [SignerNext]_signerVars PROVE [Next]_ledgerVars
<1>1. ASSUME NEW i \in Instance, SignAuthorized(i) PROVE Next
  BY <1>1, CallIsRequest DEF SignAuthorized, Next, Authorize
<1>2. CASE SignerTick
  BY <1>2 DEF SignerTick, Next
<1>3. ASSUME NEW i \in Instance, LeaderStep(i) \/ InstanceDown(i) \/ SignFails(i)
      PROVE  UNCHANGED ledgerVars
  BY <1>3 DEF LeaderStep, InstanceDown, SignFails
<1>4. ASSUME NEW i \in Instance, NEW k \in Key, NEW c \in Cloid, NEW d \in Digest,
             NEW n \in Notional, SignBegin(i, k, c, d, n)
      PROVE  UNCHANGED ledgerVars
  BY <1>4 DEF SignBegin
<1>5. UNCHANGED signerVars => UNCHANGED ledgerVars
  BY DEF signerVars
<1> QED BY <1>1, <1>2, <1>3, <1>4, <1>5 DEF SignerNext

LEMMA LeaderView == [SignerNext]_signerVars => [LeaderNext]_leaderVars
<1> SUFFICES ASSUME [SignerNext]_signerVars PROVE [LeaderNext]_leaderVars
  OBVIOUS
<1>1. ASSUME NEW i \in Instance, LeaderStep(i) \/ InstanceDown(i) PROVE LeaderNext
  BY <1>1 DEF LeaderStep, InstanceDown, LeaderNext, Loop, LeaderFault
<1>2. CASE SignerTick
  BY <1>2 DEF SignerTick, LeaderNext
<1>3. ASSUME NEW i \in Instance, SignAuthorized(i) \/ SignFails(i)
      PROVE  UNCHANGED leaderVars
  BY <1>3 DEF SignAuthorized, SignFails
<1>4. ASSUME NEW i \in Instance, NEW k \in Key, NEW c \in Cloid, NEW d \in Digest,
             NEW n \in Notional, SignBegin(i, k, c, d, n)
      PROVE  UNCHANGED leaderVars
  BY <1>4 DEF SignBegin
<1>5. UNCHANGED signerVars => UNCHANGED leaderVars
  BY DEF signerVars
<1> QED BY <1>1, <1>2, <1>3, <1>4, <1>5 DEF SignerNext

LEMMA CallShape ==
    ASSUME SignerType, [SignerNext]_signerVars PROVE call' = [i \in Instance |-> call'[i]]
<1>1. call = [i \in Instance |-> call[i]]
  BY DEF SignerType, CallsMade
<1>2. call' = call \/ \E i \in Instance : \E v : call' = [call EXCEPT ![i] = v]
  BY DEF SignerNext, LeaderStep, InstanceDown, SignFails, SignAuthorized, SignBegin, Serve,
         SignerTick, signerVars
<1> QED BY <1>1, <1>2

\* What a step does to the requests in flight: those it leaves were there, or one
\* was just made by an instance that leads, under its epoch.
LEMMA CallStep ==
    ASSUME SignerType, [SignerNext]_signerVars, NEW j \in Instance
    PROVE  \/ call'[j] = call[j]
           \/ call'[j] = NoCall
           \/ /\ isLeader[j] /\ epoch[j] \in Fence /\ now' = now
              /\ UNCHANGED <<leaderVars, fresh>>
              /\ \E k \in Key, c \in Cloid, d \in Digest, n \in Notional :
                   call'[j] = MakeRequest(k, c, d, n, epoch[j], now)
<1>0. call = [i \in Instance |-> call[i]]
  BY DEF SignerType, CallsMade
<1>1. ASSUME NEW i \in Instance, NEW k \in Key, NEW c \in Cloid, NEW d \in Digest,
             NEW n \in Notional, SignBegin(i, k, c, d, n)
      PROVE  /\ call' = [call EXCEPT ![i] = MakeRequest(k, c, d, n, epoch[i], now)]
             /\ isLeader[i] /\ epoch[i] \in Fence /\ now' = now
             /\ UNCHANGED <<leaderVars, fresh>>
  BY <1>1 DEF SignBegin, Serve, ledgerVars
<1>2. ASSUME NEW i \in Instance, SignAuthorized(i) \/ SignFails(i) \/ InstanceDown(i)
      PROVE  call' = [call EXCEPT ![i] = NoCall]
  BY <1>2 DEF SignAuthorized, SignFails, InstanceDown, Serve
<1>3. ASSUME NEW i \in Instance, LeaderStep(i) PROVE call' = call
  BY <1>3 DEF LeaderStep
<1>4. CASE SignerTick \/ UNCHANGED signerVars
  BY <1>0, <1>4 DEF SignerTick, signerVars
<1>5. CASE \E i \in Instance, k \in Key, c \in Cloid, d \in Digest, n \in Notional :
             SignBegin(i, k, c, d, n)
  <2>1. PICK i \in Instance, k \in Key, c \in Cloid, d \in Digest, n \in Notional :
          SignBegin(i, k, c, d, n)
    BY <1>5
  <2> DEFINE m == MakeRequest(k, c, d, n, epoch[i], now)
  <2>2. call' = [call EXCEPT ![i] = m]
    BY <1>1, <2>1
  <2>3. j = i => call'[j] = m
    BY <1>0, <2>2
  <2> HIDE DEF m
  <2>4. j # i => call'[j] = call[j]
    BY <1>0, <2>2
  <2> QED BY <1>1, <2>1, <2>3, <2>4 DEF m
<1>6. CASE \E i \in Instance : SignAuthorized(i) \/ SignFails(i) \/ InstanceDown(i)
  BY <1>0, <1>2, <1>6
<1>7. CASE \E i \in Instance : LeaderStep(i)
  BY <1>0, <1>3, <1>7
<1> QED BY <1>4, <1>5, <1>6, <1>7 DEF SignerNext

\* What a step does to the fresh grants: one more at most, of a request in flight
\* that the key's state accepted.
LEMMA FreshStep ==
    ASSUME SignerType, [SignerNext]_signerVars
    PROVE  \/ fresh' = fresh
           \/ \E i \in Instance :
                /\ call[i] # NoCall /\ call[i] \in Request
                /\ AuthorizeFresh(call[i])
                /\ fresh' = fresh \cup {[key |-> call[i].key, fence |-> call[i].fence, by |-> i]}
                /\ UNCHANGED leaderVars
<1>1. ASSUME NEW i \in Instance, SignAuthorized(i)
      PROVE  \/ fresh' = fresh
             \/ /\ call[i] # NoCall /\ call[i] \in Request
                /\ AuthorizeFresh(call[i])
                /\ fresh' = fresh \cup {[key |-> call[i].key, fence |-> call[i].fence, by |-> i]}
                /\ UNCHANGED leaderVars
  BY <1>1, CallIsRequest DEF SignAuthorized
<1>2. ASSUME NEW i \in Instance, LeaderStep(i) \/ InstanceDown(i) \/ SignFails(i)
      PROVE  fresh' = fresh
  BY <1>2 DEF LeaderStep, InstanceDown, SignFails
<1>3. ASSUME NEW i \in Instance, NEW k \in Key, NEW c \in Cloid, NEW d \in Digest,
             NEW n \in Notional, SignBegin(i, k, c, d, n)
      PROVE  fresh' = fresh
  BY <1>3 DEF SignBegin
<1>4. SignerTick \/ UNCHANGED signerVars => fresh' = fresh
  BY DEF SignerTick, signerVars
<1> QED BY <1>1, <1>2, <1>3, <1>4 DEF SignerNext

LEMMA SignerTypeInit == SignerInit => SignerType
<1> SUFFICES ASSUME SignerInit PROVE SignerType
  OBVIOUS
<1>1. TypeOK /\ LeaderTypeOK
  BY TypeInit, LeaderTypeInit DEF SignerInit
<1>2. CallsMade /\ FreshType
  BY DEF SignerInit, CallsMade, FreshType
<1> QED BY <1>1, <1>2 DEF SignerType

LEMMA SignerTypeStep == SignerType /\ [SignerNext]_signerVars => SignerType'
<1> SUFFICES ASSUME SignerType, [SignerNext]_signerVars PROVE SignerType'
  OBVIOUS
<1>1. TypeOK'
  BY LedgerView, TypeStep DEF SignerType
<1>2. LeaderTypeOK'
  BY LeaderView, LeaderTypeStep DEF SignerType
<1>3. now \in Nat /\ now' \in Nat /\ now <= now' /\ now >= 1
  <2>1. now \in 1..MaxNow /\ now' \in 1..MaxNow
    BY <1>1 DEF SignerType, TypeOK
  <2>2. now' = now \/ now' = now + 1
    BY LedgerView DEF Next, Authorize, AuthorizeFresh, AuthorizeReplay, Reconcile,
                      LedgerTick, ledgerVars
  <2> QED BY <2>1, <2>2, LedgerAssumption
<1>4. CallsMade'
  <2>1. call' = [i \in Instance |-> call'[i]]
    BY CallShape
  <2>2. ASSUME NEW i \in Instance, call'[i] # NoCall
        PROVE  \E k \in Key, c \in Cloid, d \in Digest, n \in Notional, f \in Fence,
                  t \in 1..now' : call'[i] = MakeRequest(k, c, d, n, f, t)
    <3>1. CASE call'[i] = call[i]
      <4>1. 1..now \subseteq 1..now'
        BY <1>3
      <4> QED BY <2>2, <3>1, <4>1 DEF SignerType, CallsMade
    <3>2. CASE call'[i] # call[i]
      <4>1. epoch[i] \in Fence /\ now \in 1..now'
            /\ \E k \in Key, c \in Cloid, d \in Digest, n \in Notional :
                 call'[i] = MakeRequest(k, c, d, n, epoch[i], now)
        BY <1>3, <2>2, <3>2, CallStep
      <4> QED BY <4>1
    <3> QED BY <3>1, <3>2
  <2> QED BY <2>1, <2>2 DEF CallsMade
<1>5. FreshType'
  BY FreshStep, CallIsRequest DEF SignerType, FreshType
<1> QED BY <1>1, <1>2, <1>4, <1>5 DEF SignerType

LEMMA SignerTypeInvariant == SignerSpec => []SignerType
BY SignerTypeInit, SignerTypeStep, PTL DEF SignerSpec

------------------------------------------------------------------------------
(* What is proved of the ledger and of the leader loops holds of the signers. *)

\* Whatever the instances' loops, handlers, crashes and shutdowns do, the shared
\* tables behave as the ledger and the lease row as the leader specification.
THEOREM SignersImplement == SignerSpec => Spec /\ LeaderSpec
<1>1. SignerInit => Init /\ LeaderInit
  BY DEF SignerInit
<1>2. SignerType /\ [SignerNext]_signerVars => [Next]_ledgerVars
  BY LedgerView
<1>3. [SignerNext]_signerVars => [LeaderNext]_leaderVars
  BY LeaderView
<1> QED BY <1>1, <1>2, <1>3, SignerTypeInvariant, PTL DEF SignerSpec, Spec, LeaderSpec

\* Instances over one database never hand one nonce of a key to two intents, nor
\* one cloid two nonces, whatever crashed, was lost or was retried elsewhere.
THEOREM NonceSafetyAcrossInstances == SignerSpec => []OneIntentPerNonceAcrossInstances
<1>1. SignerSpec => []OneIntentPerNonce
  BY SignersImplement, NonceSafety, PTL
<1> QED BY <1>1, PTL DEF OneIntentPerNonceAcrossInstances

------------------------------------------------------------------------------
(* An epoch has one writer.  A grant is made under the epoch of its request, *)
(* which may be older than anything its instance still claims: the argument  *)
(* of LeaderProofs is repeated for the claims, the requests in flight and    *)
(* the grants together.                                                      *)

\* Instance i acts under epoch e: it claims it, has a request in flight under it,
\* or was granted one.
Acts(i, e) ==
    \/ Claims(i, e)
    \/ call[i] # NoCall /\ call[i].fence = e
    \/ \E g \in fresh : g.by = i /\ g.fence = e

\* No instance acts under an epoch ahead of the row, and under the row's epoch
\* only the row's holder does.
ActsBehindRow ==
    \A i \in Instance, e \in Nat :
        Acts(i, e) => e <= row.epoch /\ (e = row.epoch => row.holder = i)

ActsDistinct ==
    \A i, j \in Instance, e \in Nat : Acts(i, e) /\ Acts(j, e) => i = j

WriterInv == SignerType /\ ActsBehindRow /\ ActsDistinct

\* Whatever a step adds to what an instance acts under is a new claim.
LEMMA NewActsAreClaims ==
    ASSUME SignerType, [SignerNext]_signerVars, NEW j \in Instance, NEW e \in Nat, Acts(j, e)'
    PROVE  Acts(j, e) \/ Claims(j, e)'
<1>1. CASE Claims(j, e)'
  BY <1>1
<1>2. CASE call'[j] # NoCall /\ call'[j].fence = e
  <2>1. CASE call'[j] = call[j]
    BY <1>2, <2>1 DEF Acts
  <2>2. CASE call'[j] # call[j]
    <3>1. isLeader[j] /\ \E k \in Key, c \in Cloid, d \in Digest, n \in Notional :
              call'[j] = MakeRequest(k, c, d, n, epoch[j], now)
      BY <1>2, <2>2, CallStep
    <3>2. call'[j].fence = epoch[j]
      BY <3>1 DEF MakeRequest
    <3> QED BY <1>2, <3>1, <3>2 DEF Acts, Claims
  <2> QED BY <2>1, <2>2
<1>3. CASE \E g \in fresh' : g.by = j /\ g.fence = e
  <2>1. PICK g \in fresh' : g.by = j /\ g.fence = e
    BY <1>3
  <2>2. CASE g \in fresh
    BY <2>1, <2>2 DEF Acts
  <2>3. CASE g \notin fresh
    <3>1. call[j] # NoCall /\ call[j].fence = e
      BY <2>1, <2>3, FreshStep
    <3> QED BY <3>1 DEF Acts
  <2> QED BY <2>2, <2>3
<1> QED BY <1>1, <1>2, <1>3 DEF Acts

LEMMA WriterInit == SignerInit => WriterInv
<1> SUFFICES ASSUME SignerInit PROVE WriterInv
  OBVIOUS
<1>1. \A i \in Instance, e \in Nat : ~Acts(i, e)
  BY DEF SignerInit, LeaderInit, Acts, Claims
<1> QED BY <1>1, SignerTypeInit DEF WriterInv, ActsBehindRow, ActsDistinct

LEMMA WriterStep == WriterInv /\ [SignerNext]_signerVars => WriterInv'
<1> SUFFICES ASSUME WriterInv, [SignerNext]_signerVars PROVE WriterInv'
  OBVIOUS
<1>0. SignerType /\ SignerType' /\ row.epoch \in Nat
  BY SignerTypeStep DEF WriterInv, SignerType, LeaderTypeOK
<1>1. \A j \in Instance, e \in Nat : Acts(j, e)' => Acts(j, e) \/ Claims(j, e)'
  BY <1>0, NewActsAreClaims
<1>2. \A j \in Instance, e \in Nat : Claims(j, e) => Acts(j, e)
  BY DEF Acts
<1>3. Quiet \/ \E i \in Instance : Mints(i) \/ Renews(i)
  BY <1>0, LeaderView, StepKinds DEF SignerType
<1>4. CASE Quiet
  <2>1. \A j \in Instance, e \in Nat : Acts(j, e)' => Acts(j, e)
    BY <1>1, <1>2, <1>4 DEF Quiet
  <2> QED BY <1>0, <1>4, <2>1 DEF Quiet, WriterInv, ActsBehindRow, ActsDistinct
<1>5. ASSUME NEW i \in Instance, Mints(i) PROVE WriterInv'
  <2>1. \A j \in Instance, e \in Nat :
          Acts(j, e)' => Acts(j, e) \/ (j = i /\ e = row.epoch + 1)
    BY <1>1, <1>2, <1>5 DEF Mints
  <2>2. \A j \in Instance, e \in Nat : Acts(j, e) => e <= row.epoch
    BY DEF WriterInv, ActsBehindRow
  <2>3. ActsBehindRow'
    BY <1>0, <1>5, <2>1, <2>2 DEF Mints, ActsBehindRow
  <2>4. ActsDistinct'
    BY <1>0, <2>1, <2>2 DEF WriterInv, ActsDistinct
  <2> QED BY <1>0, <2>3, <2>4 DEF WriterInv
<1>6. ASSUME NEW i \in Instance, Renews(i) PROVE WriterInv'
  <2>1. \A j \in Instance, e \in Nat :
          Acts(j, e)' => Acts(j, e) \/ (j = i /\ e = row.epoch)
    BY <1>1, <1>2, <1>6 DEF Renews
  <2>2. \A j \in Instance : Acts(j, row.epoch) => j = i
    BY <1>0, <1>6 DEF Renews, WriterInv, ActsBehindRow
  <2>3. ActsBehindRow'
    BY <1>0, <1>6, <2>1 DEF Renews, WriterInv, ActsBehindRow
  <2>4. ActsDistinct'
    BY <1>0, <2>1, <2>2 DEF WriterInv, ActsDistinct
  <2> QED BY <1>0, <2>3, <2>4 DEF WriterInv
<1> QED BY <1>3, <1>4, <1>5, <1>6

\* The fresh grants under one fencing epoch all come from one instance, whatever
\* two instances believe at the same time and however old a request is when its
\* transaction commits.
THEOREM EpochHasOneWriter == SignerSpec => []OneWriterPerEpoch
<1>1. WriterInv => OneWriterPerEpoch
  <2> SUFFICES ASSUME WriterInv, NEW a \in fresh, NEW b \in fresh, a.fence = b.fence
               PROVE  a.by = b.by
    BY DEF OneWriterPerEpoch
  <2>1. a.by \in Instance /\ b.by \in Instance /\ a.fence \in Nat
    BY DEF WriterInv, SignerType, FreshType
  <2>2. Acts(a.by, a.fence) /\ Acts(b.by, a.fence)
    BY DEF Acts
  <2> QED BY <2>1, <2>2 DEF WriterInv, ActsDistinct
<1> QED BY <1>1, WriterInit, WriterStep, PTL DEF SignerSpec

------------------------------------------------------------------------------
(* No grant from the past: the fence of a key is at least that of each of its *)
(* grants, and no request below it is accepted.                               *)

FenceCoversGrants == \A g \in fresh : g.fence <= sw[g.key].fence

\* What a grant does to the fences of the keys.
LEMMA GrantRaisesFence ==
    ASSUME SignerType, NEW r \in Request, AuthorizeFresh(r)
    PROVE  /\ r.key \in Key /\ r.fence \in Nat /\ sw[r.key].fence <= r.fence
           /\ sw'[r.key].fence = r.fence
           /\ \A k \in Key : k # r.key => sw'[k] = sw[k]
<1>1. TypeOK /\ sw \in [Key -> State] /\ now \in 1..MaxNow
  BY DEF SignerType, TypeOK
<1>2. r.key \in Key /\ r.fence \in Nat
  BY <1>1, RequestShape
<1>3. sw[r.key].fence <= r.fence
  BY <1>1, <1>2 DEF AuthorizeFresh, IsFresh, Accepts, State
<1>4. sw' = [sw EXCEPT ![r.key] = Granted(sw[r.key], r)]
  BY DEF AuthorizeFresh
<1>5. Granted(sw[r.key], r).fence = r.fence
  BY DEF Granted
<1> QED BY <1>1, <1>2, <1>3, <1>4, <1>5

\* Once a key has a grant of some epoch, no older epoch gets a fresh grant of that
\* key: a deposed leader paused mid-request cannot write after its successor has.
THEOREM PastIsFencedOut == SignerSpec => NoGrantFromThePast
<1> DEFINE Inv == SignerType /\ FenceCoversGrants
           Forward == \A g \in fresh' \ fresh : \A h \in fresh : h.key = g.key => h.fence <= g.fence
<1>1. SignerInit => Inv
  BY SignerTypeInit DEF SignerInit, FenceCoversGrants
<1>2. ASSUME Inv, [SignerNext]_signerVars PROVE Inv' /\ [Forward]_signerVars
  <2>0. /\ SignerType' /\ sw \in [Key -> State] /\ sw' \in [Key -> State]
        /\ \A g \in fresh : g.key \in Key /\ g.fence \in Nat
    BY <1>2, SignerTypeStep DEF SignerType, TypeOK, FreshType
  <2>1. CASE fresh' = fresh
    <3>1. \A k \in Key : sw[k].fence \in Nat /\ sw'[k].fence \in Nat /\ sw[k].fence <= sw'[k].fence
      <4>1. \A k \in Key : sw[k].fence \in Nat /\ sw'[k].fence \in Nat
        BY <2>0 DEF State
      <4>2. ASSUME NEW r \in Request, AuthorizeFresh(r), NEW k \in Key
            PROVE  sw[k].fence <= sw'[k].fence
        BY <1>2, <4>1, <4>2, GrantRaisesFence
      <4>3. sw' = sw \/ \E r \in Request : AuthorizeFresh(r)
        BY <1>2, LedgerView DEF Next, Authorize, AuthorizeReplay, Reconcile, LedgerTick, ledgerVars
      <4> QED BY <4>1, <4>2, <4>3
    <3> QED BY <1>2, <2>0, <2>1, <3>1 DEF FenceCoversGrants
  <2>2. ASSUME NEW i \in Instance, call[i] \in Request, AuthorizeFresh(call[i]),
               fresh' = fresh \cup {[key |-> call[i].key, fence |-> call[i].fence, by |-> i]}
        PROVE  Inv' /\ Forward
    <3>1. /\ call[i].key \in Key /\ call[i].fence \in Nat
          /\ sw[call[i].key].fence <= call[i].fence /\ sw'[call[i].key].fence = call[i].fence
          /\ \A k \in Key : k # call[i].key => sw'[k] = sw[k]
      BY <1>2, <2>2, GrantRaisesFence
    <3>2. \A h \in fresh : h.key = call[i].key => h.fence <= call[i].fence
      <4>1. sw[call[i].key].fence \in Nat
        BY <2>0, <3>1 DEF State
      <4>2. \A h \in fresh : h.key = call[i].key =>
                h.fence \in Nat /\ h.fence <= sw[call[i].key].fence
        BY <1>2, <2>0 DEF FenceCoversGrants
      <4> QED BY <3>1, <4>1, <4>2
    <3>3. FenceCoversGrants'
      <4> SUFFICES ASSUME NEW g \in fresh' PROVE g.fence <= sw'[g.key].fence
        BY DEF FenceCoversGrants
      <4>1. CASE g = [key |-> call[i].key, fence |-> call[i].fence, by |-> i]
        BY <3>1, <4>1
      <4>2. CASE g \in fresh /\ g.key = call[i].key
        BY <3>1, <3>2, <4>2
      <4>3. CASE g \in fresh /\ g.key # call[i].key
        BY <1>2, <2>0, <3>1, <4>3 DEF FenceCoversGrants
      <4> QED BY <2>2, <4>1, <4>2, <4>3
    <3> QED BY <2>0, <2>2, <3>2, <3>3
  <2> QED BY <1>2, <2>1, <2>2, FreshStep
<1>3. SignerSpec => [][Forward]_signerVars
  <2>1. Inv /\ [SignerNext]_signerVars => Inv' /\ [Forward]_signerVars
    BY <1>2
  <2> HIDE DEF Inv, Forward
  <2> QED BY <1>1, <2>1, PTL DEF SignerSpec
<1> QED BY <1>3 DEF NoGrantFromThePast
=============================================================================
