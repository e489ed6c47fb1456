------------------------------- MODULE Signer -------------------------------
(***************************************************************************)
(* backend/cmd/signer: several signer instances over one database.  Each   *)
(* runs the leader loop (Leader) beside its request handlers, and every    *)
(* sign request goes through the shared ledger (Ledger).  handleSignL1     *)
(* reads Fence() and its clock, then runs the Authorize transaction, then  *)
(* signs what was granted.  Between the first two the lease can expire,    *)
(* another instance can acquire it, and the process can crash or stop.     *)
(* Signing itself touches no shared state: the signatures that leave the   *)
(* instances are some of the grants in handedOut.                          *)
(*                                                                         *)
(* The handlers' clock (now) and the database's (clock) tick together; a   *)
(* request carries the time its handler read, old by the time the          *)
(* transaction runs.  Clients retry at any instance, with the same or      *)
(* another digest.  Reconcile has no leader gate and is left to the Ledger *)
(* specification.                                                          *)
(***************************************************************************)
EXTENDS Leader, Ledger

CONSTANT NoCall     \* no request is being handled

\* A handler may wait for the row lock as long as the clock runs.
ASSUME SignerAssumption == MaxLag >= MaxNow

VARIABLES
    call,           \* instance -> the request its handler is about to authorize
    fresh           \* history: the fresh grants, [key, fence, by]

signerVars == <<leaderVars, ledgerVars, call, fresh>>

SignerInit ==
    /\ LeaderInit
    /\ Init
    /\ call = [i \in Instance |-> NoCall]
    /\ fresh = {}

Serve(i, c) == call' = [call EXCEPT ![i] = c]

\* Mutant: every instance signs under the static fence of a lease-less setup.
SignBegin_NoLeaderGate(i, k, c, d, n) ==
    /\ pc[i] # "down"
    /\ call[i] = NoCall
    /\ Serve(i, MakeRequest(k, c, d, n, 1, now))
    /\ UNCHANGED <<leaderVars, ledgerVars, fresh>>
\* handleSignL1 up to Authorize: a non-leader answers 503 and serves nothing.
SignBegin(i, k, c, d, n) ==
    /\ pc[i] # "down"
    /\ call[i] = NoCall
    /\ isLeader[i]
    /\ epoch[i] \in Fence           \* bound
    /\ Serve(i, MakeRequest(k, c, d, n, epoch[i], now))
    /\ UNCHANGED <<leaderVars, ledgerVars, fresh>>

\* The Authorize transaction commits.  The grant is signed and answered, or the
\* answer is lost with the connection although the reservation is durable: the
\* client cannot tell and retries.
SignAuthorized(i) ==
    /\ call[i] # NoCall
    /\ \/ /\ AuthorizeFresh(call[i])
          /\ fresh' = fresh \cup {[key |-> call[i].key, fence |-> call[i].fence, by |-> i]}
       \/ /\ AuthorizeReplay(call[i])
          /\ UNCHANGED fresh
    /\ Serve(i, NoCall)
    /\ UNCHANGED leaderVars

\* A typed rejection (fenced, cap, cloid reuse), or a transaction that failed
\* without effect.
SignFails(i) ==
    /\ call[i] # NoCall
    /\ Serve(i, NoCall)
    /\ UNCHANGED <<leaderVars, ledgerVars, fresh>>

\* A crash takes the handler with it.  A shutdown waits for the handlers only up
\* to the drain timeout, so they may outlive the lease but not the process.
InstanceDown(i) ==
    /\ Crash(i) \/ Stopped(i)
    /\ Serve(i, NoCall)
    /\ UNCHANGED <<ledgerVars, fresh>>

LeaderStep(i) ==
    /\ \/ StepBegin(i) \/ RenewOk(i) \/ RenewLost(i) \/ RenewError(i)
       \/ AcquireOk(i) \/ AcquireHeld(i) \/ AcquireError(i) \/ Publish(i)
       \/ StopBegin(i) \/ ReleaseTx(i) \/ Restart(i)
    /\ UNCHANGED <<ledgerVars, call, fresh>>

SignerTick ==
    /\ ClockTick /\ LedgerTick
    /\ UNCHANGED <<call, fresh>>

SignerNext ==
    \/ \E i \in Instance : LeaderStep(i) \/ InstanceDown(i)
    \/ SignerTick
    \/ \E i \in Instance, k \in Key, c \in Cloid, d \in Digest, n \in Notional :
          SignBegin(i, k, c, d, n)
    \/ \E i \in Instance : SignAuthorized(i) \/ SignFails(i)

SignerSpec == SignerInit /\ [][SignerNext]_signerVars

------------------------------------------------------------------------------
(* Properties. *)

\* Split brain: whatever two instances believe, the fresh grants under one
\* fencing epoch all come from one instance.
OneWriterPerEpoch ==
    \A a, b \in fresh : a.fence = b.fence => a.by = b.by

\* Once a key has a grant of some epoch, no older epoch gets a fresh grant of
\* that key: a deposed leader paused mid-request cannot write to a key after its
\* successor has.
NoGrantFromThePast ==
    [][\A g \in fresh' \ fresh : \A h \in fresh : h.key = g.key => h.fence <= g.fence]_signerVars

\* Two instances over one database never hand one nonce of a key to two intents,
\* nor one cloid two nonces, whatever crashed, was lost or was retried elsewhere.
OneIntentPerNonceAcrossInstances == OneIntentPerNonce
=============================================================================
