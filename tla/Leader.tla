------------------------------- MODULE Leader -------------------------------
(***************************************************************************)
(* backend/internal/leader: every signer instance runs one loop that keeps *)
(* the shared lease row acquired or renewed and publishes (epoch,          *)
(* isLeader) to the request handlers of its process.                       *)
(*                                                                         *)
(* A lease operation is one row-locked transaction.  Its clock is the      *)
(* database's now(), fixed when the transaction begins, while the row is   *)
(* read only once the row lock is granted: txNow may be old by then.  The  *)
(* answer reaches the instance later still (pc "answered"), so handlers    *)
(* read a stale (epoch, isLeader) meanwhile.  A transaction may fail       *)
(* without effect, or commit and lose its answer (an error from COMMIT).   *)
(***************************************************************************)
EXTENDS Lease

CONSTANTS
    Instance,       \* the signer processes, identified by SIGNER_HOLDER_ID
    Ttl,            \* LEASE_TTL
    MaxClock,       \* bound on the database clock
    MaxFaults       \* bound on crashes, shutdowns and failed transactions

ASSUME LeaderAssumption ==
    /\ Ttl \in Nat \ {0}
    /\ MaxClock \in Nat /\ MaxFaults \in Nat
    /\ NoHolder \notin Instance

VARIABLES
    row,            \* the lease row
    clock,          \* the database clock
    epoch, isLeader,  \* instance -> what Fence() returns
    pc,             \* instance -> where its loop is
    txNow,          \* instance -> now() of its open transaction
    answer,         \* instance -> epoch of the lease answered, 0 for an error
    faults          \* faults so far

leaderVars == <<row, clock, epoch, isLeader, pc, txNow, answer, faults>>
belief == <<epoch, isLeader>>

PC == {"idle", "renew", "acquire", "answered", "release", "released", "down"}

LeaderInit ==
    /\ row = SeedRow
    /\ clock = 1
    /\ epoch = [i \in Instance |-> 0]
    /\ isLeader = [i \in Instance |-> FALSE]
    /\ pc = [i \in Instance |-> "idle"]
    /\ txNow = [i \in Instance |-> 0]
    /\ answer = [i \in Instance |-> 0]
    /\ faults = 0

set(i, e, l) ==
    /\ epoch' = [epoch EXCEPT ![i] = e]
    /\ isLeader' = [isLeader EXCEPT ![i] = l]

\* Begin the next transaction (it reads now() once, here), or leave the last one.
Begin(i, op) ==
    /\ pc' = [pc EXCEPT ![i] = op]
    /\ txNow' = [txNow EXCEPT ![i] = clock]

Goto(i, where) ==
    /\ pc' = [pc EXCEPT ![i] = where]
    /\ txNow' = [txNow EXCEPT ![i] = 0]

\* Bounds: at most MaxFaults faults, and none so late that the lease it leaves
\* behind would outlive the clock.
Fault ==
    /\ faults < MaxFaults
    /\ clock + Ttl <= MaxClock
    /\ faults' = faults + 1

\* The ticker fires (or Run starts): step renews if leading, else acquires.
StepBegin(i) ==
    /\ pc[i] = "idle"
    /\ Begin(i, IF isLeader[i] THEN "renew" ELSE "acquire")
    /\ UNCHANGED <<row, clock, belief, answer, faults>>

RenewOk(i) ==
    /\ pc[i] = "renew"
    /\ CanRenew(row, i, txNow[i])
    /\ row' = Renewed(row, txNow[i], Ttl)
    /\ answer' = [answer EXCEPT ![i] = row.epoch]
    /\ Goto(i, "answered")
    /\ UNCHANGED <<clock, belief, faults>>

\* Mutant: a lost renewal is treated like an infrastructure error.
RenewLost_KeepsLeading(i) ==
    /\ pc[i] = "renew"
    /\ ~CanRenew(row, i, txNow[i])
    /\ Goto(i, "idle")
    /\ UNCHANGED <<row, clock, belief, answer, faults>>
\* ErrNotHolder or ErrExpired: leadership is dropped and Acquire follows at once.
RenewLost(i) ==
    /\ pc[i] = "renew"
    /\ ~CanRenew(row, i, txNow[i])
    /\ set(i, 0, FALSE)
    /\ Begin(i, "acquire")
    /\ UNCHANGED <<row, clock, answer, faults>>

\* An infrastructure error keeps (epoch, isLeader); the commit may have applied.
RenewError(i) ==
    /\ pc[i] = "renew"
    /\ Fault
    /\ \/ UNCHANGED row
       \/ CanRenew(row, i, txNow[i]) /\ row' = Renewed(row, txNow[i], Ttl)
    /\ Goto(i, "idle")
    /\ UNCHANGED <<clock, belief, answer>>

AcquireOk(i) ==
    /\ pc[i] = "acquire"
    /\ CanAcquire(row, txNow[i])
    /\ row' = Acquired(row, i, txNow[i], Ttl)
    /\ answer' = [answer EXCEPT ![i] = row'.epoch]
    /\ Goto(i, "answered")
    /\ UNCHANGED <<clock, belief, faults>>

AcquireHeld(i) ==
    /\ pc[i] = "acquire"
    /\ ~CanAcquire(row, txNow[i])
    /\ set(i, 0, FALSE)
    /\ Goto(i, "idle")
    /\ UNCHANGED <<row, clock, answer, faults>>

AcquireError(i) ==
    /\ pc[i] = "acquire"
    /\ Fault
    /\ \/ UNCHANGED row
       \/ CanAcquire(row, txNow[i]) /\ row' = Acquired(row, i, txNow[i], Ttl)
    /\ set(i, 0, FALSE)
    /\ Goto(i, "idle")
    /\ UNCHANGED <<clock, answer>>

\* The successful answer of Renew or Acquire is published to the handlers.
Publish(i) ==
    /\ pc[i] = "answered"
    /\ set(i, answer[i], TRUE)
    /\ answer' = [answer EXCEPT ![i] = 0]
    /\ Goto(i, "idle")
    /\ UNCHANGED <<row, clock, faults>>

\* Run's context is cancelled: release the lease, best effort, and only then
\* stop claiming leadership.
StopBegin(i) ==
    /\ pc[i] = "idle"
    /\ Fault
    /\ Begin(i, "release")
    /\ UNCHANGED <<row, clock, belief, answer>>

ReleaseTx(i) ==
    /\ pc[i] = "release"
    /\ row' \in {row, Released(row, i, txNow[i])}
    /\ Goto(i, "released")
    /\ UNCHANGED <<clock, belief, answer, faults>>

Stopped(i) ==
    /\ pc[i] = "released"
    /\ set(i, 0, FALSE)
    /\ Goto(i, "down")
    /\ UNCHANGED <<row, clock, answer, faults>>

Crash(i) ==
    /\ pc[i] # "down"
    /\ Fault
    /\ set(i, 0, FALSE)
    /\ answer' = [answer EXCEPT ![i] = 0]
    /\ Goto(i, "down")
    /\ UNCHANGED <<row, clock>>

\* The process is started again under the same holder id.
Restart(i) ==
    /\ pc[i] = "down"
    /\ Goto(i, "idle")
    /\ UNCHANGED <<row, clock, belief, answer, faults>>

ClockTick ==
    /\ clock < MaxClock
    /\ clock' = clock + 1
    /\ UNCHANGED <<row, belief, pc, txNow, answer, faults>>

Loop(i) ==
    \/ StepBegin(i) \/ RenewOk(i) \/ RenewLost(i) \/ AcquireOk(i) \/ AcquireHeld(i)
    \/ Publish(i) \/ ReleaseTx(i) \/ Stopped(i)

LeaderFault(i) ==
    RenewError(i) \/ AcquireError(i) \/ StopBegin(i) \/ Crash(i)

LeaderNext ==
    \/ \E i \in Instance : Loop(i) \/ LeaderFault(i) \/ Restart(i)
    \/ ClockTick

LeaderSpec == LeaderInit /\ [][LeaderNext]_leaderVars

\* The goroutine scheduler and the ticker keep running every live loop, and a
\* supervisor restarts a process that is down; time passes.
LeaderFairSpec ==
    /\ LeaderSpec
    /\ WF_leaderVars(ClockTick)
    /\ \A i \in Instance : WF_leaderVars(Loop(i)) /\ WF_leaderVars(Restart(i))

------------------------------------------------------------------------------
(* Properties. *)

\* Type invariant of the lease row, the clock and the instances.
LeaderTypeOK ==
    /\ row \in [holder : Instance \cup {NoHolder}, epoch : Nat, expiresAtMs : Nat]
    /\ clock \in Nat
    /\ epoch \in [Instance -> Nat]
    /\ isLeader \in [Instance -> BOOLEAN]
    /\ pc \in [Instance -> PC]
    /\ txNow \in [Instance -> Nat]
    /\ answer \in [Instance -> Nat]
    /\ faults \in Nat

\* Two instances may both believe they lead (a slow renewal, a lost answer, a
\* shutdown in progress), but never with the same fencing epoch.
EpochUnique ==
    \A i, j \in Instance :
        isLeader[i] /\ isLeader[j] /\ epoch[i] = epoch[j] => i = j

\* The lease never changes hands within an epoch, and epochs never go back.
NewHolderNewEpoch ==
    [][/\ row'.epoch >= row.epoch
       /\ row'.holder # row.holder => row'.epoch > row.epoch]_leaderVars

\* One instance holds a live lease and leads under its epoch.
Led == \E i \in Instance :
    /\ isLeader[i]
    /\ epoch[i] = row.epoch
    /\ row.holder = i /\ ~Expired(row, clock)

\* Once faults and the clock have run out, the holder of a live lease settles as
\* the leader of its epoch: no crash, lost answer, late renewal or shutdown
\* leaves the signers leaderless for good.
LeadershipRecovers == <>[]Led
=============================================================================
