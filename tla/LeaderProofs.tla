---------------------------- MODULE LeaderProofs ----------------------------
(***************************************************************************)
(* Theorems about the leader loops over one lease row, for any number of   *)
(* instances, any TTL, and any bounds on the clock and the faults.         *)
(***************************************************************************)
EXTENDS Leader, TLAPS

\* Instance i acts, or is about to act, under epoch e: it has published it, or
\* the answer that carries it has not been applied yet.
Claims(i, e) ==
    \/ isLeader[i] /\ epoch[i] = e
    \/ pc[i] = "answered" /\ answer[i] = e

\* No claim is ahead of the lease row, and only the row's holder claims its epoch.
ClaimsBehindRow ==
    \A i \in Instance, e \in Nat :
        Claims(i, e) => e <= row.epoch /\ (e = row.epoch => row.holder = i)

\* No epoch is claimed twice.
ClaimsDistinct ==
    \A i, j \in Instance, e \in Nat : Claims(i, e) /\ Claims(j, e) => i = j

EpochInv == LeaderTypeOK /\ ClaimsBehindRow /\ ClaimsDistinct

------------------------------------------------------------------------------
LEMMA LeaderTypeInit == LeaderInit => LeaderTypeOK
BY LeaderAssumption DEF LeaderInit, LeaderTypeOK, SeedRow, Row, PC

LEMMA LeaderTypeStep == LeaderTypeOK /\ [LeaderNext]_leaderVars => LeaderTypeOK'
<1> SUFFICES ASSUME LeaderTypeOK, [LeaderNext]_leaderVars PROVE LeaderTypeOK'
  OBVIOUS
<1> USE LeaderAssumption DEF LeaderTypeOK, PC
<1>1. ASSUME NEW i \in Instance, StepBegin(i) PROVE LeaderTypeOK'
  BY <1>1 DEF StepBegin, Begin, belief
<1>2. ASSUME NEW i \in Instance, RenewOk(i) PROVE LeaderTypeOK'
  BY <1>2 DEF RenewOk, Renewed, Row, Goto, belief
<1>3. ASSUME NEW i \in Instance, RenewLost(i) PROVE LeaderTypeOK'
  BY <1>3 DEF RenewLost, set, Begin
<1>4. ASSUME NEW i \in Instance, RenewError(i) PROVE LeaderTypeOK'
  BY <1>4 DEF RenewError, Renewed, Row, Goto, belief, Fault
<1>5. ASSUME NEW i \in Instance, AcquireOk(i) PROVE LeaderTypeOK'
  BY <1>5 DEF AcquireOk, Acquired, Row, Goto, belief
<1>6. ASSUME NEW i \in Instance, AcquireHeld(i) PROVE LeaderTypeOK'
  BY <1>6 DEF AcquireHeld, set, Goto
<1>7. ASSUME NEW i \in Instance, AcquireError(i) PROVE LeaderTypeOK'
  BY <1>7 DEF AcquireError, Acquired, Row, set, Goto, Fault
<1>8. ASSUME NEW i \in Instance, Publish(i) PROVE LeaderTypeOK'
  BY <1>8 DEF Publish, set, Goto
<1>9. ASSUME NEW i \in Instance, StopBegin(i) PROVE LeaderTypeOK'
  BY <1>9 DEF StopBegin, Begin, belief, Fault
<1>10. ASSUME NEW i \in Instance, ReleaseTx(i) PROVE LeaderTypeOK'
  BY <1>10 DEF ReleaseTx, Released, Row, Goto, belief
<1>11. ASSUME NEW i \in Instance, Stopped(i) PROVE LeaderTypeOK'
  BY <1>11 DEF Stopped, set, Goto
<1>12. ASSUME NEW i \in Instance, Crash(i) PROVE LeaderTypeOK'
  BY <1>12 DEF Crash, set, Goto, Fault
<1>13. ASSUME NEW i \in Instance, Restart(i) PROVE LeaderTypeOK'
  BY <1>13 DEF Restart, Goto, belief
<1>14. CASE ClockTick
  BY <1>14 DEF ClockTick, belief
<1>15. CASE UNCHANGED leaderVars
  BY <1>15 DEF leaderVars
<1> QED BY <1>1, <1>2, <1>3, <1>4, <1>5, <1>6, <1>7, <1>8, <1>9, <1>10, <1>11, <1>12,
           <1>13, <1>14, <1>15 DEF LeaderNext, Loop, LeaderFault

------------------------------------------------------------------------------
(* Three kinds of step matter to the claims. *)

\* A step that keeps the row's holder and epoch and adds no claim.
Quiet ==
    /\ row'.epoch = row.epoch /\ row'.holder = row.holder
    /\ \A j \in Instance, e \in Nat : Claims(j, e)' => Claims(j, e)

\* A step of i that mints the next epoch; only i may claim it.
Mints(i) ==
    /\ row'.epoch = row.epoch + 1 /\ row'.holder = i
    /\ \A j \in Instance, e \in Nat : Claims(j, e)' =>
          Claims(j, e) \/ (j = i /\ e = row.epoch + 1)

\* A step of the row's holder that renews the row and claims its epoch again.
Renews(i) ==
    /\ row.holder = i /\ row'.epoch = row.epoch /\ row'.holder = row.holder
    /\ \A j \in Instance, e \in Nat : Claims(j, e)' =>
          Claims(j, e) \/ (j = i /\ e = row.epoch)

\* Every step of the loops and of the clock is of one of these kinds.
LEMMA StepKinds ==
    ASSUME LeaderTypeOK, [LeaderNext]_leaderVars
    PROVE  Quiet \/ \E i \in Instance : Mints(i) \/ Renews(i)
<1> DEFINE Goal == Quiet \/ \E i \in Instance : Mints(i) \/ Renews(i)
<1>t. /\ epoch \in [Instance -> Nat] /\ isLeader \in [Instance -> BOOLEAN]
      /\ pc \in [Instance -> PC] /\ answer \in [Instance -> Nat] /\ row.epoch \in Nat
  BY DEF LeaderTypeOK
<1>1. ASSUME NEW i \in Instance, StepBegin(i) PROVE Goal
  <2>1. \A j \in Instance, e \in Nat : Claims(j, e)' => Claims(j, e)
    BY <1>1, <1>t DEF StepBegin, Begin, belief, Claims
  <2> QED BY <1>1, <2>1 DEF Quiet, StepBegin
<1>2. ASSUME NEW i \in Instance, RenewOk(i) PROVE Goal
  <2>1. \A j \in Instance, e \in Nat : Claims(j, e)' =>
            Claims(j, e) \/ (j = i /\ e = row.epoch)
    BY <1>2, <1>t DEF RenewOk, Goto, belief, Claims
  <2>2. row.holder = i /\ row'.epoch = row.epoch /\ row'.holder = row.holder
    BY <1>2 DEF RenewOk, CanRenew, Renewed, Row
  <2> QED BY <2>1, <2>2 DEF Renews
<1>3. ASSUME NEW i \in Instance, RenewLost(i) PROVE Goal
  <2>1. \A j \in Instance, e \in Nat : Claims(j, e)' => Claims(j, e)
    BY <1>3, <1>t DEF RenewLost, set, Begin, Claims
  <2> QED BY <1>3, <2>1 DEF Quiet, RenewLost
<1>4. ASSUME NEW i \in Instance, RenewError(i) PROVE Goal
  <2>1. \A j \in Instance, e \in Nat : Claims(j, e)' => Claims(j, e)
    BY <1>4, <1>t DEF RenewError, Goto, belief, Claims
  <2>2. row'.epoch = row.epoch /\ row'.holder = row.holder
    BY <1>4 DEF RenewError, Renewed, Row
  <2> QED BY <2>1, <2>2 DEF Quiet
<1>5. ASSUME NEW i \in Instance, AcquireOk(i) PROVE Goal
  <2>1. row'.epoch = row.epoch + 1 /\ row'.holder = i
    BY <1>5 DEF AcquireOk, Acquired, Row
  <2>2. \A j \in Instance, e \in Nat : Claims(j, e)' =>
            Claims(j, e) \/ (j = i /\ e = row.epoch + 1)
    BY <1>5, <1>t, <2>1 DEF AcquireOk, Goto, belief, Claims
  <2> QED BY <2>1, <2>2 DEF Mints
<1>6. ASSUME NEW i \in Instance, AcquireHeld(i) PROVE Goal
  <2>1. \A j \in Instance, e \in Nat : Claims(j, e)' => Claims(j, e)
    BY <1>6, <1>t DEF AcquireHeld, set, Goto, Claims
  <2> QED BY <1>6, <2>1 DEF Quiet, AcquireHeld
<1>7. ASSUME NEW i \in Instance, AcquireError(i) PROVE Goal
  <2>1. \A j \in Instance, e \in Nat : Claims(j, e)' => Claims(j, e)
    BY <1>7, <1>t DEF AcquireError, set, Goto, Claims
  <2>2. CASE row' = row
    BY <2>1, <2>2 DEF Quiet
  <2>3. CASE row' = Acquired(row, i, txNow[i], Ttl)
    <3>1. row'.epoch = row.epoch + 1 /\ row'.holder = i
      BY <2>3 DEF Acquired, Row
    <3> QED BY <2>1, <3>1 DEF Mints
  <2> QED BY <1>7, <2>2, <2>3 DEF AcquireError
<1>8. ASSUME NEW i \in Instance, Publish(i) PROVE Goal
  <2>1. \A j \in Instance, e \in Nat : Claims(j, e)' => Claims(j, e)
    BY <1>8, <1>t DEF Publish, set, Goto, Claims
  <2> QED BY <1>8, <2>1 DEF Quiet, Publish
<1>9. ASSUME NEW i \in Instance, StopBegin(i) PROVE Goal
  <2>1. \A j \in Instance, e \in Nat : Claims(j, e)' => Claims(j, e)
    BY <1>9, <1>t DEF StopBegin, Begin, belief, Claims
  <2> QED BY <1>9, <2>1 DEF Quiet, StopBegin
<1>10. ASSUME NEW i \in Instance, ReleaseTx(i) PROVE Goal
  <2>1. \A j \in Instance, e \in Nat : Claims(j, e)' => Claims(j, e)
    BY <1>10, <1>t DEF ReleaseTx, Goto, belief, Claims
  <2>2. row'.epoch = row.epoch /\ row'.holder = row.holder
    BY <1>10 DEF ReleaseTx, Released, Row
  <2> QED BY <2>1, <2>2 DEF Quiet
<1>11. ASSUME NEW i \in Instance, Stopped(i) PROVE Goal
  <2>1. \A j \in Instance, e \in Nat : Claims(j, e)' => Claims(j, e)
    BY <1>11, <1>t DEF Stopped, set, Goto, Claims
  <2> QED BY <1>11, <2>1 DEF Quiet, Stopped
<1>12. ASSUME NEW i \in Instance, Crash(i) PROVE Goal
  <2>1. \A j \in Instance, e \in Nat : Claims(j, e)' => Claims(j, e)
    BY <1>12, <1>t DEF Crash, set, Goto, Claims
  <2> QED BY <1>12, <2>1 DEF Quiet, Crash
<1>13. ASSUME NEW i \in Instance, Restart(i) PROVE Goal
  <2>1. \A j \in Instance, e \in Nat : Claims(j, e)' => Claims(j, e)
    BY <1>13, <1>t DEF Restart, Goto, belief, Claims
  <2> QED BY <1>13, <2>1 DEF Quiet, Restart
<1>14. CASE ClockTick
  <2>1. \A j \in Instance, e \in Nat : Claims(j, e)' => Claims(j, e)
    BY <1>14 DEF ClockTick, belief, Claims
  <2> QED BY <1>14, <2>1 DEF Quiet, ClockTick
<1>15. CASE UNCHANGED leaderVars
  <2>1. \A j \in Instance, e \in Nat : Claims(j, e)' => Claims(j, e)
    BY <1>15 DEF leaderVars, Claims
  <2> QED BY <1>15, <2>1 DEF Quiet, leaderVars
<1> QED BY <1>1, <1>2, <1>3, <1>4, <1>5, <1>6, <1>7, <1>8, <1>9, <1>10, <1>11, <1>12,
           <1>13, <1>14, <1>15 DEF LeaderNext, Loop, LeaderFault

LEMMA EpochInit == LeaderInit => EpochInv
BY LeaderTypeInit DEF LeaderInit, EpochInv, ClaimsBehindRow, ClaimsDistinct, Claims

LEMMA EpochStep == EpochInv /\ [LeaderNext]_leaderVars => EpochInv'
<1> SUFFICES ASSUME EpochInv, [LeaderNext]_leaderVars PROVE EpochInv'
  OBVIOUS
<1>0. LeaderTypeOK /\ LeaderTypeOK'
  BY LeaderTypeStep DEF EpochInv
<1>1. row.epoch \in Nat
  BY <1>0 DEF LeaderTypeOK
<1>2. CASE Quiet
  BY <1>0, <1>2 DEF Quiet, EpochInv, ClaimsBehindRow, ClaimsDistinct
<1>3. ASSUME NEW i \in Instance, Mints(i) PROVE EpochInv'
  <2>1. \A j \in Instance, e \in Nat : Claims(j, e) => e <= row.epoch
    BY DEF EpochInv, ClaimsBehindRow
  <2>2. ClaimsBehindRow'
    BY <1>1, <1>3, <2>1 DEF Mints, ClaimsBehindRow
  <2>3. ClaimsDistinct'
    BY <1>1, <1>3, <2>1 DEF Mints, EpochInv, ClaimsDistinct
  <2> QED BY <1>0, <2>2, <2>3 DEF EpochInv
<1>4. ASSUME NEW i \in Instance, Renews(i) PROVE EpochInv'
  <2>1. \A j \in Instance : Claims(j, row.epoch) => j = i
    BY <1>1, <1>4 DEF Renews, EpochInv, ClaimsBehindRow
  <2>2. ClaimsBehindRow'
    BY <1>1, <1>4 DEF Renews, EpochInv, ClaimsBehindRow
  <2>3. ClaimsDistinct'
    BY <1>1, <1>4, <2>1 DEF Renews, EpochInv, ClaimsDistinct
  <2> QED BY <1>0, <2>2, <2>3 DEF EpochInv
<1> QED BY <1>0, <1>2, <1>3, <1>4, StepKinds

LEMMA EpochInvariant == LeaderSpec => []EpochInv
BY EpochInit, EpochStep, PTL DEF LeaderSpec

\* Two instances that both believe they lead never share a fencing epoch, however
\* late their renewals, whatever answers are lost and whoever crashes.
THEOREM EpochsAreUnique == LeaderSpec => []EpochUnique
<1>1. EpochInv => EpochUnique
  BY DEF EpochInv, ClaimsDistinct, Claims, EpochUnique, LeaderTypeOK
<1> QED BY <1>1, EpochInvariant, PTL

\* The lease never changes hands within an epoch and epochs never go back.
THEOREM HandoverBumpsEpoch == LeaderSpec => NewHolderNewEpoch
<1> DEFINE Bump == /\ row'.epoch >= row.epoch
                   /\ row'.holder # row.holder => row'.epoch > row.epoch
<1>1. LeaderTypeOK /\ [LeaderNext]_leaderVars => [Bump]_leaderVars
  <2> SUFFICES ASSUME LeaderTypeOK, LeaderNext PROVE Bump
    OBVIOUS
  <2>1. row.epoch \in Nat
    BY DEF LeaderTypeOK
  <2>2. \/ row'.epoch = row.epoch /\ row'.holder = row.holder
        \/ row'.epoch = row.epoch + 1
    <3>1. ASSUME NEW i \in Instance, AcquireOk(i) \/ AcquireError(i), row' # row
          PROVE  row'.epoch = row.epoch + 1
      <4>1. row' = Acquired(row, i, txNow[i], Ttl)
        BY <3>1 DEF AcquireOk, AcquireError
      <4> QED BY <4>1 DEF Acquired, Row
    <3>2. ASSUME NEW i \in Instance, RenewOk(i) \/ RenewError(i)
          PROVE  row'.epoch = row.epoch /\ row'.holder = row.holder
      BY <3>2 DEF RenewOk, RenewError, Renewed, Row
    <3>3. ASSUME NEW i \in Instance, ReleaseTx(i)
          PROVE  row'.epoch = row.epoch /\ row'.holder = row.holder
      BY <3>3 DEF ReleaseTx, Released, Row
    <3>4. ASSUME NEW i \in Instance,
                 \/ StepBegin(i) \/ RenewLost(i) \/ AcquireHeld(i) \/ Publish(i)
                 \/ Stopped(i) \/ StopBegin(i) \/ Crash(i) \/ Restart(i)
          PROVE  row' = row
      BY <3>4 DEF StepBegin, RenewLost, AcquireHeld, Publish, Stopped, StopBegin, Crash, Restart
    <3>5. ClockTick => row' = row
      BY DEF ClockTick
    <3> QED BY <3>1, <3>2, <3>3, <3>4, <3>5 DEF LeaderNext, Loop, LeaderFault
  <2> QED BY <2>1, <2>2
<1>2. LeaderSpec => []LeaderTypeOK
  BY LeaderTypeInit, LeaderTypeStep, PTL DEF LeaderSpec
<1>3. LeaderSpec => [][Bump]_leaderVars
  BY <1>1, <1>2, PTL DEF LeaderSpec
<1> QED BY <1>3 DEF NewHolderNewEpoch
=============================================================================
