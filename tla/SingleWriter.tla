---------------------------- MODULE SingleWriter ----------------------------
(***************************************************************************)
(* backend/internal/singlewriter: the pure transition of the per-key       *)
(* single-writer authority.  A request carries a fencing token, the        *)
(* caller's clock and a notional; an accepted one advances the nonce       *)
(* high-water and charges the daily total, a rejected one changes nothing. *)
(* Which of the typed errors a rejection carries is left out: none of them *)
(* changes state, so a rejection is exactly ~Accepts.                      *)
(*                                                                         *)
(* Notionals and caps are integers.  NaN, +-Inf and negative notionals are *)
(* one class in the code (every guard treats them alike) and are           *)
(* represented here by the negative integers.                              *)
(***************************************************************************)
EXTENDS Integers

CONSTANT DayMs      \* milliseconds in a UTC day (dayMs, spendDayMs)

ASSUME DayMsAssumption == DayMs \in Nat \ {0}

Day(nowMs) == nowMs \div DayMs

\* The persisted per-key state, and the row seedSQL inserts for a new key.
State == [fence : Nat, lastNonce : Nat, spendDay : Nat, spendTotal : Nat]
ZeroState == [fence |-> 0, lastNonce |-> 0, spendDay |-> 0, spendTotal |-> 0]

\* The running total seen on a given day: any other day starts from zero.
TotalOn(s, day) == IF s.spendDay # day THEN 0 ELSE s.spendTotal

\* Mutant: the cap is compared with the total before this request.
WithinCap_Unreserved(s, notional, cap, nowMs) ==
    /\ cap >= 0
    /\ cap > 0 => TotalOn(s, Day(nowMs)) <= cap
\* A cap of zero is no cap, a negative one denies; exactly at the cap is allowed.
WithinCap(s, notional, cap, nowMs) ==
    /\ cap >= 0
    /\ cap > 0 => TotalOn(s, Day(nowMs)) + notional <= cap

\* Mutant: the clock alone.
NextNonce_ClockOnly(last, nowMs) == nowMs
\* The nonce granted: the clock, or one past the high-water if that is higher.
NextNonce(last, nowMs) == IF nowMs <= last THEN last + 1 ELSE nowMs

\* Mutant: the fencing token is not compared.
Accepts_Unfenced(s, r) ==
    /\ r.nowMs > 0
    /\ r.notional >= 0
    /\ WithinCap(s, r.notional, r.dailyCap, r.nowMs)
\* Every guard of Decide; a fence equal to the stored one is current.
Accepts(s, r) ==
    /\ r.fence >= s.fence
    /\ r.nowMs > 0
    /\ r.notional >= 0
    /\ WithinCap(s, r.notional, r.dailyCap, r.nowMs)

\* The state an accepted request leaves; its lastNonce is the nonce granted.
Granted(s, r) ==
    [fence      |-> r.fence,
     lastNonce  |-> NextNonce(s.lastNonce, r.nowMs),
     spendDay   |-> Day(r.nowMs),
     spendTotal |-> TotalOn(s, Day(r.nowMs)) + r.notional]
=============================================================================
