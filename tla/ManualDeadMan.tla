--------------------------- MODULE ManualDeadMan ---------------------------
(* The app's own dead-man switch (useManualDeadMan): while it is enabled, the  *)
(* app is in the foreground and a wallet is unlocked, a heartbeat keeps a      *)
(* scheduleCancel of the exchange armed a TTL ahead, so the account's resting  *)
(* orders are cancelled when the app goes away.                                *)
(*                                                                             *)
(* Requests take up to MaxDelay (the SDK gives a request 10 s, half the floor  *)
(* of the heartbeat), overtake each other and may fail; nothing waits for an   *)
(* arm but its own continuation.                                               *)
EXTENDS Integers

CONSTANTS TtlOption, BeatFloor, ArmsPerDay, UtcDay, MaxDelay, MaxMdTime, MaxMdFaults, MaxMdTaps

ASSUME ManualDeadManAssumption ==
  /\ TtlOption # {} /\ TtlOption \subseteq Nat \ {0, 1}
  /\ BeatFloor \in Nat \ {0}
  /\ ArmsPerDay \in Nat \ {0} /\ UtcDay \in Nat \ {0}
  /\ MaxDelay \in Nat /\ MaxMdTime \in Nat /\ MaxMdFaults \in Nat /\ MaxMdTaps \in Nat

VARIABLES
  mdNow,        \* the clock
  mdEnabled, ttlSetting,  \* the preference (useDeadManStore)
  unlocked,     \* a local wallet with an address is in the session
  foreground,   \* AppState is "active"
  beatAt,       \* when the running timer beats next, or Off
  budgetRef,    \* the arm budget: day, count, armedUntil; or NoBudget
  requested,         \* scheduleCancel requests on their way to the exchange
  schedule,     \* the exchange's scheduled cancel, or Off
  disturbed,    \* since the last undisturbed arm: a failed or skipped arm, or the
                \* requests of an earlier effect run in flight
  fired,        \* how the last scheduled cancel ran: "never", "away", "present"
  mdFaults, mdTaps \* failures and taps so far (bounds)

mdVars == <<mdNow, mdEnabled, ttlSetting, unlocked, foreground, beatAt, budgetRef, requested, schedule,
            disturbed, fired, mdFaults, mdTaps>>
pref == <<mdEnabled, ttlSetting, unlocked, foreground>>

------------------------------------------------------------------------------
Off == -1
NoBudget == [day |-> -1, count |-> 0, armedUntil |-> 0]

Larger(a, b) == IF a > b THEN a ELSE b

\* Mutant: the heartbeat is the TTL itself.
heartbeatMs_WholeTtl(ttl) == Larger(BeatFloor, ttl)

\* Half the TTL, floored.
heartbeatMs(ttl) == Larger(BeatFloor, ttl \div 2)

\* decideArm: a schedule still ahead is refreshed for free; a new one counts
\* against the day's budget, and is skipped when that is spent.
Day(t) == t \div UtcDay
DayCount(b) == IF b.day = Day(mdNow) THEN b.count ELSE 0
FreeRefresh(b) == b.armedUntil > mdNow
SkipsArm(b) == ~FreeRefresh(b) /\ DayCount(b) >= ArmsPerDay

\* nextArm: what a successful arm sent at time `at` commits to the budget b.
nextArm(b, at, time, counts) ==
  [day |-> Day(at),
   count |-> (IF b.day = Day(at) THEN b.count ELSE 0) + (IF counts THEN 1 ELSE 0),
   armedUntil |-> time]

\* A request to arm at `time`, or to clear (time = Off).
Request(time, counts) == [at |-> mdNow, time |-> time, counts |-> counts]

\* The requests an arm of the heartbeat sends under budget b and a TTL: none when
\* it is skipped.
Arm(b, ttl) == IF SkipsArm(b) THEN {} ELSE {Request(mdNow + ttl, ~FreeRefresh(b))}

Guarding == mdEnabled /\ unlocked

ManualDeadManInit ==
  /\ mdNow = 0
  /\ mdEnabled = FALSE /\ ttlSetting \in TtlOption
  /\ unlocked = TRUE /\ foreground = TRUE
  /\ beatAt = Off
  /\ budgetRef = NoBudget
  /\ requested = {} /\ schedule = Off
  /\ disturbed = FALSE /\ fired = "never"
  /\ mdFaults = 0 /\ mdTaps = 0

------------------------------------------------------------------------------
Tap == mdTaps < MaxMdTaps /\ mdTaps' = mdTaps + 1

\* start(): arm at once and set the timer, unless one is running.
StartTimer(b, ttl, others) ==
  /\ beatAt' = mdNow + heartbeatMs(ttl)
  /\ requested' = others \cup Arm(b, ttl)

\* The effect runs for new dependencies.  The cleanup of a run that was guarding
\* stops the timer and sends a clear; the new run starts when the app is active,
\* from budget b.
EffectRuns(enabledNow, ttlNow, unlockedNow, b) ==
  LET cleared == IF Guarding THEN requested \cup {Request(Off, FALSE)} ELSE requested IN
  /\ IF enabledNow /\ unlockedNow /\ foreground
     THEN StartTimer(b, ttlNow, cleared)
     ELSE beatAt' = Off /\ requested' = cleared
  /\ disturbed' = TRUE

\* Settings: the switch and its TTL.
setEnabled ==
  /\ Tap /\ foreground
  /\ mdEnabled' = ~mdEnabled
  /\ EffectRuns(~mdEnabled, ttlSetting, unlocked, budgetRef)
  /\ UNCHANGED <<mdNow, ttlSetting, unlocked, foreground, budgetRef, schedule, fired, mdFaults>>

setTtlMinutes(ttl) ==
  /\ Tap /\ foreground /\ mdEnabled /\ ttl \in TtlOption \ {ttlSetting}
  /\ ttlSetting' = ttl
  /\ EffectRuns(mdEnabled, ttl, unlocked, budgetRef)
  /\ UNCHANGED <<mdNow, mdEnabled, unlocked, foreground, budgetRef, schedule, fired, mdFaults>>

\* Locking or unlocking the wallet changes the address the budget belongs to: it is
\* reset before the effect of the new address runs.
setAddress ==
  /\ Tap /\ foreground
  /\ unlocked' = ~unlocked
  /\ EffectRuns(mdEnabled, ttlSetting, ~unlocked, NoBudget)
  /\ budgetRef' = NoBudget
  /\ UNCHANGED <<mdNow, mdEnabled, ttlSetting, foreground, schedule, fired, mdFaults>>

\* The AppState listener: the background stops the timer and clears nothing.
onAppState ==
  /\ Tap
  /\ foreground' = ~foreground
  /\ IF foreground THEN beatAt' = Off /\ requested' = requested /\ disturbed' = disturbed
     ELSE IF Guarding /\ beatAt = Off
     THEN StartTimer(budgetRef, ttlSetting, requested) /\ disturbed' = TRUE
     ELSE UNCHANGED <<beatAt, requested, disturbed>>
  /\ UNCHANGED <<mdNow, mdEnabled, ttlSetting, unlocked, budgetRef, schedule, fired, mdFaults>>

------------------------------------------------------------------------------
\* The interval's callback.
beat ==
  /\ beatAt = mdNow
  /\ beatAt' = mdNow + heartbeatMs(ttlSetting)
  /\ requested' = requested \cup Arm(budgetRef, ttlSetting)
  /\ disturbed' = (disturbed \/ Arm(budgetRef, ttlSetting) = {})
  /\ UNCHANGED <<mdNow, pref, budgetRef, schedule, fired, mdFaults, mdTaps>>

\* A request reaches the exchange and its receipt the app, which commits the
\* budget of an arm whatever has happened to the effect meanwhile.
land(r) ==
  /\ requested' = requested \ {r}
  /\ schedule' = r.time
  /\ budgetRef' = IF r.time = Off THEN budgetRef ELSE nextArm(budgetRef, r.at, r.time, r.counts)
  /\ disturbed' = IF r.time # Off /\ requested = {r} /\ beatAt # Off /\ r.time = r.at + ttlSetting
                  THEN FALSE ELSE disturbed
  /\ UNCHANGED <<mdNow, pref, beatAt, fired, mdFaults, mdTaps>>

\* A request that fails, or whose receipt is lost: nothing is committed.
failArm(r) ==
  /\ mdFaults < MaxMdFaults
  /\ mdFaults' = mdFaults + 1
  /\ requested' = requested \ {r}
  /\ schedule' \in {schedule, r.time}
  /\ disturbed' = TRUE
  /\ UNCHANGED <<mdNow, pref, beatAt, budgetRef, fired, mdTaps>>

\* The scheduled cancel runs: every resting order of the account is cancelled.
fires ==
  /\ schedule # Off /\ schedule <= mdNow
  /\ schedule' = Off
  /\ fired' = IF beatAt = Off \/ disturbed THEN "away" ELSE "present"
  /\ UNCHANGED <<mdNow, pref, beatAt, budgetRef, requested, disturbed, mdFaults, mdTaps>>

\* Time passes, but not past a due beat, a due cancel or a request's delay.
passTime ==
  /\ mdNow < MaxMdTime
  /\ beatAt # mdNow /\ ~(schedule # Off /\ schedule <= mdNow)
  /\ \A r \in requested : mdNow < r.at + MaxDelay
  /\ mdNow' = mdNow + 1
  /\ UNCHANGED <<pref, beatAt, budgetRef, requested, schedule, disturbed, fired, mdFaults, mdTaps>>

ManualDeadManNext ==
  \/ setEnabled \/ setAddress \/ onAppState
  \/ \E ttl \in TtlOption : setTtlMinutes(ttl)
  \/ beat
  \/ \E r \in requested : land(r) \/ failArm(r)
  \/ fires \/ passTime

ManualDeadManSpec == ManualDeadManInit /\ [][ManualDeadManNext]_mdVars

------------------------------------------------------------------------------
\* The switch never cancels the orders of a user who is there: once an arm has
\* landed undisturbed, the heartbeat of useManualDeadMan refreshes the schedule
\* before it runs, through every delay of the requests, the free refreshes and the
\* daily budget.
PresentUserKeepsOrders == fired # "present"
==============================================================================
