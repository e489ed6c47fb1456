------------------------------ MODULE DeadMan ------------------------------
(***************************************************************************)
(* server/src/engine/deadMan.ts and its wiring in index.ts: the heartbeat  *)
(* that keeps each opted-in owner's scheduleCancel in the future, the      *)
(* durable budget of arms that count, the health tracker, the clears at    *)
(* startup and shutdown, and the exchange that cancels the owner's orders  *)
(* when a schedule expires.                                                *)
(*                                                                         *)
(* Time counts scheduler intervals (TICK_MS): the timer starts a heartbeat *)
(* at every one of them, whether or not the one before has returned.       *)
(***************************************************************************)
EXTENDS Integers, FiniteSets, FiniteSetsExt

CONSTANTS
    DmOwner,        \* owners of strategies
    Beat,           \* bounds the heartbeats in flight together
    MaxLag,         \* bound on the intervals a heartbeat outlasts its own
    TtlChoices,     \* DEADMAN_TTL_MS, in intervals
    MaxPerDay,      \* DEADMAN_MAX_PER_DAY
    AlertAfter,     \* DEADMAN_ALERT_AFTER
    DayTicks,       \* DAY_MS, in intervals
    Delegated,      \* owners' keys are held by the signer
    MaxTime,        \* bound on the clock
    MaxDmFaults,    \* bound on failed or unanswered calls
    MaxStops,       \* bound on crashes and shutdowns
    MaxEdits        \* bound on strategies started and stopped

ASSUME DeadManAssumption ==
    /\ TtlChoices \subseteq Nat \ {0} /\ DayTicks \in Nat \ {0} /\ Delegated \in BOOLEAN
    /\ AlertAfter \in Nat \ {0}
    /\ {MaxLag, MaxPerDay, MaxDmFaults, MaxStops, MaxEdits} \subseteq Nat
    /\ MaxTime \in Nat \ {0}

VARIABLES
    dmTime, ttl,
    engine,     \* "starting", "up", "stopping" or "down"
    wants,      \* owner -> "deadMan": a running strategy opted in; "plain": running ones, none opted in; "none"
    budget,     \* dead_man_budget: owner -> day, count, until
    health,     \* owner -> failures, alerting (in memory)
    beat,       \* heartbeat -> its start, the owners left, the call it awaits
    clears,     \* owners the startup or the shutdown still has to clear
    armed,      \* exchange: owner -> the time its schedule fires, 0 if none
    triggers,   \* exchange: owner -> day -> schedules that fired
    cleared,    \* owners the signer has signed a clear for
    dmFaults, stops, edits,
    slips,      \* owner -> arms taken late, never recorded, or recorded after their day had
                \* ended, and days that began with an arm of the day before in effect
    misses,     \* owner -> passes failed, skipped or late (once per interval) since its last arm in time, up to 2
    exposed,    \* owner -> passes since its last arm that left it unarmed
    overran     \* owner -> a heartbeat was not done with it when its TTL had run out

dmVars == <<dmTime, ttl, engine, wants, budget, health, beat, clears, armed, triggers,
            cleared, dmFaults, stops, edits, slips, misses, exposed, overran>>

DmDay(t) == t \div DayTicks
NoBeat == [at |-> 0, todo |-> {}, for |-> {}, counts |-> FALSE, st |-> "none"]
Healthy == [failures |-> 0, alerting |-> FALSE]
NoBudget == [day |-> 0, count |-> 0, until |-> 0]

DmInit ==
    /\ dmTime = 1 /\ ttl \in TtlChoices /\ engine = "down"
    /\ wants \in [DmOwner -> {"deadMan", "none"}]
    /\ budget = [o \in DmOwner |-> NoBudget] /\ health = [o \in DmOwner |-> Healthy]
    /\ beat = [b \in Beat |-> NoBeat] /\ clears = {} /\ cleared = {}
    /\ armed = [o \in DmOwner |-> 0]
    /\ triggers = [o \in DmOwner |-> [d \in 0..DmDay(MaxTime) |-> 0]]
    /\ dmFaults = 0 /\ stops = 0 /\ edits = 0
    /\ slips = [o \in DmOwner |-> 0] /\ misses = [o \in DmOwner |-> 2]
    /\ exposed = [o \in DmOwner |-> 0] /\ overran = [o \in DmOwner |-> FALSE]

\* Mutant: any TTL above the interval is accepted.
deadManEnabled_AboveTick == ttl > 1
\* The switch runs only with a TTL of three intervals or more.
deadManEnabled == ttl >= 3

activeOwners == {o \in DmOwner : wants[o] = "deadMan"}
staleDeadManOwners == {o \in DmOwner : wants[o] = "plain"}

\* --- deadMan.ts: the budget and the health tracker ---

\* An arm that refreshes a schedule still in the future is free; a new one counts.
decideBudget(p, now) ==
    LET count == IF p.day = DmDay(now) THEN p.count ELSE 0
    IN  IF p.until > now THEN "free" ELSE IF count >= MaxPerDay THEN "skip" ELSE "counts"

nextBudget(p, now, time, counts) ==
    [day |-> DmDay(now), until |-> time,
     count |-> (IF p.day = DmDay(now) THEN p.count ELSE 0) + (IF counts THEN 1 ELSE 0)]

healthRecord(h, ok) ==
    IF ok THEN Healthy
    ELSE [failures |-> h.failures + 1, alerting |-> h.alerting \/ h.failures + 1 >= AlertAfter]

Missed(owners, n) == [o \in DmOwner |-> IF o \in owners THEN Min({2, misses[o] + n}) ELSE misses[o]]

\* --- index.ts: startup, the timer, shutdown ---

\* Only the durable budget survives: heartbeats, health and timers are the process's.
Process ==
    /\ beat' = [b \in Beat |-> NoBeat] /\ health' = [o \in DmOwner |-> Healthy]
    /\ exposed' = [o \in DmOwner |-> 0]

\* Mutant: the budget is kept in memory and restarts empty.
Start_EmptyBudget ==
    /\ engine = "down" /\ engine' = "starting" /\ Process
    /\ clears' = IF deadManEnabled THEN staleDeadManOwners ELSE {}
    /\ budget' = [o \in DmOwner |-> NoBudget]
    /\ UNCHANGED <<dmTime, ttl, wants, armed, triggers, cleared, dmFaults, stops, edits, slips, misses, overran>>
\* Owners with running strategies that are not opted in are cleared once, before the timer starts.
Start ==
    /\ engine = "down" /\ engine' = "starting" /\ Process
    /\ clears' = IF deadManEnabled THEN staleDeadManOwners ELSE {}
    /\ UNCHANGED <<dmTime, ttl, wants, budget, armed, triggers, cleared, dmFaults, stops, edits, slips, misses, overran>>

\* executor.clear for the next owner: disarmed, or the call fails.  A delegated clear is
\* signed under a key derived from its content, so every clear of an owner has the same
\* one: the signer answers the second with the first's nonce, and the exchange refuses it.
deadManClearAll(o) ==
    /\ engine \in {"starting", "stopping"} /\ o \in clears /\ clears' = clears \ {o}
    /\ \/ /\ IF Delegated /\ o \in cleared THEN UNCHANGED <<armed, cleared>>
             ELSE armed' = [armed EXCEPT ![o] = 0] /\ cleared' = cleared \cup {o}
          /\ UNCHANGED dmFaults
       \/ /\ dmFaults < MaxDmFaults /\ dmFaults' = dmFaults + 1
          /\ UNCHANGED <<armed, cleared>>
    /\ UNCHANGED <<dmTime, ttl, engine, wants, budget, health, beat, triggers, stops, edits, slips, misses, exposed, overran>>

Listen ==
    /\ engine = "starting" /\ clears = {} /\ engine' = "up"
    /\ UNCHANGED <<dmTime, ttl, wants, budget, health, beat, clears, armed, triggers,
                   cleared, dmFaults, stops, edits, slips, misses, exposed, overran>>

\* SIGTERM: no further heartbeat starts, those in flight go on, the active owners are cleared.
Shutdown ==
    /\ engine = "up" /\ stops < MaxStops /\ stops' = stops + 1
    /\ engine' = "stopping" /\ clears' = IF deadManEnabled THEN activeOwners ELSE {}
    /\ misses' = [o \in DmOwner |-> 2]
    /\ UNCHANGED <<dmTime, ttl, wants, budget, health, beat, armed, triggers, cleared, dmFaults, edits, slips, exposed, overran>>

\* Arms the exchange took whose answer this process will not record.
Unrecorded == {beat[b].for : b \in {c \in Beat : beat[c].st = "armed"}}
Slip(owners) == [o \in DmOwner |-> slips[o] + (IF o \in owners THEN 1 ELSE 0)]

\* An arm outlives the interval: at the exchange, in the budget, which takes refreshes for free
\* until it ends, or in an answer the budget has yet to record.
CarriedOver(o) ==
    \/ armed[o] # 0 \/ budget[o].until > dmTime + 1
    \/ \E b \in Beat : beat[b].st = "armed" /\ beat[b].for = {o}

\* process.exit once every owner is cleared, or a crash at any point.
Exit ==
    /\ \/ engine = "stopping" /\ clears = {} /\ UNCHANGED stops
       \/ engine # "down" /\ stops < MaxStops /\ stops' = stops + 1
    /\ engine' = "down" /\ Process /\ clears' = {}
    /\ slips' = Slip(UNION Unrecorded) /\ misses' = [o \in DmOwner |-> 2]
    /\ UNCHANGED <<dmTime, ttl, wants, budget, armed, triggers, cleared, dmFaults, edits, overran>>

\* A schedule that expires cancels the owner's orders and counts as one of the day's triggers.
Expires(o, now) == armed[o] # 0 /\ armed[o] <= now

\* An interval passes: schedules expire, then the timer starts a heartbeat over the owners
\* that are active now.
IntervalPasses ==
    /\ dmTime < MaxTime /\ dmTime' = dmTime + 1
    /\ \A b \in Beat : beat[b] # NoBeat => dmTime < beat[b].at + MaxLag
    /\ armed' = [o \in DmOwner |-> IF Expires(o, dmTime + 1) THEN 0 ELSE armed[o]]
    /\ triggers' = [o \in DmOwner |-> [triggers[o] EXCEPT ![DmDay(dmTime + 1)] =
                        @ + (IF Expires(o, dmTime + 1) THEN 1 ELSE 0)]]
    /\ slips' = IF DmDay(dmTime + 1) = DmDay(dmTime) THEN slips ELSE Slip({o \in DmOwner : CarriedOver(o)})
    /\ misses' = Missed(UNION {beat[b].todo : b \in Beat}, 1)
    /\ overran' = [o \in DmOwner |-> overran[o] \/ \E b \in Beat : o \in beat[b].todo /\ beat[b].at + ttl <= dmTime + 1]
    /\ IF engine = "up" /\ deadManEnabled
       THEN LET b == CHOOSE c \in Beat : beat[c] = NoBeat
            IN  /\ \E c \in Beat : beat[c] = NoBeat
                /\ beat' = [beat EXCEPT ![b] = IF activeOwners = {} THEN NoBeat
                                ELSE [NoBeat EXCEPT !.at = dmTime + 1, !.todo = activeOwners, !.st = "next"]]
       ELSE UNCHANGED beat
    /\ UNCHANGED <<ttl, engine, wants, budget, health, clears, cleared, dmFaults, stops, edits, exposed>>

\* --- deadManHeartbeat, one owner at a time ---

\* The pass over o is over: its outcome goes to the health tracker.
Pass(b, o, ok) ==
    /\ health' = [health EXCEPT ![o] = healthRecord(@, ok)]
    /\ exposed' = [exposed EXCEPT ![o] = IF ok THEN @ ELSE @ + 1]
    /\ beat' = [beat EXCEPT ![b] =
           LET left == beat[b].todo \ {o}
           IN  IF left = {} THEN NoBeat ELSE [NoBeat EXCEPT !.at = beat[b].at, !.todo = left, !.st = "next"]]

\* Mutant: a pass the budget skips is not reported to the health tracker.
BeatDecide_SkipUnreported(b, o) ==
    /\ beat[b].st = "next" /\ o \in beat[b].todo
    /\ IF decideBudget(budget[o], beat[b].at) = "skip"
       THEN /\ exposed' = [exposed EXCEPT ![o] = @ + 1] /\ misses' = Missed({o}, 1)
            /\ beat' = [beat EXCEPT ![b] = NoBeat] /\ UNCHANGED health
       ELSE /\ beat' = [beat EXCEPT ![b].for = {o}, ![b].st = "sent", ![b].at = beat[b].at,
                            ![b].counts = decideBudget(budget[o], beat[b].at) = "counts"]
            /\ UNCHANGED <<health, exposed, misses>>
    /\ UNCHANGED <<dmTime, ttl, engine, wants, budget, clears, armed, triggers, cleared, dmFaults, stops, edits, slips, overran>>
BeatDecide(b, o) ==
    /\ beat[b].st = "next" /\ o \in beat[b].todo
    /\ IF decideBudget(budget[o], beat[b].at) = "skip"
       THEN Pass(b, o, FALSE) /\ misses' = Missed({o}, 1)
       ELSE /\ beat' = [beat EXCEPT ![b].for = {o}, ![b].st = "sent",
                            ![b].counts = decideBudget(budget[o], beat[b].at) = "counts"]
            /\ UNCHANGED <<health, exposed, misses>>
    /\ UNCHANGED <<dmTime, ttl, engine, wants, budget, clears, armed, triggers, cleared, dmFaults, stops, edits, slips, overran>>

\* The exchange takes the arm; its answer may be lost, and the executor then says false.
BeatArm(b, o) ==
    LET lost == dmFaults' # dmFaults
    IN  /\ beat[b].st = "sent" /\ beat[b].for = {o} /\ beat[b].at + ttl > dmTime
        /\ dmFaults' \in {dmFaults} \cup (IF dmFaults < MaxDmFaults THEN {dmFaults + 1} ELSE {})
        /\ armed' = [armed EXCEPT ![o] = beat[b].at + ttl]
        /\ slips' = IF lost \/ dmTime > beat[b].at THEN Slip({o}) ELSE slips
        /\ misses' = IF lost \/ dmTime > beat[b].at \/ engine # "up" \/ o \notin activeOwners THEN Missed({o}, Max({1, dmTime - beat[b].at}))
                     ELSE [misses EXCEPT ![o] = 0]
        /\ exposed' = [exposed EXCEPT ![o] = 0]
        /\ beat' = [beat EXCEPT ![b].st = IF lost THEN "failed" ELSE "armed"]
        /\ UNCHANGED <<dmTime, ttl, engine, wants, budget, health, clears, triggers, cleared, stops, edits, overran>>

\* No client for the owner, or the call fails before the exchange takes it.
BeatFails(b, o) ==
    /\ beat[b].st = "sent" /\ beat[b].for = {o}
    /\ \/ dmFaults < MaxDmFaults /\ dmFaults' = dmFaults + 1
       \/ beat[b].at + ttl <= dmTime /\ UNCHANGED dmFaults
    /\ Pass(b, o, FALSE) /\ misses' = Missed({o}, 1)
    /\ UNCHANGED <<dmTime, ttl, engine, wants, budget, clears, armed, triggers, cleared, stops, edits, slips, overran>>

\* The call returns: the budget records an arm that was answered, and only that.
BeatRecord(b, o) ==
    /\ beat[b].st \in {"armed", "failed"} /\ beat[b].for = {o}
    /\ budget' = IF beat[b].st = "failed" THEN budget
                 ELSE [budget EXCEPT ![o] = nextBudget(@, beat[b].at, beat[b].at + ttl, beat[b].counts)]
    /\ slips' = IF beat[b].st = "armed" /\ DmDay(beat[b].at) # DmDay(dmTime) THEN Slip({o}) ELSE slips
    /\ Pass(b, o, beat[b].st = "armed")
    /\ UNCHANGED <<dmTime, ttl, engine, wants, clears, armed, triggers, cleared, dmFaults, stops, edits, misses, overran>>

\* POST, PATCH and DELETE /strategies, which leave the exchange's schedule as it is.
Edit(o, w) ==
    /\ engine \in {"up", "stopping"} /\ edits < MaxEdits /\ edits' = edits + 1
    /\ w # wants[o] /\ wants' = [wants EXCEPT ![o] = w]
    /\ misses' = [misses EXCEPT ![o] = 2]
    /\ UNCHANGED <<dmTime, ttl, engine, budget, health, beat, clears, armed, triggers, cleared, dmFaults, stops, slips, exposed, overran>>

DmNext ==
    \/ Start \/ Listen \/ Shutdown \/ Exit \/ IntervalPasses
    \/ \E o \in DmOwner : deadManClearAll(o) \/ \E w \in {"deadMan", "plain", "none"} : Edit(o, w)
    \/ \E b \in Beat, o \in DmOwner :
           BeatDecide(b, o) \/ BeatArm(b, o) \/ BeatFails(b, o) \/ BeatRecord(b, o)
DmSpec == DmInit /\ [][DmNext]_dmVars

-----------------------------------------------------------------------------

\* The exchange's triggers of one day stay within the budget of counting arms, which a
\* restart does not reset, but for the arms taken late or not recorded in their day and
\* those in effect at midnight: refreshing them is free, also after a shutdown cleared them.
\* A heartbeat has no deadline; once one was not done with an owner when the TTL it arms for
\* had run out, the budget learns of that owner's arms too late to bound anything.
TriggersWithinBudget == \A o \in DmOwner : ~overran[o] =>
    \A d \in DOMAIN triggers[o] : triggers[o][d] <= MaxPerDay + slips[o]

\* The TTL outlives a missed heartbeat: the switch fires for an owner that the engine serves
\* only after two passes failed, were skipped or outlasted their interval since its last arm
\* in time, however the calls of overlapping heartbeats are reordered.
OneMissTolerated == [][\A o \in DmOwner : triggers'[o] # triggers[o] => misses'[o] = 2]_dmVars

\* An owner whose switch stays unarmed is alerted: failures are counted by whatever order
\* the heartbeats end in, so those in flight with the last arm may delay the alert by a
\* pass on either side of it.
ExposureIsAlerted == \A o \in DmOwner :
    exposed[o] >= AlertAfter + 2 * MaxLag => health[o].alerting

=============================================================================
