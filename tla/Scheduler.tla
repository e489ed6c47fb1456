----------------------------- MODULE Scheduler -----------------------------
(***************************************************************************)
(* server/src/engine/scheduler.ts: the engine's ticks over the strategies  *)
(* that open positions at market - DCA, TWAP, scheduled and conditional -  *)
(* with the SQLite stores they persist to, the placer they await, and the  *)
(* HTTP requests that create, pause, resume and delete strategies.         *)
(*                                                                         *)
(* setInterval starts a tick although earlier ones still await the         *)
(* exchange.  Each tick works from the copy of the strategies it read when *)
(* it began; between two awaits its code runs alone.  `clock` counts timer *)
(* periods.  An order is immediate-or-cancel and carries a cloid made of   *)
(* the strategy and a slot; the exchange refuses a cloid it has filled.    *)
(* Answers can be lost, and the process can crash at any point, between    *)
(* two writes of one record too, and start again.                          *)
(***************************************************************************)
EXTENDS Integers, Sequences, FiniteSets, FiniteSetsExt

CONSTANTS
    Strategy, Owner,
    KindOf, OwnerOf,    \* strategy -> its kind and owner
    Usdc,               \* strategy -> notional of one order (amount, slice or size)
    FillSizes,          \* strategy -> notionals an order may turn out to trade
    Interval, RunAt,    \* strategy -> periods between orders; time of a scheduled one
    Slices,             \* strategy -> slices of a TWAP
    MaxTotal,           \* strategy -> maxTotalUsdc of a DCA, 0 if not given
    Walk,               \* the strategies in the order a tick visits them
    NotionalCap,        \* strategy -> its coin's cap, or maxNotionalUsdc
    DailyMax,           \* dailyMaxNotionalUsdc
    GlobalKill,         \* GLOBAL_KILL
    Tick,               \* bounds the ticks in flight together
    DayLen, MaxClock,   \* periods in a day; bound on the clock
    MaxFaults           \* bound on lost answers and crashes

Kind == {"dca", "twap", "scheduled", "conditional"}

ASSUME SchedulerAssumption ==
    /\ KindOf \in [Strategy -> Kind]
    /\ OwnerOf \in [Strategy -> Owner]
    /\ Usdc \in [Strategy -> Nat \ {0}]
    /\ FillSizes \in [Strategy -> SUBSET (Nat \ {0})]
    /\ Interval \in [Strategy -> Nat \ {0}]
    /\ RunAt \in [Strategy -> Nat]
    /\ Slices \in [Strategy -> Nat \ {0}]
    /\ MaxTotal \in [Strategy -> Nat]
    /\ Walk \in Seq(Strategy)
    /\ NotionalCap \in [Strategy -> Nat]
    /\ DailyMax \in Nat
    /\ GlobalKill \in BOOLEAN
    /\ DayLen \in Nat \ {0} /\ MaxClock \in Nat /\ MaxFaults \in Nat

VARIABLES
    strat,          \* strategy -> its row of the strategies table
    activity,       \* owner -> day -> notional in the activity log
    orders,         \* exchange: the orders that traded
    clock,
    pc, began, at,  \* tick -> where it is, its `now`, its position in Walk
    snap,           \* tick -> the rows it read and has yet to act on
    got,            \* tick -> notional the placer answered, 0 for not ok
    faults,
    torn,           \* history: strategy -> crashes in the middle of its record
    stray           \* history: strategy -> orders traded since it last ran

vars == <<strat, activity, orders, clock, pc, began, at, snap, got, faults, torn, stray>>
inFlight == <<pc, began, at, snap, got>>

\* A row that was never inserted is "new", a deleted one "deleted": ids are not reused.
Stored == {"running", "paused", "completed"}
Row == [status : Stored \cup {"new", "deleted"}, nextRunAt : Nat, filled : Nat, slicesDone : Nat]
NoRow(status) == [status |-> status, nextRunAt |-> 0, filled |-> 0, slicesDone |-> 0]
NoRows == [s \in Strategy |-> NoRow("new")]

OneShot(s) == KindOf[s] \in {"scheduled", "conditional"}

Day(now) == now \div DayLen

SchedulerInit ==
    /\ strat = NoRows
    /\ activity = [o \in Owner |-> [d \in 0..Day(MaxClock) |-> 0]]
    /\ orders = {}
    /\ clock = 1
    /\ pc = [t \in Tick |-> "idle"]
    /\ began = [t \in Tick |-> 0]
    /\ at = [t \in Tick |-> 0]
    /\ snap = [t \in Tick |-> NoRows]
    /\ got = [t \in Tick |-> 0]
    /\ faults = 0
    /\ torn = [s \in Strategy |-> 0]
    /\ stray = [s \in Strategy |-> 0]

Fault == faults < MaxFaults /\ faults' = faults + 1

------------------------------------------------------------------------------
(* Which strategies a tick acts on. *)

dueDca(s, row, now) ==
    /\ KindOf[s] = "dca"
    /\ row.nextRunAt <= now
    /\ MaxTotal[s] = 0 \/ row.filled < MaxTotal[s]

\* Mutant: the slices are left to the completed status alone.
dueTwap_NoSliceCheck(s, row, now) == KindOf[s] = "twap" /\ row.nextRunAt <= now
dueTwap(s, row, now) ==
    /\ KindOf[s] = "twap"
    /\ row.nextRunAt <= now
    /\ row.slicesDone < Slices[s]

scheduledDue(s, now) == KindOf[s] = "scheduled" /\ now >= RunAt[s]

\* Mutant: paused and completed strategies are considered too.
Due_AnyStatus(s, row, now) ==
    /\ row.status \in Stored
    /\ \/ dueDca(s, row, now) \/ dueTwap(s, row, now) \/ scheduledDue(s, now)
       \/ KindOf[s] = "conditional"
\* Whether a conditional's mark has crossed its trigger is left open.
Due(s, row, now) ==
    /\ row.status = "running"
    /\ \/ dueDca(s, row, now) \/ dueTwap(s, row, now) \/ scheduledDue(s, now)
       \/ KindOf[s] = "conditional"

notionalSince(o, day) == MapThenSumSet(LAMBDA d : activity[o][d], day..Day(MaxClock))

withinCaps(s) == ~GlobalKill /\ Usdc[s] <= NotionalCap[s]

Pending(t, s) == snap[t][s].status # "new"

\* The guards before an order, read when the tick comes to the strategy.
Eligible(t, n) ==
    LET s == Walk[n] IN
    /\ Pending(t, s)
    /\ withinCaps(s)
    /\ notionalSince(OwnerOf[s], Day(began[t])) + Usdc[s] <= DailyMax

\* Mutant: the slot is the tick's own time.
slotOf_PerTick(s, row, now) == now
\* cloidFor keys a recurring order by its due time; cloidForKey gives the
\* one-shot kinds a single slot.
slotOf(s, row, now) == IF OneShot(s) THEN 0 ELSE row.nextRunAt

------------------------------------------------------------------------------
(* A tick. *)

current(t) == Walk[at[t]]

\* listAll, and the strategies due at the tick's time.
TickBegin(t) ==
    /\ pc[t] = "idle"
    /\ clock < MaxClock
    /\ clock' = clock + 1
    /\ pc' = [pc EXCEPT ![t] = "walk"]
    /\ began' = [began EXCEPT ![t] = clock']
    /\ at' = [at EXCEPT ![t] = 1]
    /\ snap' = [snap EXCEPT ![t] =
                    [s \in Strategy |->
                        IF Due(s, strat[s], clock') THEN strat[s] ELSE NoRow("new")]]
    /\ UNCHANGED <<strat, activity, orders, got, faults, torn, stray>>

\* What lies between this tick's position and n needs no order, or is a
\* conditional whose mark has not crossed.
PassedOver(t, n) ==
    \A m \in at[t]..(n - 1) : Eligible(t, m) => KindOf[Walk[m]] = "conditional"

\* Move on to position n of the walk; rows behind it are not read again.
Goto(t, n) ==
    /\ at' = [at EXCEPT ![t] = n]
    /\ snap' = [snap EXCEPT ![t] = [s \in Strategy |->
                    IF s \in {Walk[m] : m \in n..Len(Walk)} THEN @[s] ELSE NoRow("new")]]

PlaceBegin(t) ==
    /\ pc[t] = "walk"
    /\ \E n \in at[t]..Len(Walk) : Eligible(t, n) /\ PassedOver(t, n) /\ Goto(t, n)
    /\ pc' = [pc EXCEPT ![t] = "placing"]
    /\ UNCHANGED <<strat, activity, orders, clock, began, got, faults, torn, stray>>

Taken(s, slot) == \E o \in orders : o.strat = s /\ o.slot = slot

Answer(t, n) ==
    /\ pc' = [pc EXCEPT ![t] = "answered"]
    /\ got' = [got EXCEPT ![t] = n]
    /\ UNCHANGED <<strat, activity, clock, began, at, snap, torn>>

\* The order trades at the exchange; its answer arrives, or is lost on the way.
OrderFills(t) ==
    LET s    == current(t)
        slot == slotOf(s, snap[t][s], began[t])
    IN  /\ pc[t] = "placing"
        /\ ~Taken(s, slot)
        /\ \E n \in FillSizes[s] :
             /\ orders' = orders \cup
                  {[strat |-> s, slot |-> slot, usdc |-> n, day |-> Day(began[t])]}
             /\ \/ Answer(t, n) /\ UNCHANGED faults
                \/ Answer(t, 0) /\ Fault
        /\ stray' = IF strat[s].status = "running" THEN stray ELSE [stray EXCEPT ![s] = @ + 1]

\* No client, no price, no match, or a cloid the exchange refuses.
PlaceFails(t) ==
    /\ pc[t] = "placing"
    /\ Answer(t, 0)
    /\ UNCHANGED <<orders, faults, stray>>

\* The writes of a filled order, in order; each is a commit of its own.
Writes(s) ==
    IF OneShot(s) THEN <<"activity", "trigger">>
    ELSE IF KindOf[s] = "twap" THEN <<"fill", "slice", "complete", "activity">>
    ELSE <<"fill", "activity">>

\* The row after the writes in done; an UPDATE of a deleted row does nothing.
rowAfter(s, n, now, done) ==
    LET row    == strat[s]
        slices == IF "slice" \in done THEN row.slicesDone + 1 ELSE row.slicesDone
        ends   == \/ "trigger" \in done
                  \/ "complete" \in done /\ slices >= Slices[s]
    IN  IF row.status \notin Stored THEN row
        ELSE [status     |-> IF ends THEN "completed" ELSE row.status,
              nextRunAt  |-> IF "fill" \in done THEN now + Interval[s] ELSE row.nextRunAt,
              filled     |-> IF "fill" \in done THEN row.filled + n ELSE row.filled,
              slicesDone |-> slices]

Persist(t, k) ==
    LET s    == current(t)
        done == {Writes(s)[m] : m \in 1..k}
    IN  /\ strat' = [strat EXCEPT ![s] = rowAfter(s, got[t], began[t], done)]
        /\ activity' = IF "activity" \in done
                       THEN [activity EXCEPT ![OwnerOf[s]][Day(began[t])] = @ + got[t]]
                       ELSE activity

\* recordFill or recordTrigger, and the activity log, after an ok answer.
Record(t) ==
    /\ pc[t] = "answered"
    /\ IF got[t] > 0 THEN Persist(t, Len(Writes(current(t)))) ELSE UNCHANGED <<strat, activity>>
    /\ pc' = [pc EXCEPT ![t] = "walk"]
    /\ Goto(t, at[t] + 1)
    /\ got' = [got EXCEPT ![t] = 0]
    /\ UNCHANGED <<orders, clock, began, faults, torn, stray>>

\* The ticks in ts are gone, with everything they held.
Drop(ts) ==
    /\ pc' = [t \in Tick |-> IF t \in ts THEN "idle" ELSE pc[t]]
    /\ began' = [t \in Tick |-> IF t \in ts THEN 0 ELSE began[t]]
    /\ at' = [t \in Tick |-> IF t \in ts THEN 0 ELSE at[t]]
    /\ snap' = [t \in Tick |-> IF t \in ts THEN NoRows ELSE snap[t]]
    /\ got' = [t \in Tick |-> IF t \in ts THEN 0 ELSE got[t]]

\* Every strategy was visited, or the mark of a conditional could not be had,
\* which ends the tick for all strategies after it.
TickEnd(t) ==
    /\ pc[t] = "walk"
    /\ \/ PassedOver(t, Len(Walk) + 1)
       \/ \E n \in at[t]..Len(Walk) :
            /\ PassedOver(t, n)
            /\ KindOf[Walk[n]] = "conditional" /\ Pending(t, Walk[n])
    /\ Drop({t})
    /\ UNCHANGED <<strat, activity, orders, clock, faults, torn, stray>>

\* The process crashes, possibly in the middle of one record, and restarts.
Crash ==
    /\ Fault
    /\ Drop(Tick)
    /\ \/ UNCHANGED <<strat, activity, torn>>
       \/ \E t \in Tick :
            /\ pc[t] = "answered" /\ got[t] > 0
            /\ \E k \in 1..(Len(Writes(current(t))) - 1) : Persist(t, k)
            /\ torn' = [torn EXCEPT ![current(t)] = @ + 1]
    /\ UNCHANGED <<orders, clock, stray>>

------------------------------------------------------------------------------
(* The owners' requests (http/app.ts). *)

Create(s) ==
    /\ strat[s].status = "new"
    /\ strat' = [strat EXCEPT ![s].status = "running",
                              ![s].nextRunAt = IF OneShot(s) THEN 0 ELSE clock]
    /\ UNCHANGED <<activity, orders, clock, inFlight, faults, torn, stray>>

\* Neither the old nor the new status is checked: a completed strategy runs again.
PatchStatus(s, status) ==
    /\ strat[s].status \in Stored \ {status}
    /\ strat' = [strat EXCEPT ![s].status = status]
    /\ stray' = [stray EXCEPT ![s] = IF status = "running" THEN 0 ELSE @]
    /\ UNCHANGED <<activity, orders, clock, inFlight, faults, torn>>

Delete(s) ==
    /\ strat[s].status \in Stored
    /\ strat' = [strat EXCEPT ![s] = NoRow("deleted")]
    /\ UNCHANGED <<activity, orders, clock, inFlight, faults, torn, stray>>

KillSwitch(o) ==
    /\ strat' = [s \in Strategy |->
                    IF OwnerOf[s] = o /\ strat[s].status = "running"
                    THEN [strat[s] EXCEPT !.status = "paused"] ELSE strat[s]]
    /\ UNCHANGED <<activity, orders, clock, inFlight, faults, torn, stray>>

SchedulerNext ==
    \/ \E t \in Tick : \/ TickBegin(t) \/ PlaceBegin(t) \/ OrderFills(t) \/ PlaceFails(t)
                       \/ Record(t) \/ TickEnd(t)
    \/ Crash
    \/ \E s \in Strategy : \/ Create(s) \/ Delete(s)
                           \/ \E status \in {"running", "paused"} : PatchStatus(s, status)
    \/ \E o \in Owner : KillSwitch(o)

SchedulerSpec == SchedulerInit /\ [][SchedulerNext]_vars

------------------------------------------------------------------------------
(* Properties. *)

OrdersOf(s) == {o \in orders : o.strat = s}

\* No strategy trades more orders than its owner asked for, although overlapping
\* ticks act on old rows, lost answers are retried and owners restart completed
\* strategies: a one-shot trades once, a TWAP its slices - and one more for each
\* crash between the statements of recordFill, which are not a transaction.
NeverOverbuys ==
    \A s \in Strategy :
        /\ OneShot(s) => Cardinality(OrdersOf(s)) <= 1
        /\ KindOf[s] = "twap" => Cardinality(OrdersOf(s)) <= Slices[s] + torn[s]

\* Pausing, killing or deleting a strategy lets at most one more order through,
\* however many ticks already hold a copy of it in which it runs.
StopLetsOneThrough == \A s \in Strategy : stray[s] <= 1

\* A stored strategy's due time and total never go back, whichever of the ticks
\* in flight records last.
RecordsMoveForward ==
    [][\A s \in Strategy :
          strat'[s].status \in Stored =>
             /\ strat'[s].nextRunAt >= strat[s].nextRunAt
             /\ strat'[s].filled >= strat[s].filled
             /\ strat'[s].filled > strat[s].filled =>
                   strat'[s].nextRunAt > strat[s].nextRunAt]_vars

\* risk/guards.ts: "per-owner daily spend (notional) cap; enforced by the scheduler".
\* What an owner's strategies trade on the ticks of one day stays within the cap.
DailySpendCapHeld ==
    \A o \in Owner, d \in 0..Day(MaxClock) :
        MapThenSumSet(LAMBDA x : x.usdc,
                      {x \in orders : OwnerOf[x.strat] = o /\ x.day = d}) <= DailyMax
=============================================================================
