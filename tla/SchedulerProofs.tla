--------------------------- MODULE SchedulerProofs ---------------------------
(***************************************************************************)
(* Theorems about the engine's ticks, for every set of strategies, owners  *)
(* and overlapping ticks, every order of the walk, every interval, number  *)
(* of slices and fill size, and every number of crashes and lost answers.  *)
(*                                                                         *)
(* What keeps overlapping ticks from trading twice is the cloid: the slot  *)
(* is the due time of the row the tick copied.  The invariant says how the *)
(* copies, the row and the orders relate: a copy is as new as its row, or  *)
(* its slot is taken.  The last part is about the resting grid, whose      *)
(* ticks trust the open orders they have read.                             *)
(***************************************************************************)
EXTENDS Scheduler, GridLimit, FiniteSetTheorems, TLAPS

SchedulerType ==
    /\ strat \in [Strategy -> Row]
    /\ orders \subseteq [strat : Strategy, slot : Nat, usdc : Nat, day : Nat]
    /\ IsFiniteSet(orders)
    /\ clock \in Nat
    /\ pc \in [Tick -> {"idle", "walk", "placing", "answered"}]
    /\ began \in [Tick -> Nat] /\ at \in [Tick -> Nat] /\ got \in [Tick -> Nat]
    /\ snap \in [Tick -> [Strategy -> Row]]
    /\ torn \in [Strategy -> Nat] /\ stray \in [Strategy -> Nat]

\* Where a tick is, it holds the row it acts on; a tick that is over holds nothing.
TickOK(t) ==
    /\ pc[t] = "idle" => \A s \in Strategy : ~Pending(t, s)
    /\ pc[t] = "walk" => at[t] >= 1
    /\ pc[t] \in {"placing", "answered"} => at[t] \in 1..Len(Walk) /\ Pending(t, current(t))
    /\ got[t] > 0 => pc[t] = "answered"

\* A row that a tick holds was due when the tick began.
SnapDue(t, s) ==
    Pending(t, s) =>
        /\ KindOf[s] = "twap" => snap[t][s].slicesDone < Slices[s]
        /\ ~OneShot(s) => snap[t][s].nextRunAt <= began[t]

\* A one-shot keeps the one slot.
OneSlot(s) ==
    OneShot(s) =>
        /\ strat[s].nextRunAt = 0
        /\ \A t \in Tick : snap[t][s].nextRunAt = 0
        /\ \A o \in OrdersOf(s) : o.slot = 0

\* The exchange fills a cloid once.
SlotOnce == \A o, p \in orders : o.strat = p.strat /\ o.slot = p.slot => o = p

\* A strategy not yet created has no orders and is in no tick's hands.
Unborn(s) ==
    strat[s].status = "new" =>
        /\ strat[s].nextRunAt = 0 /\ OrdersOf(s) = {} /\ stray[s] = 0
        /\ \A t \in Tick : ~Pending(t, s)

\* Copies of a stored row are no newer than the row, and the slot of an older one
\* is taken; the orders lie at or before the row's slot, and the slices done count
\* all but the one at that slot.
RowLeads(s) ==
    strat[s].status \in Stored =>
        /\ \A o \in OrdersOf(s) : o.slot <= strat[s].nextRunAt
        /\ \A t \in Tick : Pending(t, s) =>
              \/ snap[t][s].nextRunAt = strat[s].nextRunAt
                 /\ snap[t][s].slicesDone = strat[s].slicesDone
              \/ snap[t][s].nextRunAt < strat[s].nextRunAt /\ Taken(s, snap[t][s].nextRunAt)
        /\ KindOf[s] = "twap" =>
              Cardinality(OrdersOf(s)) <=
                 strat[s].slicesDone + torn[s]
                    + (IF Taken(s, strat[s].nextRunAt) THEN 1 ELSE 0)

\* Of two copies of different age the older one's slot is taken.
SnapsOrdered(s) ==
    \A t, u \in Tick :
        Pending(t, s) /\ Pending(u, s) /\ snap[t][s].nextRunAt < snap[u][s].nextRunAt
            => Taken(s, snap[t][s].nextRunAt)

\* A copy whose slot is free has seen every order.
SnapCounts(s) ==
    KindOf[s] = "twap" =>
        \A t \in Tick :
            Pending(t, s) /\ ~Taken(s, snap[t][s].nextRunAt)
               => Cardinality(OrdersOf(s)) <= snap[t][s].slicesDone + torn[s]

\* An order that filled is recorded against the slot it was placed for.
FillIsCurrent(t) ==
    got[t] > 0 =>
        LET s == current(t) IN
        /\ Taken(s, snap[t][s].nextRunAt)
        /\ strat[s].status \in Stored => strat[s].nextRunAt = snap[t][s].nextRunAt

FillsDistinct ==
    \A t, u \in Tick :
        got[t] > 0 /\ got[u] > 0 /\ t # u /\ current(t) = current(u)
            => snap[t][current(t)].nextRunAt # snap[u][current(u)].nextRunAt

\* Once an order got through after the stop, no copy can place another.
StrayOnce(s) ==
    /\ stray[s] <= 1
    /\ stray[s] > 0 =>
          /\ strat[s].status # "running"
          /\ \A t \in Tick : Pending(t, s) => Taken(s, snap[t][s].nextRunAt)

TwapBound(s) ==
    KindOf[s] = "twap" => Cardinality(OrdersOf(s)) <= Slices[s] + torn[s]

StrategyOK(s) ==
    /\ OneSlot(s) /\ Unborn(s) /\ RowLeads(s) /\ SnapsOrdered(s) /\ SnapCounts(s)
    /\ StrayOnce(s) /\ TwapBound(s)

SchedulerInv ==
    /\ SchedulerType
    /\ SlotOnce
    /\ \A s \in Strategy : StrategyOK(s)
    /\ \A t \in Tick : TickOK(t) /\ FillIsCurrent(t) /\ \A s \in Strategy : SnapDue(t, s)
    /\ FillsDistinct

------------------------------------------------------------------------------
(* Lemmas about the rows. *)

LEMMA WalkVisits == \A n \in 1..Len(Walk) : Walk[n] \in Strategy
BY SchedulerAssumption

LEMMA DayType ==
    ASSUME NEW m \in Nat
    PROVE  Day(m) \in Nat
<1>1. DayLen \in Nat \ {0}
  BY SchedulerAssumption
<1> QED BY <1>1, Z3 DEF Day

LEMMA NoRowType == \A x \in Stored \cup {"new", "deleted"} : NoRow(x) \in Row
BY DEF NoRow, Row

\* The ways a step may write the row of a strategy: its status among the stored
\* ones, the advance to the next slot after a fill, a deletion, a creation.
RowKept(s) ==
    /\ strat'[s].nextRunAt = strat[s].nextRunAt
    /\ strat'[s].slicesDone = strat[s].slicesDone
    /\ strat'[s].status = strat[s].status \/ {strat[s].status, strat'[s].status} \subseteq Stored

RowAdvances(s) ==
    /\ ~OneShot(s)
    /\ Taken(s, strat[s].nextRunAt)
    /\ strat[s].status \in Stored /\ strat'[s].status \in Stored
    /\ strat'[s].nextRunAt > strat[s].nextRunAt
    /\ KindOf[s] = "twap" =>
          strat'[s].slicesDone + torn'[s] >= strat[s].slicesDone + torn[s] + 1

RowDeleted(s) == strat'[s] = NoRow("deleted")

RowCreated(s) ==
    /\ strat[s].status = "new" /\ strat'[s].status = "running"
    /\ OneShot(s) => strat'[s].nextRunAt = 0

\* The counter of stray orders is kept while the strategy is not started, else cleared.
StrayKept(s) ==
    \/ stray'[s] = 0
    \/ stray'[s] = stray[s] /\ (strat'[s].status = "running" => strat[s].status \in {"running", "new"})

\* While no order trades and ticks only lose copies, writing its row in one of
\* these ways keeps what holds of a strategy.
LEMMA RowWrite ==
    ASSUME SchedulerType, SchedulerType', NEW s \in Strategy, StrategyOK(s),
           orders' = orders,
           \A t \in Tick : snap'[t][s] = snap[t][s] \/ snap'[t][s] = NoRow("new"),
           torn'[s] >= torn[s],
           StrayKept(s),
           RowKept(s) \/ RowAdvances(s) \/ RowDeleted(s) \/ RowCreated(s)
    PROVE  StrategyOK(s)'
<1>1. OrdersOf(s)' = OrdersOf(s) /\ \A n : Taken(s, n)' <=> Taken(s, n)
  BY DEF OrdersOf, Taken
<1>2. \A t \in Tick : Pending(t, s)' => Pending(t, s) /\ snap'[t][s] = snap[t][s]
  BY DEF Pending, NoRow
<1>t. /\ strat[s] \in Row /\ strat'[s] \in Row
      /\ torn[s] \in Nat /\ torn'[s] \in Nat /\ stray[s] \in Nat /\ stray'[s] \in Nat
      /\ \A t \in Tick : snap[t][s] \in Row
      /\ Cardinality(OrdersOf(s)) \in Nat
  <2>1. IsFiniteSet(OrdersOf(s))
    BY FS_Subset DEF OrdersOf, SchedulerType
  <2> QED BY <2>1, FS_CardinalityType DEF SchedulerType
<1>3. OneSlot(s)'
  BY <1>1 DEF StrategyOK, OneSlot, RowKept, RowAdvances, RowDeleted, RowCreated, NoRow
<1>4. Unborn(s)'
  BY <1>1, <1>2, <1>t DEF StrategyOK, Unborn, RowKept, RowAdvances, RowDeleted, RowCreated, NoRow,
                          Stored, StrayKept
<1>5. RowLeads(s)'
  <2>1. CASE RowKept(s)
    BY <1>1, <1>2, <1>t, <2>1 DEF StrategyOK, RowLeads, RowKept, Row
  <2>2. CASE RowAdvances(s)
    <3>1. \A o \in OrdersOf(s) : o.slot <= strat[s].nextRunAt /\ o.slot \in Nat
      BY <2>2 DEF StrategyOK, RowLeads, RowAdvances, OrdersOf, SchedulerType
    <3>2. \A o \in OrdersOf(s) : o.slot <= strat'[s].nextRunAt /\ o.slot # strat'[s].nextRunAt
      BY <1>t, <2>2, <3>1 DEF RowAdvances, Row
    <3>3. ~Taken(s, strat'[s].nextRunAt)
      BY <3>2 DEF Taken, OrdersOf
    <3>4. ASSUME NEW t \in Tick, Pending(t, s)'
          PROVE  /\ snap'[t][s].nextRunAt < strat'[s].nextRunAt
                 /\ Taken(s, snap'[t][s].nextRunAt)
      BY <1>2, <1>t, <2>2, <3>4 DEF StrategyOK, RowLeads, RowAdvances, Row
    <3>5. KindOf[s] = "twap" =>
             Cardinality(OrdersOf(s)) <= strat'[s].slicesDone + torn'[s]
      BY <1>t, <2>2 DEF StrategyOK, RowLeads, RowAdvances, Row
    <3> QED BY <1>1, <1>t, <3>2, <3>3, <3>4, <3>5 DEF RowLeads, Row
  <2>3. CASE RowDeleted(s)
    BY <2>3 DEF RowDeleted, RowLeads, NoRow, Stored
  <2>4. CASE RowCreated(s)
    <3>1. OrdersOf(s) = {} /\ \A t \in Tick : ~Pending(t, s)'
      BY <1>2, <2>4 DEF StrategyOK, Unborn, RowCreated
    <3>2. Cardinality(OrdersOf(s)) = 0
      BY <3>1, FS_EmptySet
    <3> QED BY <1>1, <1>t, <3>1, <3>2 DEF RowLeads, Row
  <2> QED BY <2>1, <2>2, <2>3, <2>4
<1>6. SnapsOrdered(s)'
  BY <1>1, <1>2 DEF StrategyOK, SnapsOrdered
<1>7. SnapCounts(s)'
  BY <1>1, <1>2, <1>t DEF StrategyOK, SnapCounts, Row
<1>8. StrayOnce(s)'
  BY <1>1, <1>2, <1>t DEF StrategyOK, StrayOnce, StrayKept, Unborn, RowCreated
<1>9. TwapBound(s)'
  BY <1>1, <1>t, SchedulerAssumption DEF StrategyOK, TwapBound
<1> QED BY <1>3, <1>4, <1>5, <1>6, <1>7, <1>8, <1>9 DEF StrategyOK

------------------------------------------------------------------------------
(* A tick begins, an order trades. *)

\* The copies a new tick takes are as new as their rows.
LEMMA TickBeginStep ==
    ASSUME SchedulerInv, SchedulerType', NEW t \in Tick, TickBegin(t), NEW s \in Strategy
    PROVE  StrategyOK(s)' /\ SnapDue(t, s)'
<1>0. SchedulerType /\ StrategyOK(s) /\ TickOK(t)
  BY DEF SchedulerInv
<1>1. /\ strat' = strat /\ orders' = orders /\ torn' = torn /\ stray' = stray
      /\ clock' = clock + 1 /\ pc[t] = "idle" /\ began'[t] = clock'
      /\ \A u \in Tick : u # t => snap'[u] = snap[u]
      /\ snap'[t][s] = IF Due(s, strat[s], clock') THEN strat[s] ELSE NoRow("new")
  BY <1>0 DEF TickBegin, SchedulerType
<1>2. OrdersOf(s)' = OrdersOf(s) /\ \A n : Taken(s, n)' <=> Taken(s, n)
  BY <1>1 DEF OrdersOf, Taken
<1>t. /\ strat[s] \in Row /\ strat'[s] \in Row /\ torn[s] \in Nat
      /\ \A u \in Tick : snap[u][s] \in Row
      /\ Cardinality(OrdersOf(s)) \in Nat
  <2>1. IsFiniteSet(OrdersOf(s))
    BY <1>0, FS_Subset DEF OrdersOf, SchedulerType
  <2> QED BY <1>0, <1>1, <2>1, FS_CardinalityType DEF SchedulerType
<1>3. Pending(t, s)' => /\ snap'[t][s] = strat[s] /\ strat[s].status = "running"
                        /\ Due(s, strat[s], clock')
  BY <1>1 DEF Pending, NoRow, Due
<1>4. ASSUME NEW u \in Tick, u # t
      PROVE  snap'[u][s] = snap[u][s] /\ (Pending(u, s)' <=> Pending(u, s))
  BY <1>1, <1>4 DEF Pending
<1>5. OneSlot(s)'
  <2>1. OneShot(s) => snap'[t][s].nextRunAt = 0
    BY <1>0, <1>1 DEF StrategyOK, OneSlot, NoRow
  <2> QED BY <1>0, <1>1, <1>2, <1>4, <2>1 DEF StrategyOK, OneSlot
<1>6. Unborn(s)'
  BY <1>0, <1>1, <1>2, <1>3, <1>4 DEF StrategyOK, Unborn
<1>7. RowLeads(s)'
  BY <1>0, <1>1, <1>2, <1>3, <1>4 DEF StrategyOK, RowLeads
<1>8. SnapsOrdered(s)'
  <2> SUFFICES ASSUME NEW u \in Tick, NEW v \in Tick, Pending(u, s)', Pending(v, s)',
                      snap'[u][s].nextRunAt < snap'[v][s].nextRunAt
               PROVE  Taken(s, snap'[u][s].nextRunAt)
    BY <1>2 DEF SnapsOrdered
  <2>1. CASE u # t /\ v # t
    BY <1>0, <1>4, <2>1 DEF StrategyOK, SnapsOrdered
  <2>2. CASE u # t /\ v = t
    <3>1. Pending(u, s) /\ snap'[u][s] = snap[u][s] /\ snap'[v][s] = strat[s]
          /\ strat[s].status \in Stored
      BY <1>3, <1>4, <2>2 DEF Stored
    <3> QED BY <1>0, <1>t, <3>1 DEF StrategyOK, RowLeads, Row
  <2>3. CASE u = t /\ v # t
    <3>1. Pending(v, s) /\ snap'[v][s] = snap[v][s] /\ snap'[u][s] = strat[s]
          /\ strat[s].status \in Stored
      BY <1>3, <1>4, <2>3 DEF Stored
    <3>2. snap[v][s].nextRunAt <= strat[s].nextRunAt
      BY <1>0, <1>t, <3>1 DEF StrategyOK, RowLeads, Row
    <3> QED BY <1>t, <3>1, <3>2 DEF Row
  <2>4. CASE u = t /\ v = t
    BY <1>1, <1>3, <1>t, <2>4 DEF Row
  <2> QED BY <2>1, <2>2, <2>3, <2>4
<1>9. SnapCounts(s)'
  <2> SUFFICES ASSUME KindOf[s] = "twap", NEW u \in Tick, Pending(u, s)',
                      ~Taken(s, snap'[u][s].nextRunAt)
               PROVE  Cardinality(OrdersOf(s)) <= snap'[u][s].slicesDone + torn[s]
    BY <1>1, <1>2 DEF SnapCounts
  <2>1. CASE u # t
    BY <1>0, <1>4, <2>1 DEF StrategyOK, SnapCounts
  <2>2. CASE u = t
    <3>1. snap'[t][s] = strat[s] /\ strat[s].status \in Stored
      BY <1>3, <2>2 DEF Stored
    <3> QED BY <1>0, <1>t, <2>2, <3>1 DEF StrategyOK, RowLeads, Row
  <2> QED BY <2>1, <2>2
<1>10. StrayOnce(s)'
  BY <1>0, <1>1, <1>2, <1>3, <1>4 DEF StrategyOK, StrayOnce
<1>11. TwapBound(s)'
  BY <1>0, <1>1, <1>2 DEF StrategyOK, TwapBound
<1>12. SnapDue(t, s)'
  BY <1>1, <1>3 DEF SnapDue, Due, dueDca, dueTwap, scheduledDue, OneShot
<1> QED BY <1>5, <1>6, <1>7, <1>8, <1>9, <1>10, <1>11, <1>12 DEF StrategyOK

\* The slot of an order is the due time of the row it was placed for.
LEMMA SlotIsDueTime ==
    ASSUME SchedulerType, NEW s \in Strategy, OneSlot(s), NEW t \in Tick
    PROVE  slotOf(s, snap[t][s], began[t]) = snap[t][s].nextRunAt
BY DEF slotOf, OneSlot

\* An order that trades takes the newest slot held by any copy: from then on no
\* copy in flight can trade.
LEMMA FillStep ==
    ASSUME SchedulerInv, SchedulerType', NEW t \in Tick, OrderFills(t), NEW s \in Strategy
    PROVE  StrategyOK(s)'
<1> DEFINE me == current(t)
           slot == snap[t][me].nextRunAt
<1>0. SchedulerType /\ StrategyOK(s) /\ TickOK(t)
  BY DEF SchedulerInv
<1>1. pc[t] = "placing" /\ at[t] \in 1..Len(Walk) /\ Pending(t, me)
  BY <1>0 DEF OrderFills, TickOK
<1>2. me \in Strategy
  BY <1>1, WalkVisits DEF current
<1>3. StrategyOK(me) /\ SnapDue(t, me)
  BY <1>2 DEF SchedulerInv
<1>4. slotOf(me, snap[t][me], began[t]) = slot
  BY <1>0, <1>2, <1>3, SlotIsDueTime DEF StrategyOK
<1> HIDE DEF me, slot
<1>5. PICK n \in FillSizes[me] :
          orders' = orders \cup {[strat |-> me, slot |-> slot, usdc |-> n, day |-> Day(began[t])]}
  BY <1>4 DEF OrderFills, me
<1>6. /\ ~Taken(me, slot)
      /\ strat' = strat /\ snap' = snap /\ torn' = torn
      /\ stray' = IF strat[me].status = "running" THEN stray ELSE [stray EXCEPT ![me] = @ + 1]
  BY <1>4 DEF OrderFills, Answer, me
<1>t. /\ strat[s] \in Row /\ torn[s] \in Nat /\ stray[s] \in Nat
      /\ \A u \in Tick : snap[u][s] \in Row
      /\ IsFiniteSet(OrdersOf(s)) /\ Cardinality(OrdersOf(s)) \in Nat
  <2>1. IsFiniteSet(OrdersOf(s))
    BY <1>0, FS_Subset DEF OrdersOf, SchedulerType
  <2> QED BY <1>0, <2>1, FS_CardinalityType DEF SchedulerType
<1>p. \A u \in Tick : Pending(u, s)' <=> Pending(u, s)
  BY <1>6 DEF Pending
<1> DEFINE new == [strat |-> me, slot |-> slot, usdc |-> n, day |-> Day(began[t])]
<1>7. CASE s # me
  <2>1. OrdersOf(s)' = OrdersOf(s) /\ \A m : Taken(s, m)' <=> Taken(s, m)
    BY <1>5, <1>7 DEF OrdersOf, Taken
  <2>2. stray'[s] = stray[s]
    BY <1>0, <1>6, <1>7 DEF SchedulerType
  <2> QED BY <1>0, <1>6, <1>p, <2>1, <2>2
          DEF StrategyOK, OneSlot, Unborn, RowLeads, SnapsOrdered, SnapCounts, StrayOnce, TwapBound
<1>8. CASE s = me
  <2>1. OrdersOf(s)' = OrdersOf(s) \cup {new}
    BY <1>5, <1>8 DEF OrdersOf
  <2>2. \A m : Taken(s, m)' <=> (Taken(s, m) \/ m = slot)
    <3>1. new \in orders' /\ new.strat = s /\ new.slot = slot
      BY <1>5, <1>8
    <3>2. \A o \in orders' : o \in orders \/ o = new
      BY <1>5
    <3>3. \A o \in orders : o \in orders'
      BY <1>5
    <3> HIDE DEF new
    <3> QED BY <3>1, <3>2, <3>3 DEF Taken
  <2>3. new \notin OrdersOf(s)
    BY <1>6, <1>8 DEF OrdersOf, Taken
  <2>4. Cardinality(OrdersOf(s)') = Cardinality(OrdersOf(s)) + 1
    BY <1>t, <2>1, <2>3, FS_AddElement
  <2>5. ASSUME NEW u \in Tick, Pending(u, s)
        PROVE  Taken(s, snap[u][s].nextRunAt)'
    <3>1. snap[u][s].nextRunAt \in Nat /\ slot \in Nat
      BY <1>t, <1>8 DEF slot, Row
    <3>2. ~(slot < snap[u][s].nextRunAt)
      BY <1>0, <1>1, <1>6, <1>8, <2>5 DEF StrategyOK, SnapsOrdered, slot
    <3>3. snap[u][s].nextRunAt < slot => Taken(s, snap[u][s].nextRunAt)
      BY <1>0, <1>1, <1>8, <2>5 DEF StrategyOK, SnapsOrdered, slot
    <3> QED BY <1>6, <2>2, <3>1, <3>2, <3>3
  <2>7. strat[s].status \in Stored =>
            slot = strat[s].nextRunAt /\ snap[t][s].slicesDone = strat[s].slicesDone
    BY <1>0, <1>1, <1>6, <1>8 DEF StrategyOK, RowLeads, slot
  <2>8. strat[s].status # "new"
    BY <1>0, <1>1, <1>8 DEF StrategyOK, Unborn
  <2>9. new.slot = slot
    OBVIOUS
  <2> HIDE DEF new
  <2>10. OneSlot(s)'
    BY <1>0, <1>6, <1>8, <2>1, <2>9 DEF StrategyOK, OneSlot, slot
  <2>11. Unborn(s)'
    BY <1>6, <2>8 DEF Unborn
  <2>12. RowLeads(s)'
    <3> SUFFICES ASSUME strat[s].status \in Stored PROVE RowLeads(s)'
      BY <1>6 DEF RowLeads
    <3>1. \A o \in OrdersOf(s)' : o.slot <= strat[s].nextRunAt
      BY <1>0, <1>t, <2>1, <2>7, <2>9 DEF StrategyOK, RowLeads, Row
    <3>2. \A u \in Tick : Pending(u, s) =>
              \/ snap[u][s].nextRunAt = strat[s].nextRunAt
                 /\ snap[u][s].slicesDone = strat[s].slicesDone
              \/ snap[u][s].nextRunAt < strat[s].nextRunAt /\ Taken(s, snap[u][s].nextRunAt)'
      BY <1>0, <1>6, <2>5 DEF StrategyOK, RowLeads
    <3>3. KindOf[s] = "twap" =>
              Cardinality(OrdersOf(s)) <= strat[s].slicesDone + torn[s]
      BY <1>0, <1>6, <1>8, <1>t, <2>7 DEF StrategyOK, RowLeads, Row
    <3>4. KindOf[s] = "twap" =>
              Cardinality(OrdersOf(s)') <= strat[s].slicesDone + torn[s] + 1
      BY <1>t, <2>4, <3>3 DEF Row
    <3>5. Taken(s, strat[s].nextRunAt)'
      BY <1>6, <2>2, <2>7
    <3> QED BY <1>6, <1>p, <3>1, <3>2, <3>4, <3>5 DEF RowLeads
  <2>13. SnapsOrdered(s)' /\ SnapCounts(s)'
    BY <1>6, <1>p, <2>5 DEF SnapsOrdered, SnapCounts
  <2>14. StrayOnce(s)'
    <3>1. stray[s] = 0
      BY <1>0, <1>1, <1>6, <1>8, <1>t DEF StrategyOK, StrayOnce, slot
    <3>2. stray'[s] = IF strat[s].status = "running" THEN 0 ELSE 1
      BY <1>0, <1>6, <1>8, <3>1 DEF SchedulerType
    <3> QED BY <1>6, <1>p, <2>5, <3>2 DEF StrayOnce
  <2>15. TwapBound(s)'
    <3> SUFFICES ASSUME KindOf[s] = "twap"
                 PROVE  Cardinality(OrdersOf(s)') <= Slices[s] + torn[s]
      BY <1>6 DEF TwapBound
    <3>1. Cardinality(OrdersOf(s)) <= snap[t][s].slicesDone + torn[s]
      BY <1>0, <1>1, <1>6, <1>8 DEF StrategyOK, SnapCounts, slot
    <3>2. snap[t][s].slicesDone < Slices[s]
      BY <1>1, <1>3, <1>8 DEF SnapDue
    <3>3. Slices[s] \in Nat /\ snap[t][s].slicesDone \in Nat
      BY <1>t, SchedulerAssumption DEF Row
    <3> QED BY <1>t, <2>4, <3>1, <3>2, <3>3
  <2> QED BY <2>10, <2>11, <2>12, <2>13, <2>14, <2>15 DEF StrategyOK
<1> QED BY <1>7, <1>8

------------------------------------------------------------------------------
(* A fill is recorded, whole or in part. *)

\* The row after writes that include the fill.
LEMMA RowAfterFill ==
    ASSUME NEW s \in Strategy, strat[s] \in Row, strat[s].status \in Stored,
           NEW n \in Nat, NEW now \in Nat, NEW done, "fill" \in done
    PROVE  /\ rowAfter(s, n, now, done) \in Row
           /\ rowAfter(s, n, now, done).nextRunAt = now + Interval[s]
           /\ rowAfter(s, n, now, done).filled = strat[s].filled + n
           /\ rowAfter(s, n, now, done).status \in {strat[s].status, "completed"}
           /\ rowAfter(s, n, now, done).slicesDone =
                 IF "slice" \in done THEN strat[s].slicesDone + 1 ELSE strat[s].slicesDone
<1> DEFINE ends == \/ "trigger" \in done
                   \/ "complete" \in done
                      /\ (IF "slice" \in done THEN strat[s].slicesDone + 1
                                               ELSE strat[s].slicesDone) >= Slices[s]
           slices == IF "slice" \in done THEN strat[s].slicesDone + 1 ELSE strat[s].slicesDone
           status == IF ends THEN "completed" ELSE strat[s].status
<1>1. rowAfter(s, n, now, done) =
        [status |-> status, nextRunAt |-> now + Interval[s], filled |-> strat[s].filled + n,
         slicesDone |-> slices]
  BY DEF rowAfter
<1>2. status \in {strat[s].status, "completed"} /\ status \in Stored
  BY DEF Stored
<1>3. slices \in Nat /\ now + Interval[s] \in Nat /\ strat[s].filled + n \in Nat
  BY SchedulerAssumption DEF Row
<1> HIDE DEF status, ends
<1> QED BY <1>1, <1>2, <1>3 DEF Row

\* The writes of a record never start a strategy; those of a recurring one begin
\* with the due time and the total, those of a one-shot touch only its status.
LEMMA PersistEffect ==
    ASSUME SchedulerInv, NEW t \in Tick, pc[t] = "answered", got[t] > 0,
           NEW k \in 1..Len(Writes(current(t))), Persist(t, k),
           torn' \in [Strategy -> Nat], torn'[current(t)] >= torn[current(t)],
           k = Len(Writes(current(t))) \/ torn'[current(t)] = torn[current(t)] + 1
    PROVE  LET s == current(t) IN
           /\ s \in Strategy /\ strat' = [strat EXCEPT ![s] = strat'[s]] /\ strat'[s] \in Row
           /\ strat'[s].status = "running" => strat[s].status = "running"
           /\ strat[s].status \notin Stored => strat'[s] = strat[s]
           /\ \/ RowKept(s) /\ strat'[s].filled = strat[s].filled
              \/ RowAdvances(s) /\ strat'[s].filled >= strat[s].filled
<1> DEFINE s == current(t)
           done == {Writes(s)[m] : m \in 1..k}
           row == strat[s]
           next == strat'[s]
<1>0. SchedulerType /\ TickOK(t) /\ FillIsCurrent(t)
  BY DEF SchedulerInv
<1>1. at[t] \in 1..Len(Walk) /\ Pending(t, s)
  BY <1>0 DEF TickOK
<1>2. s \in Strategy
  BY <1>1, WalkVisits DEF current
<1>3. StrategyOK(s) /\ SnapDue(t, s)
  BY <1>2 DEF SchedulerInv
<1>4. strat' = [strat EXCEPT ![s] = rowAfter(s, got[t], began[t], done)]
  BY DEF Persist
<1>5. next = rowAfter(s, got[t], began[t], done) /\ strat' = [strat EXCEPT ![s] = next]
  BY <1>0, <1>2, <1>4 DEF SchedulerType
<1>6. /\ row \in Row /\ got[t] \in Nat /\ began[t] \in Nat /\ Interval[s] \in Nat \ {0}
      /\ torn[s] \in Nat /\ torn'[s] \in Nat /\ snap[t][s] \in Row
  BY <1>0, <1>2, SchedulerAssumption DEF SchedulerType
<1>7. CASE OneShot(s)
  <2>1. Writes(s) = <<"activity", "trigger">>
    BY <1>7 DEF Writes
  <2>2. "fill" \notin done /\ "slice" \notin done
    BY <2>1
  <2> QED BY <1>2, <1>5, <1>6, <2>2 DEF rowAfter, RowKept, Row, Stored
<1>8. CASE ~OneShot(s)
  <2>1. "fill" \in done
    <3>1. 1 \in 1..k /\ Writes(s)[1] = "fill"
      BY <1>8 DEF Writes
    <3> QED BY <3>1
  <2>2. KindOf[s] = "twap" /\ k = Len(Writes(s)) => "slice" \in done
    <3> SUFFICES ASSUME KindOf[s] = "twap", k = Len(Writes(s)) PROVE "slice" \in done
      OBVIOUS
    <3>1. Writes(s) = <<"fill", "slice", "complete", "activity">>
      BY <1>8 DEF Writes
    <3>2. 2 \in 1..k /\ Writes(s)[2] = "slice"
      BY <3>1
    <3> QED BY <3>2
  <2> HIDE DEF done
  <2>3. CASE row.status \notin Stored
    <3>1. next = row
      BY <1>5, <2>3 DEF rowAfter
    <3> QED BY <1>2, <1>5, <1>6, <2>3, <3>1 DEF RowKept
  <2>4. CASE row.status \in Stored
    <3>1. row.nextRunAt = snap[t][s].nextRunAt /\ Taken(s, row.nextRunAt)
      BY <1>0, <2>4 DEF FillIsCurrent
    <3>2. row.nextRunAt <= began[t]
      BY <1>1, <1>3, <1>8, <3>1 DEF SnapDue
    <3>r. strat[s] \in Row /\ strat[s].status \in Stored /\ got[t] \in Nat /\ began[t] \in Nat
      BY <1>6, <2>4
    <3>a. next = rowAfter(s, got[t], began[t], done)
      BY <1>5
    <3> HIDE DEF s, next
    <3>3. /\ next \in Row
          /\ next.nextRunAt = began[t] + Interval[s]
          /\ next.filled = row.filled + got[t]
          /\ next.status = row.status \/ next.status = "completed"
          /\ next.slicesDone = IF "slice" \in done THEN row.slicesDone + 1 ELSE row.slicesDone
      <4> DEFINE n == got[t]
                 now == began[t]
      <4>1. n \in Nat /\ now \in Nat
        BY <3>r
      <4> HIDE DEF n, now
      <4>2. /\ rowAfter(s, n, now, done) \in Row
            /\ rowAfter(s, n, now, done).nextRunAt = now + Interval[s]
            /\ rowAfter(s, n, now, done).filled = strat[s].filled + n
            /\ rowAfter(s, n, now, done).status \in {strat[s].status, "completed"}
            /\ rowAfter(s, n, now, done).slicesDone =
                 IF "slice" \in done THEN strat[s].slicesDone + 1 ELSE strat[s].slicesDone
        BY <1>2, <2>1, <3>r, <4>1, RowAfterFill
      <4> QED BY <3>a, <4>2 DEF n, now
    <3> HIDE DEF row
    <3>4. next.nextRunAt > row.nextRunAt /\ next.filled >= row.filled
      <4>1. row.filled \in Nat /\ row.nextRunAt \in Nat /\ Interval[s] \in Nat \ {0}
        BY <1>6 DEF Row, row
      <4>2. next.nextRunAt > row.nextRunAt
        <5>1. \A a, b, c \in Nat : a <= b /\ c # 0 => b + c > a
          OBVIOUS
        <5> QED BY <3>2, <3>3, <3>r, <4>1, <5>1
      <4>3. next.filled >= row.filled
        <5>1. \A a, b \in Nat : a + b >= a
          OBVIOUS
        <5> QED BY <3>3, <3>r, <4>1, <5>1
      <4> QED BY <4>2, <4>3
    <3>5. KindOf[s] = "twap" =>
             next.slicesDone + torn'[s] >= row.slicesDone + torn[s] + 1
      <4> SUFFICES ASSUME KindOf[s] = "twap"
                   PROVE  next.slicesDone + torn'[s] >= row.slicesDone + torn[s] + 1
        OBVIOUS
      <4>1. CASE k = Len(Writes(s))
        <5>1. row.slicesDone \in Nat /\ next.slicesDone = row.slicesDone + 1
          BY <1>6, <2>2, <3>3, <4>1 DEF Row, row
        <5>2. torn'[s] >= torn[s] /\ torn[s] \in Nat /\ torn'[s] \in Nat
          BY <1>6 DEF s
        <5> QED BY <5>1, <5>2
      <4>2. CASE k # Len(Writes(s))
        <5>1. torn'[s] = torn[s] + 1 /\ row.slicesDone \in Nat /\ next.slicesDone >= row.slicesDone
              /\ next.slicesDone \in Nat
          BY <1>6, <3>3, <4>2 DEF Row, row, s
        <5> QED BY <1>6, <5>1
      <4> QED BY <4>1, <4>2
    <3>6. RowAdvances(s)
      BY <1>8, <2>4, <3>1, <3>3, <3>4, <3>5 DEF RowAdvances, next, row, Stored
    <3> QED BY <1>2, <1>5, <2>4, <3>3, <3>4, <3>6 DEF next, row, Stored, s
  <2> QED BY <2>3, <2>4
<1> QED BY <1>7, <1>8

------------------------------------------------------------------------------
(* What a step does to the ticks. *)

\* The tick is where it was, or it is gone.
TickSame(t) ==
    /\ pc'[t] = pc[t] /\ began'[t] = began[t] /\ at'[t] = at[t]
    /\ snap'[t] = snap[t] /\ got'[t] = got[t]

TickGone(t) == pc'[t] = "idle" /\ snap'[t] = NoRows /\ got'[t] = 0

LEMMA GoneTick ==
    ASSUME NEW t \in Tick, TickGone(t)
    PROVE  TickOK(t)' /\ FillIsCurrent(t)' /\ \A s \in Strategy : SnapDue(t, s)'
<1>1. \A s \in Strategy : ~Pending(t, s)'
  BY DEF TickGone, Pending, NoRows, NoRow
<1> QED BY <1>1 DEF TickGone, TickOK, FillIsCurrent, SnapDue

\* A tick that a step leaves alone, while no order vanishes and no one else writes
\* the due time its fill is to be recorded against.
LEMMA SameTick ==
    ASSUME SchedulerInv, NEW t \in Tick, TickSame(t), orders \subseteq orders',
           got[t] > 0 /\ strat'[current(t)].status \in Stored =>
               /\ strat[current(t)].status \in Stored
               /\ strat'[current(t)].nextRunAt = strat[current(t)].nextRunAt
    PROVE  TickOK(t)' /\ FillIsCurrent(t)' /\ \A s \in Strategy : SnapDue(t, s)'
<1>1. TickOK(t) /\ FillIsCurrent(t) /\ \A s \in Strategy : SnapDue(t, s)
  BY DEF SchedulerInv
<1>2. current(t)' = current(t) /\ \A s : Pending(t, s)' <=> Pending(t, s)
  BY DEF TickSame, current, Pending
<1>3. TickOK(t)'
  BY <1>1, <1>2 DEF TickOK, TickSame, Pending
<1>4. \A s \in Strategy : SnapDue(t, s)'
  BY <1>1, <1>2 DEF SnapDue, TickSame
<1>5. FillIsCurrent(t)'
  <2> SUFFICES ASSUME got[t] > 0 PROVE FillIsCurrent(t)'
    BY DEF FillIsCurrent, TickSame
  <2>1. \A s, n : Taken(s, n) => Taken(s, n)'
    BY DEF Taken
  <2>2. snap'[t] = snap[t]
    BY DEF TickSame
  <2> QED BY <1>1, <1>2, <2>1, <2>2 DEF FillIsCurrent
<1> QED BY <1>3, <1>4, <1>5

\* Ticks that hold a filled order and are left alone keep distinct slots.
LEMMA DistinctKept ==
    ASSUME SchedulerInv, \A t \in Tick : got'[t] > 0 => TickSame(t)
    PROVE  FillsDistinct'
BY DEF SchedulerInv, FillsDistinct, TickSame, current

\* Only a tick that was answered holds a fill.
LEMMA NoFillYet ==
    ASSUME SchedulerInv, NEW t \in Tick, pc[t] # "answered"
    PROVE  got[t] = 0
<1>1. got[t] \in Nat /\ TickOK(t)
  BY DEF SchedulerInv, SchedulerType
<1> QED BY <1>1 DEF TickOK

\* Moving on along the walk loses copies and changes none.
LEMMA GotoEffect ==
    ASSUME SchedulerType, NEW t \in Tick, NEW n \in Nat, Goto(t, n)
    PROVE  /\ at' = [at EXCEPT ![t] = n]
           /\ snap' \in [Tick -> [Strategy -> Row]]
           /\ \A u \in Tick : u # t => snap'[u] = snap[u]
           /\ \A u \in Tick, s \in Strategy :
                 snap'[u][s] = snap[u][s] \/ snap'[u][s] = NoRow("new")
           /\ n \in 1..Len(Walk) => snap'[t][Walk[n]] = snap[t][Walk[n]]
<1> DEFINE kept == {Walk[m] : m \in n..Len(Walk)}
           mine == [s \in Strategy |-> IF s \in kept THEN snap[t][s] ELSE NoRow("new")]
<1>1. snap' = [snap EXCEPT ![t] = mine] /\ at' = [at EXCEPT ![t] = n]
  BY DEF Goto, SchedulerType
<1>2. mine \in [Strategy -> Row]
  BY NoRowType DEF SchedulerType, Stored
<1>3. n \in 1..Len(Walk) => Walk[n] \in kept /\ Walk[n] \in Strategy
  BY WalkVisits
<1>4. \A s \in Strategy : mine[s] = snap[t][s] \/ mine[s] = NoRow("new")
  OBVIOUS
<1>5. n \in 1..Len(Walk) => mine[Walk[n]] = snap[t][Walk[n]]
  BY <1>3
<1> HIDE DEF mine, kept
<1>6. snap' \in [Tick -> [Strategy -> Row]] /\ snap'[t] = mine
      /\ \A u \in Tick : u # t => snap'[u] = snap[u]
  BY <1>1, <1>2 DEF SchedulerType
<1>7. \A u \in Tick, s \in Strategy : snap'[u][s] = snap[u][s] \/ snap'[u][s] = NoRow("new")
  BY <1>4, <1>6
<1> QED BY <1>1, <1>5, <1>6, <1>7

------------------------------------------------------------------------------
(* The ticks' own steps. *)

LEMMA NewTick ==
    ASSUME SchedulerInv, NEW t \in Tick, TickBegin(t)
    PROVE  SchedulerInv'
<1>0. SchedulerType
  BY DEF SchedulerInv
<1>1. SchedulerType'
  <2> DEFINE rows == [s \in Strategy |->
                        IF Due(s, strat[s], clock') THEN strat[s] ELSE NoRow("new")]
  <2>1. rows \in [Strategy -> Row]
    BY <1>0, NoRowType DEF SchedulerType, Stored
  <2>2. snap' = [snap EXCEPT ![t] = rows]
    BY DEF TickBegin
  <2> HIDE DEF rows
  <2>3. snap' \in [Tick -> [Strategy -> Row]]
    BY <1>0, <2>1, <2>2 DEF SchedulerType
  <2> QED BY <1>0, <2>3 DEF TickBegin, SchedulerType
<1>2. \A s \in Strategy : StrategyOK(s)' /\ SnapDue(t, s)'
  BY <1>1, TickBeginStep
<1>3. \A u \in Tick : u # t => TickSame(u)
  BY <1>0 DEF TickBegin, TickSame, SchedulerType
<1>4. pc'[t] = "walk" /\ at'[t] = 1 /\ got'[t] = 0 /\ strat' = strat /\ orders' = orders
  <2>1. got[t] = 0
    BY NoFillYet DEF TickBegin
  <2> QED BY <1>0, <2>1 DEF TickBegin, SchedulerType
<1>5. TickOK(t)' /\ FillIsCurrent(t)'
  BY <1>4 DEF TickOK, FillIsCurrent
<1>6. \A u \in Tick : u # t =>
          TickOK(u)' /\ FillIsCurrent(u)' /\ \A s \in Strategy : SnapDue(u, s)'
  BY <1>3, <1>4, SameTick
<1>7. FillsDistinct'
  BY <1>3, <1>4, DistinctKept
<1>8. SlotOnce'
  BY <1>4 DEF SchedulerInv, SlotOnce
<1> QED BY <1>1, <1>2, <1>5, <1>6, <1>7, <1>8 DEF SchedulerInv

\* A step that leaves rows, orders and histories alone and only loses copies.
LEMMA CopiesOnly ==
    ASSUME SchedulerInv, SchedulerType', UNCHANGED <<strat, orders, torn, stray>>,
           \A u \in Tick, s \in Strategy : snap'[u][s] = snap[u][s] \/ snap'[u][s] = NoRow("new")
    PROVE  SlotOnce' /\ \A s \in Strategy : StrategyOK(s)'
<1>1. SlotOnce'
  BY DEF SchedulerInv, SlotOnce
<1>2. ASSUME NEW s \in Strategy PROVE StrategyOK(s)'
  <2>1. RowKept(s) /\ StrayKept(s) /\ torn'[s] >= torn[s]
    BY DEF RowKept, StrayKept, SchedulerInv, SchedulerType
  <2> QED BY <2>1, RowWrite DEF SchedulerInv
<1> QED BY <1>1, <1>2

LEMMA PlaceStep ==
    ASSUME SchedulerInv, NEW t \in Tick, PlaceBegin(t)
    PROVE  SchedulerInv'
<1>0. SchedulerType /\ pc[t] = "walk" /\ at[t] >= 1 /\ at[t] \in Nat
  BY DEF SchedulerInv, PlaceBegin, TickOK, SchedulerType
<1>1. PICK n \in at[t]..Len(Walk) : Eligible(t, n) /\ Goto(t, n)
  BY DEF PlaceBegin
<1>2. n \in 1..Len(Walk) /\ n \in Nat
  BY <1>0, <1>1, SchedulerAssumption
<1>3. UNCHANGED <<strat, orders, clock, began, got, torn, stray>>
      /\ pc' = [pc EXCEPT ![t] = "placing"]
  BY DEF PlaceBegin
<1>4. SchedulerType'
  <2>1. at' \in [Tick -> Nat] /\ snap' \in [Tick -> [Strategy -> Row]]
    BY <1>0, <1>1, <1>2, GotoEffect DEF SchedulerType
  <2> QED BY <1>0, <1>3, <2>1 DEF SchedulerType
<1>5. SlotOnce' /\ \A s \in Strategy : StrategyOK(s)'
  BY <1>0, <1>1, <1>2, <1>3, <1>4, GotoEffect, CopiesOnly
<1>6. \A u \in Tick : u # t => TickSame(u)
  BY <1>0, <1>1, <1>2, <1>3, GotoEffect DEF TickSame, SchedulerType
<1>7. got[t] = 0
  BY <1>0, NoFillYet
<1>8. TickOK(t)' /\ FillIsCurrent(t)'
  <2>1. at'[t] = n /\ pc'[t] = "placing" /\ got'[t] = 0 /\ current(t)' = Walk[n]
    BY <1>0, <1>1, <1>2, <1>3, <1>7, GotoEffect DEF SchedulerType, current
  <2>2. snap'[t][Walk[n]] = snap[t][Walk[n]] /\ Pending(t, Walk[n])
    BY <1>0, <1>1, <1>2, GotoEffect DEF Eligible
  <2> QED BY <1>2, <2>1, <2>2 DEF TickOK, FillIsCurrent, Pending
<1>9. \A s \in Strategy : SnapDue(t, s)'
  <2> SUFFICES ASSUME NEW s \in Strategy, Pending(t, s)' PROVE SnapDue(t, s)'
    BY DEF SnapDue
  <2>1. Pending(t, s) /\ snap'[t][s] = snap[t][s]
    BY <1>0, <1>1, <1>2, GotoEffect DEF Pending, NoRow
  <2> QED BY <1>3, <2>1 DEF SchedulerInv, SnapDue
<1>10. \A u \in Tick : u # t =>
          TickOK(u)' /\ FillIsCurrent(u)' /\ \A s \in Strategy : SnapDue(u, s)'
  BY <1>3, <1>6, SameTick
<1>11. FillsDistinct'
  BY <1>3, <1>6, <1>7, DistinctKept
<1> QED BY <1>4, <1>5, <1>8, <1>9, <1>10, <1>11 DEF SchedulerInv

LEMMA TradeStep ==
    ASSUME SchedulerInv, NEW t \in Tick, OrderFills(t)
    PROVE  SchedulerInv'
<1> DEFINE me == current(t)
           slot == snap[t][me].nextRunAt
<1>0. SchedulerType /\ TickOK(t) /\ pc[t] = "placing"
  BY DEF SchedulerInv, OrderFills
<1>1. at[t] \in 1..Len(Walk) /\ Pending(t, me) /\ me \in Strategy
  BY <1>0, WalkVisits DEF TickOK, current
<1>2. slotOf(me, snap[t][me], began[t]) = slot
  BY <1>0, <1>1, SlotIsDueTime DEF SchedulerInv, StrategyOK
<1>3. PICK n \in FillSizes[me] :
          /\ orders' = orders \cup {[strat |-> me, slot |-> slot, usdc |-> n, day |-> Day(began[t])]}
          /\ Answer(t, n) \/ Answer(t, 0)
  BY <1>2 DEF OrderFills
<1> DEFINE new == [strat |-> me, slot |-> slot, usdc |-> n, day |-> Day(began[t])]
<1>4. /\ ~Taken(me, slot)
      /\ strat' = strat /\ snap' = snap /\ torn' = torn /\ clock' = clock /\ began' = began
      /\ at' = at /\ pc' = [pc EXCEPT ![t] = "answered"]
      /\ stray' = IF strat[me].status = "running" THEN stray ELSE [stray EXCEPT ![me] = @ + 1]
  BY <1>2, <1>3 DEF OrderFills, Answer
<1>5. got' = [got EXCEPT ![t] = n] \/ got' = [got EXCEPT ![t] = 0]
  BY <1>3 DEF Answer
<1>6. n \in Nat /\ slot \in Nat /\ Day(began[t]) \in Nat
  <2>1. n \in Nat
    BY <1>1, SchedulerAssumption
  <2>2. snap[t][me] \in Row
    BY <1>0, <1>1 DEF SchedulerType
  <2>3. began[t] \in Nat
    BY <1>0 DEF SchedulerType
  <2>4. Day(began[t]) \in Nat
    BY <2>3, DayType
  <2> QED BY <2>1, <2>2, <2>3, <2>4 DEF Row
<1>7. SchedulerType'
  <2>1. new \in [strat : Strategy, slot : Nat, usdc : Nat, day : Nat]
    BY <1>1, <1>6
  <2>2. IsFiniteSet(orders')
    BY <1>0, <1>3, FS_AddElement DEF SchedulerType
  <2>3. stray' \in [Strategy -> Nat]
    <3>1. stray \in [Strategy -> Nat] /\ stray[me] + 1 \in Nat
      BY <1>0, <1>1 DEF SchedulerType
    <3> QED BY <1>1, <1>4, <3>1
  <2>4. got' \in [Tick -> Nat]
    <3>1. got \in [Tick -> Nat] /\ n \in Nat /\ 0 \in Nat
      BY <1>0, <1>6 DEF SchedulerType
    <3> HIDE DEF new
    <3>2. \A v \in Nat : [got EXCEPT ![t] = v] \in [Tick -> Nat]
      BY <3>1
    <3> QED BY <1>5, <3>1, <3>2
  <2> HIDE DEF new
  <2> QED BY <1>0, <1>3, <1>4, <2>1, <2>2, <2>3, <2>4 DEF SchedulerType, new
<1>8. \A s \in Strategy : StrategyOK(s)'
  BY <1>7, FillStep
<1>9. SlotOnce'
  <2>1. SlotOnce
    BY DEF SchedulerInv
  <2>2. \A o \in orders : ~(o.strat = me /\ o.slot = slot)
    BY <1>4 DEF Taken
  <2>3. new.strat = me /\ new.slot = slot /\ orders' = orders \cup {new}
    BY <1>3
  <2> HIDE DEF new, me, slot
  <2> QED BY <2>1, <2>2, <2>3 DEF SlotOnce
<1>10. \A u \in Tick : u # t => TickSame(u)
  BY <1>0, <1>4, <1>5 DEF TickSame, SchedulerType
<1>11. orders \subseteq orders'
  BY <1>3
<1>12. \A u \in Tick : u # t =>
          TickOK(u)' /\ FillIsCurrent(u)' /\ \A s \in Strategy : SnapDue(u, s)'
  BY <1>4, <1>10, <1>11, SameTick
<1>13. TickOK(t)' /\ \A s \in Strategy : SnapDue(t, s)'
  <2>1. pc'[t] = "answered" /\ current(t)' = current(t) /\ \A s : Pending(t, s)' <=> Pending(t, s)
    BY <1>0, <1>4 DEF SchedulerType, current, Pending
  <2>2. TickOK(t)'
    BY <1>1, <1>4, <2>1 DEF TickOK, Pending
  <2> QED BY <1>4, <2>1, <2>2 DEF SchedulerInv, SnapDue
<1>14. \A m : Taken(me, m) \/ m = slot => \E o \in orders' : o.strat = me /\ o.slot = m
  <2>1. new.strat = me /\ new.slot = slot /\ new \in orders'
    BY <1>3
  <2> HIDE DEF new, me, slot
  <2> QED BY <1>11, <2>1 DEF Taken
<1>15. FillIsCurrent(t)'
  <2>1. current(t)' = me /\ snap' = snap /\ strat' = strat
    BY <1>4 DEF current
  <2>2. strat[me].status \in Stored => strat[me].nextRunAt = slot
    BY <1>1, <1>4 DEF SchedulerInv, StrategyOK, RowLeads
  <2>3. \E o \in orders' : o.strat = me /\ o.slot = slot
    BY <1>14
  <2> QED BY <2>1, <2>2, <2>3 DEF FillIsCurrent, Taken
<1>16. FillsDistinct'
  <2> SUFFICES ASSUME NEW u \in Tick, NEW v \in Tick, got'[u] > 0, got'[v] > 0, u # v,
                      current(u) = current(v)
               PROVE  snap[u][current(u)].nextRunAt # snap[v][current(v)].nextRunAt
    BY <1>4 DEF FillsDistinct, current
  <2>1. ASSUME NEW w \in Tick, got'[w] > 0, w # t, current(w) = me
        PROVE  snap[w][me].nextRunAt # slot
    BY <1>4, <1>10, <2>1 DEF TickSame, SchedulerInv, FillIsCurrent
  <2>2. CASE u = t
    BY <2>1, <2>2
  <2>3. CASE v = t
    BY <2>1, <2>3
  <2>4. CASE u # t /\ v # t
    BY <1>10, <2>4 DEF TickSame, SchedulerInv, FillsDistinct
  <2> QED BY <2>2, <2>3, <2>4
<1> QED BY <1>7, <1>8, <1>9, <1>12, <1>13, <1>15, <1>16 DEF SchedulerInv

LEMMA RefusedStep ==
    ASSUME SchedulerInv, NEW t \in Tick, PlaceFails(t)
    PROVE  SchedulerInv'
<1>0. SchedulerType /\ TickOK(t) /\ pc[t] = "placing"
  BY DEF SchedulerInv, PlaceFails
<1>1. /\ UNCHANGED <<strat, orders, clock, began, at, snap, torn, stray>>
      /\ pc' = [pc EXCEPT ![t] = "answered"] /\ got' = [got EXCEPT ![t] = 0]
  BY DEF PlaceFails, Answer
<1>2. SchedulerType'
  BY <1>0, <1>1 DEF SchedulerType
<1>3. SlotOnce' /\ \A s \in Strategy : StrategyOK(s)'
  BY <1>1, <1>2, CopiesOnly
<1>4. \A u \in Tick : u # t => TickSame(u)
  BY <1>0, <1>1 DEF TickSame, SchedulerType
<1>5. pc'[t] = "answered" /\ got'[t] = 0 /\ current(t)' = current(t)
      /\ \A s : Pending(t, s)' <=> Pending(t, s)
  BY <1>0, <1>1 DEF SchedulerType, current, Pending
<1>6. TickOK(t)' /\ FillIsCurrent(t)'
  BY <1>0, <1>1, <1>5 DEF TickOK, FillIsCurrent, Pending
<1>7. \A s \in Strategy : SnapDue(t, s)'
  BY <1>1, <1>5 DEF SchedulerInv, SnapDue
<1>8. \A u \in Tick : u # t =>
          TickOK(u)' /\ FillIsCurrent(u)' /\ \A s \in Strategy : SnapDue(u, s)'
  BY <1>1, <1>4, SameTick
<1>9. FillsDistinct'
  BY <1>4, <1>5, DistinctKept
<1> QED BY <1>2, <1>3, <1>6, <1>7, <1>8, <1>9 DEF SchedulerInv

LEMMA RecordStep ==
    ASSUME SchedulerInv, NEW t \in Tick, Record(t)
    PROVE  SchedulerInv'
<1> DEFINE me == current(t)
<1>0. SchedulerType /\ TickOK(t) /\ FillIsCurrent(t) /\ pc[t] = "answered" /\ got[t] \in Nat
  BY DEF SchedulerInv, Record, SchedulerType
<1>1. at[t] \in 1..Len(Walk) /\ at[t] + 1 \in Nat /\ me \in Strategy
  BY <1>0, WalkVisits DEF TickOK, current, SchedulerType
<1>2. /\ Goto(t, at[t] + 1)
      /\ pc' = [pc EXCEPT ![t] = "walk"] /\ got' = [got EXCEPT ![t] = 0]
      /\ UNCHANGED <<orders, clock, began, torn, stray>>
  BY DEF Record
<1>3. /\ strat' \in [Strategy -> Row]
      /\ \A s \in Strategy : s # me => strat'[s] = strat[s]
      /\ strat[me].status \notin Stored => strat'[me] = strat[me]
      /\ strat'[me].status = "running" => strat[me].status = "running"
      /\ RowKept(me) \/ (got[t] > 0 /\ RowAdvances(me))
  <2>1. CASE got[t] > 0
    <3>1. Persist(t, Len(Writes(me)))
      BY <2>1 DEF Record
    <3>2. Len(Writes(me)) \in 1..Len(Writes(me))
      BY DEF Writes
    <3>3. torn' \in [Strategy -> Nat] /\ torn'[me] >= torn[me]
      BY <1>0, <1>1, <1>2 DEF SchedulerType
    <3>4. /\ strat' = [strat EXCEPT ![me] = strat'[me]] /\ strat'[me] \in Row
          /\ strat'[me].status = "running" => strat[me].status = "running"
          /\ strat[me].status \notin Stored => strat'[me] = strat[me]
          /\ RowKept(me) \/ RowAdvances(me)
      BY <1>0, <2>1, <3>1, <3>2, <3>3, PersistEffect
    <3> QED BY <1>0, <1>1, <2>1, <3>4 DEF SchedulerType
  <2>2. CASE ~(got[t] > 0)
    <3>1. strat' = strat
      BY <2>2 DEF Record
    <3> QED BY <1>0, <3>1 DEF SchedulerType, RowKept
  <2> QED BY <2>1, <2>2
<1>4. /\ at' = [at EXCEPT ![t] = at[t] + 1]
      /\ snap' \in [Tick -> [Strategy -> Row]]
      /\ \A u \in Tick : u # t => snap'[u] = snap[u]
      /\ \A u \in Tick, s \in Strategy : snap'[u][s] = snap[u][s] \/ snap'[u][s] = NoRow("new")
  BY <1>0, <1>1, <1>2, GotoEffect
<1>5. SchedulerType'
  BY <1>0, <1>1, <1>2, <1>3, <1>4 DEF SchedulerType
<1>6. SlotOnce'
  BY <1>2 DEF SchedulerInv, SlotOnce
<1>7. ASSUME NEW s \in Strategy PROVE StrategyOK(s)'
  <2>1. RowKept(s) \/ RowAdvances(s)
    BY <1>3, <1>7 DEF RowKept
  <2>2. StrayKept(s) /\ torn'[s] >= torn[s]
    BY <1>0, <1>2, <1>3, <1>7 DEF StrayKept, SchedulerType
  <2>3. SchedulerType /\ StrategyOK(s) /\ orders' = orders
    BY <1>2 DEF SchedulerInv
  <2> QED BY <1>4, <1>5, <2>1, <2>2, <2>3, RowWrite
<1>8. \A u \in Tick : u # t => TickSame(u)
  BY <1>0, <1>2, <1>4 DEF TickSame, SchedulerType
<1>9. pc'[t] = "walk" /\ got'[t] = 0 /\ at'[t] >= 1
  BY <1>0, <1>1, <1>2, <1>4 DEF SchedulerType
<1>10. TickOK(t)' /\ FillIsCurrent(t)'
  BY <1>9 DEF TickOK, FillIsCurrent
<1>11. \A s \in Strategy : SnapDue(t, s)'
  <2> SUFFICES ASSUME NEW s \in Strategy, Pending(t, s)' PROVE SnapDue(t, s)'
    BY DEF SnapDue
  <2>1. Pending(t, s) /\ snap'[t][s] = snap[t][s]
    BY <1>4 DEF Pending, NoRow
  <2> QED BY <1>2, <2>1 DEF SchedulerInv, SnapDue
<1>12. ASSUME NEW u \in Tick, u # t
       PROVE  TickOK(u)' /\ FillIsCurrent(u)' /\ \A s \in Strategy : SnapDue(u, s)'
  <2>1. ASSUME got[u] > 0, strat'[current(u)].status \in Stored
        PROVE  /\ strat[current(u)].status \in Stored
               /\ strat'[current(u)].nextRunAt = strat[current(u)].nextRunAt
    <3>1. TickOK(u) /\ FillIsCurrent(u)
      BY DEF SchedulerInv
    <3>2. current(u) \in Strategy
      BY <2>1, <3>1, WalkVisits DEF TickOK, current
    <3>3. CASE current(u) # me
      BY <1>3, <2>1, <3>2, <3>3
    <3>4. CASE current(u) = me /\ RowKept(me)
      BY <1>3, <2>1, <3>4 DEF RowKept
    <3>5. CASE current(u) = me /\ got[t] > 0 /\ RowAdvances(me)
      <4>1. strat[me].status \in Stored
        BY <3>5 DEF RowAdvances
      <4>2. snap[u][me].nextRunAt = strat[me].nextRunAt
            /\ snap[t][me].nextRunAt = strat[me].nextRunAt
        BY <1>0, <2>1, <3>1, <3>5, <4>1 DEF FillIsCurrent
      <4>3. snap[u][me].nextRunAt # snap[t][me].nextRunAt
        BY <1>12, <2>1, <3>5 DEF SchedulerInv, FillsDistinct
      <4> QED BY <4>2, <4>3
    <3> QED BY <1>3, <3>3, <3>4, <3>5
  <2>2. TickSame(u) /\ orders \subseteq orders'
    BY <1>2, <1>8, <1>12
  <2> QED BY <2>1, <2>2, SameTick
<1>13. FillsDistinct'
  BY <1>8, <1>9, DistinctKept
<1> QED BY <1>5, <1>6, <1>7, <1>10, <1>11, <1>12, <1>13 DEF SchedulerInv

LEMMA EndStep ==
    ASSUME SchedulerInv, NEW t \in Tick, TickEnd(t)
    PROVE  SchedulerInv'
<1>0. SchedulerType /\ NoRows \in [Strategy -> Row]
  BY NoRowType DEF SchedulerInv, NoRows
<1>1. UNCHANGED <<strat, orders, clock, torn, stray>> /\ Drop({t})
  BY DEF TickEnd
<1>2. SchedulerType'
  BY <1>0, <1>1 DEF Drop, SchedulerType
<1>3. TickGone(t) /\ \A u \in Tick : u # t => TickSame(u)
  BY <1>0, <1>1 DEF Drop, TickGone, TickSame
<1>4. \A u \in Tick, s \in Strategy : snap'[u][s] = snap[u][s] \/ snap'[u][s] = NoRow("new")
  BY <1>3 DEF TickGone, TickSame, NoRows
<1>5. SlotOnce' /\ \A s \in Strategy : StrategyOK(s)'
  BY <1>1, <1>2, <1>4, CopiesOnly
<1>6. \A u \in Tick : TickOK(u)' /\ FillIsCurrent(u)' /\ \A s \in Strategy : SnapDue(u, s)'
  BY <1>1, <1>3, GoneTick, SameTick
<1>7. FillsDistinct'
  BY <1>3, DistinctKept DEF TickGone
<1> QED BY <1>2, <1>5, <1>6, <1>7 DEF SchedulerInv

\* A crash loses every tick; it may leave one record half written.
LEMMA CrashStep ==
    ASSUME SchedulerInv, Crash
    PROVE  SchedulerInv'
<1>0. SchedulerType /\ NoRows \in [Strategy -> Row]
  BY NoRowType DEF SchedulerInv, NoRows
<1>1. UNCHANGED <<orders, clock, stray>> /\ Drop(Tick)
  BY DEF Crash
<1>2. \A u \in Tick : TickGone(u)
  BY <1>0, <1>1 DEF Drop, TickGone
<1>3. \A u \in Tick, s \in Strategy : snap'[u][s] = NoRow("new")
  BY <1>2 DEF TickGone, NoRows
<1> DEFINE Moved == \A s \in Strategy :
                       /\ RowKept(s) \/ RowAdvances(s)
                       /\ torn'[s] >= torn[s]
                       /\ strat'[s].status = "running" => strat[s].status = "running"
<1>4. strat' \in [Strategy -> Row] /\ torn' \in [Strategy -> Nat] /\ Moved
  <2>1. CASE UNCHANGED <<strat, torn>>
    BY <1>0, <2>1 DEF SchedulerType, RowKept
  <2>2. ASSUME NEW t \in Tick, pc[t] = "answered", got[t] > 0,
               NEW k \in 1..(Len(Writes(current(t))) - 1), Persist(t, k),
               torn' = [torn EXCEPT ![current(t)] = @ + 1]
        PROVE  strat' \in [Strategy -> Row] /\ torn' \in [Strategy -> Nat] /\ Moved
    <3> DEFINE me == current(t)
    <3>1. me \in Strategy
      BY <2>2, WalkVisits DEF SchedulerInv, TickOK, current
    <3>2. torn \in [Strategy -> Nat] /\ strat \in [Strategy -> Row]
      BY <1>0 DEF SchedulerType
    <3>3. torn' \in [Strategy -> Nat] /\ torn'[me] = torn[me] + 1 /\ torn'[me] >= torn[me]
          /\ \A s \in Strategy : s # me => torn'[s] = torn[s]
      <4> HIDE DEF me
      <4>1. torn' = [torn EXCEPT ![me] = @ + 1]
        BY <2>2 DEF me
      <4>2. torn[me] \in Nat
        BY <3>1, <3>2
      <4> QED BY <3>1, <3>2, <4>1, <4>2
    <3>4. k \in 1..Len(Writes(me))
      <4>1. Len(Writes(me)) \in Nat
        BY DEF Writes
      <4> QED BY <2>2, <4>1
    <3>5. /\ strat' = [strat EXCEPT ![me] = strat'[me]] /\ strat'[me] \in Row
          /\ strat'[me].status = "running" => strat[me].status = "running"
          /\ RowKept(me) \/ RowAdvances(me)
      BY <2>2, <3>3, <3>4, PersistEffect
    <3> HIDE DEF me
    <3>6. strat' \in [Strategy -> Row] /\ \A s \in Strategy : s # me => strat'[s] = strat[s]
      BY <3>1, <3>2, <3>5
    <3>7. ASSUME NEW s \in Strategy
          PROVE  /\ RowKept(s) \/ RowAdvances(s)
                 /\ torn'[s] >= torn[s]
                 /\ strat'[s].status = "running" => strat[s].status = "running"
      <4>1. CASE s = me
        BY <3>3, <3>5, <4>1
      <4>2. CASE s # me
        <5>1. strat'[s] = strat[s] /\ torn'[s] = torn[s] /\ torn[s] \in Nat
          BY <3>2, <3>3, <3>6, <4>2
        <5> QED BY <5>1 DEF RowKept
      <4> QED BY <4>1, <4>2
    <3> QED BY <3>3, <3>6, <3>7
  <2> QED BY <2>1, <2>2 DEF Crash
<1>5. SchedulerType'
  BY <1>0, <1>1, <1>4 DEF Drop, SchedulerType
<1>6. SlotOnce'
  BY <1>1 DEF SchedulerInv, SlotOnce
<1>7. ASSUME NEW s \in Strategy PROVE StrategyOK(s)'
  <2>1. StrayKept(s)
    BY <1>1, <1>4, <1>7 DEF StrayKept
  <2>2. StrategyOK(s) /\ orders' = orders
    BY <1>1, <1>7 DEF SchedulerInv
  <2> QED BY <1>0, <1>3, <1>4, <1>5, <2>1, <2>2, RowWrite
<1>8. \A u \in Tick : TickOK(u)' /\ FillIsCurrent(u)' /\ \A s \in Strategy : SnapDue(u, s)'
  BY <1>2, GoneTick
<1>9. FillsDistinct'
  BY <1>2, DistinctKept DEF TickGone
<1> QED BY <1>5, <1>6, <1>7, <1>8, <1>9 DEF SchedulerInv

------------------------------------------------------------------------------
(* The owners' requests. *)

\* A request writes rows and leaves the ticks in flight with their copies.
LEMMA RequestStep ==
    ASSUME SchedulerInv, SchedulerType', UNCHANGED <<orders, inFlight, torn>>,
           \A s \in Strategy : /\ RowKept(s) \/ RowDeleted(s) \/ RowCreated(s)
                               /\ StrayKept(s)
    PROVE  SchedulerInv'
<1>0. SchedulerType /\ snap' = snap /\ got' = got /\ orders' = orders /\ torn' = torn
  BY DEF SchedulerInv, inFlight
<1>1. \A u \in Tick : TickSame(u)
  BY DEF TickSame, inFlight
<1>2. SlotOnce'
  BY <1>0 DEF SchedulerInv, SlotOnce
<1>3. ASSUME NEW s \in Strategy PROVE StrategyOK(s)'
  <2>1. StrategyOK(s) /\ torn'[s] >= torn[s]
    BY <1>0, <1>3 DEF SchedulerInv, SchedulerType
  <2> QED BY <1>0, <2>1, RowWrite
<1>4. ASSUME NEW u \in Tick
      PROVE  TickOK(u)' /\ FillIsCurrent(u)' /\ \A s \in Strategy : SnapDue(u, s)'
  <2>1. ASSUME got[u] > 0, strat'[current(u)].status \in Stored
        PROVE  /\ strat[current(u)].status \in Stored
               /\ strat'[current(u)].nextRunAt = strat[current(u)].nextRunAt
    <3>1. current(u) \in Strategy /\ Pending(u, current(u))
      BY <2>1, WalkVisits DEF SchedulerInv, TickOK, current
    <3>2. strat[current(u)].status # "new"
      BY <3>1 DEF SchedulerInv, StrategyOK, Unborn
    <3>3. RowKept(current(u))
      BY <2>1, <3>1, <3>2 DEF RowDeleted, RowCreated, NoRow, Stored
    <3> QED BY <2>1, <3>3 DEF RowKept
  <2> QED BY <1>0, <1>1, <2>1, SameTick
<1>5. FillsDistinct'
  BY <1>1, DistinctKept
<1> QED BY <1>2, <1>3, <1>4, <1>5 DEF SchedulerInv

LEMMA OwnerStep ==
    ASSUME SchedulerInv,
           \/ \E s \in Strategy : \/ Create(s) \/ Delete(s)
                                  \/ \E status \in {"running", "paused"} : PatchStatus(s, status)
           \/ \E o \in Owner : KillSwitch(o)
    PROVE  SchedulerInv'
<1>0. SchedulerType
  BY DEF SchedulerInv
<1>1. ASSUME NEW s \in Strategy, Create(s) PROVE SchedulerInv'
  <2>1. UNCHANGED <<orders, inFlight, clock, torn, stray>>
    BY <1>1 DEF Create
  <2>2. /\ strat' \in [Strategy -> Row]
        /\ \A r \in Strategy : r # s => strat'[r] = strat[r]
        /\ strat[s].status = "new" /\ strat'[s].status = "running"
        /\ strat'[s].nextRunAt = IF OneShot(s) THEN 0 ELSE clock
    BY <1>0, <1>1 DEF Create, SchedulerType, Row, Stored
  <2>3. SchedulerType'
    BY <1>0, <2>1, <2>2 DEF SchedulerType, inFlight
  <2>4. \A r \in Strategy : (RowKept(r) \/ RowCreated(r)) /\ StrayKept(r)
    BY <2>1, <2>2 DEF RowKept, RowCreated, StrayKept
  <2> QED BY <2>1, <2>3, <2>4, RequestStep
<1>2. ASSUME NEW s \in Strategy, Delete(s) PROVE SchedulerInv'
  <2>1. UNCHANGED <<orders, inFlight, clock, torn, stray>>
    BY <1>2 DEF Delete
  <2>2. /\ strat' \in [Strategy -> Row]
        /\ \A r \in Strategy : r # s => strat'[r] = strat[r]
        /\ strat'[s] = NoRow("deleted")
    BY <1>0, <1>2, NoRowType DEF Delete, SchedulerType
  <2>3. SchedulerType'
    BY <1>0, <2>1, <2>2 DEF SchedulerType, inFlight
  <2>4. \A r \in Strategy : (RowKept(r) \/ RowDeleted(r)) /\ StrayKept(r)
    BY <2>1, <2>2 DEF RowKept, RowDeleted, StrayKept, NoRow
  <2> QED BY <2>1, <2>3, <2>4, RequestStep
<1>3. ASSUME NEW s \in Strategy, NEW status \in {"running", "paused"}, PatchStatus(s, status)
      PROVE  SchedulerInv'
  <2>1. UNCHANGED <<orders, inFlight, clock, torn>>
    BY <1>3 DEF PatchStatus
  <2>2. /\ strat' \in [Strategy -> Row]
        /\ \A r \in Strategy : r # s => strat'[r] = strat[r]
        /\ strat[s].status \in Stored /\ strat'[s].status = status
        /\ strat'[s].nextRunAt = strat[s].nextRunAt
        /\ strat'[s].slicesDone = strat[s].slicesDone
    BY <1>0, <1>3 DEF PatchStatus, SchedulerType, Row, Stored
  <2>3. /\ stray' \in [Strategy -> Nat]
        /\ \A r \in Strategy : r # s => stray'[r] = stray[r]
        /\ stray'[s] = IF status = "running" THEN 0 ELSE stray[s]
    BY <1>0, <1>3 DEF PatchStatus, SchedulerType
  <2>4. SchedulerType'
    BY <1>0, <2>1, <2>2, <2>3 DEF SchedulerType, inFlight
  <2>5. \A r \in Strategy : RowKept(r) /\ StrayKept(r)
    BY <2>2, <2>3 DEF RowKept, StrayKept, Stored
  <2> QED BY <2>1, <2>4, <2>5, RequestStep
<1>4. ASSUME NEW o \in Owner, KillSwitch(o) PROVE SchedulerInv'
  <2>1. UNCHANGED <<orders, inFlight, clock, torn, stray>>
    BY <1>4 DEF KillSwitch
  <2>2. ASSUME NEW s \in Strategy
        PROVE  /\ strat'[s] \in Row
               /\ strat'[s].nextRunAt = strat[s].nextRunAt
               /\ strat'[s].slicesDone = strat[s].slicesDone
               /\ \/ strat'[s].status = strat[s].status
                  \/ strat[s].status = "running" /\ strat'[s].status = "paused"
    BY <1>0, <1>4, <2>2 DEF KillSwitch, SchedulerType, Row, Stored
  <2>3. strat' = [s \in Strategy |-> strat'[s]]
    BY <1>4 DEF KillSwitch
  <2>4. SchedulerType'
    <3>1. strat' \in [Strategy -> Row]
      BY <2>2, <2>3
    <3> QED BY <1>0, <2>1, <3>1 DEF SchedulerType, inFlight
  <2>5. \A r \in Strategy : RowKept(r) /\ StrayKept(r)
    BY <2>1, <2>2 DEF RowKept, StrayKept, Stored
  <2> QED BY <2>1, <2>4, <2>5, RequestStep
<1> QED BY <1>1, <1>2, <1>3, <1>4

------------------------------------------------------------------------------
(* The inductive invariant and the theorems. *)

LEMMA SchedulerStart == SchedulerInit => SchedulerInv
<1> SUFFICES ASSUME SchedulerInit PROVE SchedulerInv
  OBVIOUS
<1>1. NoRows \in [Strategy -> Row] /\ IsFiniteSet({})
  BY NoRowType, FS_EmptySet DEF NoRows
<1>2. SchedulerType
  BY <1>1 DEF SchedulerInit, SchedulerType
<1>3. \A s \in Strategy : OrdersOf(s) = {} /\ strat[s] = NoRow("new") /\ torn[s] = 0 /\ stray[s] = 0
  BY DEF SchedulerInit, OrdersOf, NoRows
<1>4. \A t \in Tick, s \in Strategy : ~Pending(t, s) /\ snap[t][s].nextRunAt = 0
  BY DEF SchedulerInit, Pending, NoRows, NoRow
<1>5. \A t \in Tick : got[t] = 0 /\ pc[t] = "idle"
  BY DEF SchedulerInit
<1>6. ASSUME NEW s \in Strategy PROVE StrategyOK(s)
  <2>1. Cardinality(OrdersOf(s)) = 0 /\ Slices[s] \in Nat
    BY <1>3, <1>6, FS_EmptySet, SchedulerAssumption
  <2>2. NoRow("new").status = "new" /\ NoRow("new").nextRunAt = 0 /\ "new" \notin Stored
    BY DEF NoRow, Stored
  <2> QED BY <1>3, <1>4, <1>6, <2>1, <2>2
          DEF StrategyOK, OneSlot, Unborn, RowLeads, SnapsOrdered, SnapCounts, StrayOnce, TwapBound
<1>7. \A t \in Tick : TickOK(t) /\ FillIsCurrent(t) /\ \A s \in Strategy : SnapDue(t, s)
  BY <1>4, <1>5 DEF TickOK, FillIsCurrent, SnapDue
<1>8. SlotOnce /\ FillsDistinct
  BY <1>5 DEF SchedulerInit, SlotOnce, FillsDistinct
<1> QED BY <1>2, <1>6, <1>7, <1>8 DEF SchedulerInv

LEMMA SchedulerStep == SchedulerInv /\ [SchedulerNext]_vars => SchedulerInv'
<1> SUFFICES ASSUME SchedulerInv, [SchedulerNext]_vars PROVE SchedulerInv'
  OBVIOUS
<1>1. CASE UNCHANGED vars
  <2>1. SchedulerType'
    BY <1>1 DEF vars, SchedulerInv, SchedulerType
  <2>2. UNCHANGED <<orders, inFlight, torn, stray, strat>>
    BY <1>1 DEF vars, inFlight
  <2>3. \A s \in Strategy : RowKept(s) /\ StrayKept(s)
    BY <2>2 DEF RowKept, StrayKept
  <2> QED BY <2>1, <2>2, <2>3, RequestStep
<1> QED BY <1>1, NewTick, PlaceStep, TradeStep, RefusedStep, RecordStep, EndStep, CrashStep,
           OwnerStep DEF SchedulerNext

LEMMA SchedulerInvariant == SchedulerSpec => []SchedulerInv
BY SchedulerStart, SchedulerStep, PTL DEF SchedulerSpec

\* However many ticks overlap, however many answers are lost and however often the
\* engine crashes, a one-shot trades once and a TWAP at most its slices, and one more
\* for each crash in the middle of a record (recordFill is not a transaction).
THEOREM TicksNeverOverbuy == SchedulerSpec => []NeverOverbuys
<1>1. SchedulerInv => NeverOverbuys
  <2> SUFFICES ASSUME SchedulerInv, NEW s \in Strategy
               PROVE  /\ OneShot(s) => Cardinality(OrdersOf(s)) <= 1
                      /\ KindOf[s] = "twap" => Cardinality(OrdersOf(s)) <= Slices[s] + torn[s]
    BY DEF NeverOverbuys
  <2>1. ASSUME OneShot(s) PROVE Cardinality(OrdersOf(s)) <= 1
    <3>1. \A o, p \in OrdersOf(s) : o = p
      BY <2>1 DEF SchedulerInv, StrategyOK, OneSlot, SlotOnce, OrdersOf
    <3>2. CASE OrdersOf(s) = {}
      BY <3>2, FS_EmptySet
    <3>3. CASE OrdersOf(s) # {}
      <4>1. PICK o \in OrdersOf(s) : TRUE
        BY <3>3
      <4>2. OrdersOf(s) = {o}
        BY <3>1, <4>1
      <4>3. Cardinality({o}) = 1
        BY FS_Singleton
      <4> QED BY <4>2, <4>3
    <3> QED BY <3>2, <3>3
  <2> QED BY <2>1 DEF SchedulerInv, StrategyOK, TwapBound
<1> QED BY <1>1, SchedulerInvariant, PTL

\* However many ticks hold a copy in which a strategy still runs, pausing, killing or
\* deleting it lets at most one more order through.
THEOREM StopsLetOneThrough == SchedulerSpec => []StopLetsOneThrough
<1>1. SchedulerInv => StopLetsOneThrough
  BY DEF SchedulerInv, StrategyOK, StrayOnce, StopLetsOneThrough
<1> QED BY <1>1, SchedulerInvariant, PTL

\* What RecordsMoveForward says of one strategy.
Forward(s) ==
    strat'[s].status \in Stored =>
        /\ strat'[s].nextRunAt >= strat[s].nextRunAt
        /\ strat'[s].filled >= strat[s].filled
        /\ strat'[s].filled > strat[s].filled => strat'[s].nextRunAt > strat[s].nextRunAt

LEMMA PersistForward ==
    ASSUME SchedulerInv, NEW t \in Tick, pc[t] = "answered", got[t] > 0,
           NEW k \in 1..Len(Writes(current(t))), Persist(t, k),
           torn' \in [Strategy -> Nat], torn'[current(t)] >= torn[current(t)],
           k = Len(Writes(current(t))) \/ torn'[current(t)] = torn[current(t)] + 1,
           NEW s \in Strategy
    PROVE  Forward(s)
<1>1. strat \in [Strategy -> Row] /\ strat[s] \in Row
  BY DEF SchedulerInv, SchedulerType
<1>2. CASE s # current(t)
  <2>1. strat'[s] = strat[s]
    BY <1>1, <1>2, PersistEffect
  <2> QED BY <1>1, <2>1 DEF Forward, Row
<1>3. CASE s = current(t)
  <2>1. strat'[s] \in Row
    BY <1>3, PersistEffect
  <2>2. \/ RowKept(s) /\ strat'[s].filled = strat[s].filled
        \/ RowAdvances(s) /\ strat'[s].filled >= strat[s].filled
    BY <1>3, PersistEffect
  <2> QED BY <1>1, <2>1, <2>2 DEF Forward, RowKept, RowAdvances, Row
<1> QED BY <1>2, <1>3

LEMMA ForwardStep ==
    ASSUME SchedulerInv, [SchedulerNext]_vars, NEW s \in Strategy
    PROVE  Forward(s)
<1>0. SchedulerType /\ strat \in [Strategy -> Row] /\ strat[s] \in Row
      /\ torn \in [Strategy -> Nat] /\ clock \in Nat
  BY DEF SchedulerInv, SchedulerType
<1>1. CASE strat' = strat
  BY <1>0, <1>1 DEF Forward, Row
<1>2. ASSUME NEW t \in Tick, Record(t) PROVE Forward(s)
  <2>1. CASE ~(got[t] > 0)
    BY <1>1, <1>2, <2>1 DEF Record
  <2>2. CASE got[t] > 0
    <3>1. pc[t] = "answered" /\ Persist(t, Len(Writes(current(t)))) /\ torn' = torn
      BY <1>2, <2>2 DEF Record
    <3>2. Len(Writes(current(t))) \in 1..Len(Writes(current(t)))
      BY DEF Writes
    <3>3. current(t) \in Strategy
      BY <3>1, WalkVisits DEF SchedulerInv, TickOK, current
    <3>4. torn' \in [Strategy -> Nat] /\ torn'[current(t)] >= torn[current(t)]
      BY <1>0, <3>1, <3>3
    <3> QED BY <2>2, <3>1, <3>2, <3>4, PersistForward
  <2> QED BY <2>1, <2>2
<1>3. ASSUME NEW t \in Tick, pc[t] = "answered", got[t] > 0,
             NEW k \in 1..(Len(Writes(current(t))) - 1), Persist(t, k),
             torn' = [torn EXCEPT ![current(t)] = @ + 1]
      PROVE  Forward(s)
  <2> DEFINE me == current(t)
  <2>1. me \in Strategy
    BY <1>3, WalkVisits DEF SchedulerInv, TickOK, current
  <2>2. k \in 1..Len(Writes(me))
    <3>1. Len(Writes(me)) \in Nat
      BY DEF Writes
    <3> QED BY <1>3, <3>1
  <2>3. torn' \in [Strategy -> Nat] /\ torn'[me] = torn[me] + 1 /\ torn'[me] >= torn[me]
    <3> HIDE DEF me
    <3>1. torn' = [torn EXCEPT ![me] = @ + 1] /\ torn[me] \in Nat
      BY <1>0, <1>3, <2>1 DEF me
    <3> QED BY <1>0, <2>1, <3>1
  <2> QED BY <1>3, <2>2, <2>3, PersistForward
<1>4. ASSUME NEW r \in Strategy, Create(r) PROVE Forward(s)
  <2>1. CASE s # r
    <3>1. strat'[s] = strat[s]
      BY <1>0, <1>4, <2>1 DEF Create
    <3> QED BY <1>0, <3>1 DEF Forward, Row
  <2>2. CASE s = r
    <3>1. strat[s].nextRunAt = 0
      BY <1>4, <2>2 DEF Create, SchedulerInv, StrategyOK, Unborn
    <3>2. strat'[s].nextRunAt \in Nat /\ strat'[s].filled = strat[s].filled
      BY <1>0, <1>4, <2>2 DEF Create, Row
    <3> QED BY <1>0, <3>1, <3>2 DEF Forward, Row
  <2> QED BY <2>1, <2>2
<1>5. ASSUME NEW r \in Strategy, NEW status \in {"running", "paused"}, PatchStatus(r, status)
      PROVE  Forward(s)
  <2>1. strat'[s].nextRunAt = strat[s].nextRunAt /\ strat'[s].filled = strat[s].filled
    BY <1>0, <1>5 DEF PatchStatus, Row
  <2> QED BY <1>0, <2>1 DEF Forward, Row
<1>6. ASSUME NEW r \in Strategy, Delete(r) PROVE Forward(s)
  <2>1. strat'[s] = strat[s] \/ strat'[s] = NoRow("deleted")
    BY <1>0, <1>6 DEF Delete
  <2> QED BY <1>0, <2>1 DEF Forward, Row, NoRow, Stored
<1>7. ASSUME NEW o \in Owner, KillSwitch(o) PROVE Forward(s)
  <2>1. strat'[s].nextRunAt = strat[s].nextRunAt /\ strat'[s].filled = strat[s].filled
    BY <1>0, <1>7 DEF KillSwitch, Row
  <2> QED BY <1>0, <2>1 DEF Forward, Row
<1>8. \/ strat' = strat
      \/ \E t \in Tick : Record(t)
      \/ \E t \in Tick : \E k \in 1..(Len(Writes(current(t))) - 1) :
            /\ pc[t] = "answered" /\ got[t] > 0 /\ Persist(t, k)
            /\ torn' = [torn EXCEPT ![current(t)] = @ + 1]
      \/ \E r \in Strategy : \/ Create(r) \/ Delete(r)
                             \/ \E status \in {"running", "paused"} : PatchStatus(r, status)
      \/ \E o \in Owner : KillSwitch(o)
  <2>1. Crash => \/ strat' = strat
                 \/ \E t \in Tick : \E k \in 1..(Len(Writes(current(t))) - 1) :
                       /\ pc[t] = "answered" /\ got[t] > 0 /\ Persist(t, k)
                       /\ torn' = [torn EXCEPT ![current(t)] = @ + 1]
    BY DEF Crash
  <2> QED BY <2>1 DEF SchedulerNext, TickBegin, PlaceBegin, OrderFills, PlaceFails, Answer, TickEnd, vars
<1> QED BY <1>1, <1>2, <1>3, <1>4, <1>5, <1>6, <1>7, <1>8

\* Whichever of the overlapping ticks records last, a stored strategy's due time and
\* total never go back, and a total that grows moves the due time on.
THEOREM RecordsOnlyAdvance == SchedulerSpec => RecordsMoveForward
<1>1. SchedulerInv /\ [SchedulerNext]_vars =>
        [\A s \in Strategy :
            strat'[s].status \in Stored =>
               /\ strat'[s].nextRunAt >= strat[s].nextRunAt
               /\ strat'[s].filled >= strat[s].filled
               /\ strat'[s].filled > strat[s].filled =>
                     strat'[s].nextRunAt > strat[s].nextRunAt]_vars
  BY ForwardStep DEF Forward
<1> QED BY <1>1, SchedulerInvariant, PTL DEF SchedulerSpec, RecordsMoveForward

------------------------------------------------------------------------------
(* The resting grid (GridLimit), for any number of ticks.  The timer may      *)
(* begin one while another is in flight, and the run grid_overlap shows what  *)
(* that does; until it has, one tick at most is in flight and what it has     *)
(* read is still so when it acts.                                             *)

\* A step of tick t leaves the other ticks idle.
OthersIdle(t) == \A u \in GridTick : u # t => gtick'[u].pc = "idle"

AllReachable == \A c \in Resting : c[2] \in {rungs[c[1]].cloid, rungs[c[1]].seq + 1}

Side == {"none", "buy", "sell"}
RungState == [state : {"idle", "armed", "holding"}, side : Side, cloid : Nat, seq : Nat]
BookOrder == [st : {"none", "resting", "filled", "canceled"}, side : Side, reduce : BOOLEAN]
TickState ==
    [pc : {"idle", "asking", "open", "cancel", "rung", "placing"},
     status : {"none", "running", "paused", "canceling"},
     open : SUBSET GridCloid, stored : {<<>>} \cup [Rung -> RungState], mark : Nat,
     i : Nat, prev : RungState, state : {"idle", "armed", "holding"}, side : Side,
     cancels : SUBSET GridCloid]

GridType ==
    /\ glStatus \in {"running", "paused", "canceling", "removed"}
    /\ rungs \in [Rung -> RungState]
    /\ book \in [GridCloid -> BookOrder]
    /\ gtick \in [GridTick -> TickState]

\* A rung with nothing of its own to wait for tracks no order.
IdleTracksNothing == \A j \in Rung : rungs[j].state = "idle" => rungs[j].cloid = 0

\* What a tick knows of the book once the open orders have arrived: nothing rests
\* that they do not show, but in the rungs the tick has been through.
TickSees(t) ==
    /\ gtick[t].pc \in {"asking", "open"} => gtick[t].i = 0
    /\ gtick[t].pc = "open" => Resting \subseteq gtick[t].open
    /\ gtick[t].pc \in {"rung", "placing"} =>
          /\ gtick[t].i \in Rung
          /\ gtick[t].stored \in [Rung -> RungState]
          /\ \A c \in Resting : c \in gtick[t].open \/ c[1] < gtick[t].i
          /\ \A j \in Rung : j > gtick[t].i => gtick[t].stored[j] = rungs[j]
    /\ gtick[t].pc = "rung" => gtick[t].stored[gtick[t].i] = rungs[gtick[t].i]
    /\ gtick[t].pc = "placing" =>
          /\ gtick[t].prev.seq = rungs[gtick[t].i].seq
          /\ gtick[t].state # "idle"
          /\ \A c \in Resting : c[1] # gtick[t].i

\* Once the strategy is gone no tick of it will place.
GoneForGood == glStatus = "removed" => \A t \in GridTick : gtick[t].pc \in {"idle", "cancel"}

GridInv ==
    /\ GridType /\ IdleTracksNothing
    /\ \A t \in GridTick : TickSees(t)
    /\ GoneForGood /\ AllReachable /\ RemovedOnlyWhenClear

LEMMA GridRecords ==
    /\ \A seq \in Nat : GridIdle(seq) \in RungState
    /\ \A state \in {"armed", "holding"}, side \in Side, seq \in Nat :
          Tracked(state, side, seq) \in RungState
    /\ GridTick = {} \/ IdleTick \in TickState
    /\ Rung \subseteq Nat /\ GridCloid = Rung \X (1..MaxSeq)
<1>1. GridIdle(0) \in RungState
  BY DEF GridIdle, RungState, Side
<1>2. IdleTick \in TickState
  BY <1>1 DEF IdleTick, TickState, Side
<1> QED BY <1>2, GridLimitAssumption DEF GridIdle, Tracked, RungState, Side, Rung, GridCloid

LEMMA GridStarts == GridInit => GridInv
<1> SUFFICES ASSUME GridInit PROVE GridInv
  OBVIOUS
<1>1. GridType
  <2>1. book \in [GridCloid -> BookOrder]
    BY DEF GridInit, BookOrder, NoOrder, Side
  <2> QED BY <2>1, GridRecords DEF GridInit, GridType
<1>2. Resting = {}
  BY DEF GridInit, Resting, NoOrder
<1>3. \A t \in GridTick : gtick[t].pc = "idle"
  BY DEF GridInit, IdleTick
<1> QED
  BY <1>1, <1>2, <1>3 DEF GridInv, GridInit, IdleTracksNothing, GridIdle, TickSees,
     GoneForGood, AllReachable, RemovedOnlyWhenClear

\* What storing a rung does while the strategy is there.
LEMMA RungStored ==
    ASSUME GridType, glStatus # "removed", NEW i \in Rung, NEW r \in RungState,
           setGridLimitRung(i, r)
    PROVE  /\ rungs' \in [Rung -> RungState]
           /\ rungs'[i] = r
           /\ \A j \in Rung : j # i => rungs'[j] = rungs[j]
BY DEF GridType, setGridLimitRung

\* A tick that leaves rung i behind sees the book as TickSees says, if nothing has
\* changed but in that rung.
LEMMA AdvanceSees ==
    ASSUME GridInv, NEW t \in GridTick, Advance(t),
           gtick[t].pc \in {"rung", "placing"},
           \A c \in Resting' : c \in Resting \/ c[1] = gtick[t].i,
           rungs' \in [Rung -> RungState],
           \A j \in Rung : j # gtick[t].i => rungs'[j] = rungs[j]
    PROVE  gtick' \in [GridTick -> TickState] /\ TickSees(t)'
<1> DEFINE k == gtick[t]
<1>1. k \in TickState /\ TickSees(t)
  BY DEF GridInv, GridType
<1>2. CASE k.i + 1 \in Rung
  <2> DEFINE n == [k EXCEPT !.pc = "rung", !.i = @ + 1, !.prev = GridIdle(0), !.state = "idle", !.side = "none"]
  <2>1. gtick' = [gtick EXCEPT ![t] = n]
    BY <1>2 DEF Advance, Set
  <2>2. n \in TickState
    <3>1. k.i + 1 \in Nat /\ GridIdle(0) \in RungState
      BY <1>1, GridRecords DEF TickState
    <3>2. \A m \in Nat, p \in RungState :
             [k EXCEPT !.pc = "rung", !.i = m, !.prev = p, !.state = "idle", !.side = "none"] \in TickState
      BY <1>1 DEF TickState, Side
    <3> QED BY <3>1, <3>2
  <2>3. gtick' \in [GridTick -> TickState] /\ gtick'[t] = n
    BY <2>1, <2>2 DEF GridInv, GridType
  <2>4. n.pc = "rung" /\ n.i = k.i + 1 /\ n.open = k.open /\ n.stored = k.stored
    BY <1>1 DEF TickState
  <2>5. k.i \in Nat
    BY <1>1 DEF TickState
  <2>6. \A c \in Resting' : c[1] \in Nat
    BY GridRecords DEF Resting
  <2>7. \A c \in Resting' : c \in n.open \/ c[1] < n.i
    <3> TAKE c \in Resting'
    <3>1. c \in k.open \/ c[1] <= k.i
      BY <1>1, <2>5, <2>6 DEF TickSees
    <3> QED BY <3>1, <2>4, <2>5, <2>6
  <2>8. \A j \in Rung : j >= n.i => n.stored[j] = rungs'[j]
    <3> TAKE j \in Rung
    <3> HAVE j >= n.i
    <3>1. j > k.i /\ j # k.i
      BY <2>4, <2>5, GridRecords
    <3> QED BY <3>1, <1>1, <2>4 DEF TickSees
  <2> QED BY <1>1, <1>2, <2>3, <2>4, <2>5, <2>7, <2>8, GridRecords DEF TickSees
<1>3. CASE k.i + 1 \notin Rung
  <2>1. gtick' = [gtick EXCEPT ![t] = IdleTick]
    BY <1>3 DEF Advance, Set
  <2>2. gtick' \in [GridTick -> TickState] /\ gtick'[t] = IdleTick
    BY <2>1, GridRecords DEF GridInv, GridType
  <2> QED BY <2>2 DEF TickSees, IdleTick
<1> QED BY <1>2, <1>3

\* An order taken from the book is gone for every part of the invariant.
LEMMA BookShrinks ==
    ASSUME GridInv, book' \in [GridCloid -> BookOrder], Resting' \subseteq Resting,
           UNCHANGED <<glStatus, rungs, gtick>>
    PROVE  GridInv'
<1>1. \A t \in GridTick : TickSees(t)'
  BY DEF GridInv, TickSees
<1> QED
  BY <1>1 DEF GridInv, GridType, IdleTracksNothing, GoneForGood, AllReachable, RemovedOnlyWhenClear

\* The steps of a tick up to its first rung.
LEMMA TickReads ==
    ASSUME GridInv, NEW t \in GridTick, OthersIdle(t),
           GridTickBegin(t) \/ openOrders(t) \/ GridRead(t) \/ GridTickFails(t)
    PROVE  GridInv'
<1> DEFINE k == gtick[t]
<1>1. k \in TickState /\ TickSees(t)
  BY DEF GridInv, GridType
<1>2. UNCHANGED <<glStatus, rungs, book>> /\ Resting' = Resting
  BY DEF GridTickBegin, openOrders, GridRead, GridTickFails, Resting
<1>3. gtick' \in [GridTick -> TickState] /\ TickSees(t)' /\ (glStatus = "removed" => gtick'[t].pc \in {"idle", "cancel"})
  <2>1. CASE GridTickBegin(t)
    <3> DEFINE n == [IdleTick EXCEPT !.pc = "asking", !.status = glStatus]
    <3>1. n \in TickState
      BY <2>1, GridRecords DEF GridTickBegin, TickState, IdleTick, GridInv, GridType
    <3>2. gtick' \in [GridTick -> TickState] /\ gtick'[t] = n
      BY <2>1, <3>1 DEF GridTickBegin, Set, GridInv, GridType
    <3>3. n.pc = "asking" /\ n.i = 0 /\ glStatus # "removed"
      BY <2>1 DEF GridTickBegin, IdleTick
    <3> QED BY <3>2, <3>3 DEF TickSees
  <2>2. CASE openOrders(t)
    <3> DEFINE n == [k EXCEPT !.pc = "open", !.open = Resting]
    <3>1. n \in TickState
      BY <1>1 DEF TickState, Resting
    <3>2. gtick' \in [GridTick -> TickState] /\ gtick'[t] = n
      BY <2>2, <3>1 DEF openOrders, Set, GridInv, GridType
    <3>3. n.pc = "open" /\ n.open = Resting /\ n.i = 0 /\ glStatus # "removed"
      BY <1>1, <2>2 DEF openOrders, TickState, TickSees, GridInv, GoneForGood
    <3> QED BY <1>2, <3>2, <3>3 DEF TickSees
  <2>3. CASE GridRead(t)
    <3>1. PICK mark \in Mark \ {0} :
             gtick' = [gtick EXCEPT ![t] = [k EXCEPT !.pc = "rung", !.stored = rungs, !.mark = mark]]
      BY <2>3 DEF GridRead, Set
    <3> DEFINE n == [k EXCEPT !.pc = "rung", !.stored = rungs, !.mark = mark]
    <3>2. n \in TickState
      <4>1. rungs \in [Rung -> RungState] /\ mark \in Nat
        BY GridLimitAssumption DEF Mark, GridInv, GridType
      <4> QED BY <1>1, <4>1 DEF TickState
    <3>3. gtick' \in [GridTick -> TickState] /\ gtick'[t] = n
      BY <3>1, <3>2 DEF GridInv, GridType
    <3>4. n.pc = "rung" /\ n.stored = rungs /\ n.open = k.open /\ n.i = k.i
      BY <1>1 DEF TickState
    <3>5. Resting \subseteq k.open /\ k.i = 0 /\ 0 \in Rung /\ glStatus # "removed"
      <4>1. k.pc = "open"
        BY <2>3 DEF GridRead
      <4>2. 0 \in Rung
        BY GridLimitAssumption DEF Rung
      <4> QED BY <1>1, <4>1, <4>2 DEF TickSees, GridInv, GoneForGood
    <3> QED BY <1>2, <3>3, <3>4, <3>5 DEF TickSees, GridInv, GridType
  <2>4. CASE GridTickFails(t)
    <3>1. gtick' \in [GridTick -> TickState] /\ gtick'[t] = IdleTick
      BY <2>4, GridRecords DEF GridTickFails, Set, GridInv, GridType
    <3> QED BY <3>1 DEF IdleTick, TickSees
  <2> QED BY <2>1, <2>2, <2>3, <2>4
<1>4. \A u \in GridTick :
         gtick' \in [GridTick -> TickState] /\ TickSees(u)'
         /\ (glStatus = "removed" => gtick'[u].pc \in {"idle", "cancel"})
  BY <1>3 DEF OthersIdle, TickSees
<1> QED
  BY <1>2, <1>3, <1>4 DEF GridInv, GridType, IdleTracksNothing, GoneForGood, AllReachable, RemovedOnlyWhenClear

\* A drain sees all that rests: it clears no rung with an order of its own out
\* there and removes the strategy only when there is none.
LEMMA DrainKeeps ==
    ASSUME GridInv, NEW t \in GridTick, OthersIdle(t), Drain(t)
    PROVE  GridInv'
<1> DEFINE k        == gtick[t]
           toCancel == {c \in k.open : c \in Candidates(c[1])}
           gone     == {j \in Rung : ~\E c \in toCancel : c[1] = j}
           n        == [k EXCEPT !.pc = "cancel", !.cancels = toCancel]
<1>1. k \in TickState /\ TickSees(t) /\ k.pc = "open"
  BY DEF GridInv, GridType, Drain
<1>2. /\ rungs' = [j \in Rung |-> IF j \in gone /\ rungs[j].cloid # 0 THEN GridIdle(rungs[j].seq) ELSE rungs[j]]
      /\ glStatus' = IF k.status = "canceling" /\ toCancel = {} THEN "removed" ELSE glStatus
      /\ gtick' = [gtick EXCEPT ![t] = n]
      /\ book' = book /\ Resting' = Resting
  BY DEF Drain, Set, Resting
<1>3. \A c \in Resting : c \in toCancel /\ c[1] \in Rung /\ c[1] \notin gone
  <2> TAKE c \in Resting
  <2>1. c \in k.open /\ c \in GridCloid /\ c[1] \in Rung
    BY <1>1, GridRecords DEF TickSees, Resting
  <2>2. c \in Candidates(c[1])
    BY <2>1 DEF Candidates, GridInv, AllReachable
  <2> QED BY <2>1, <2>2
<1> HIDE DEF toCancel, gone
<1>4. \A j \in Rung : \/ rungs'[j] = rungs[j]
                      \/ j \in gone /\ rungs'[j] = GridIdle(rungs[j].seq)
  BY <1>2
<1>5. rungs' \in [Rung -> RungState]
  <2>1. \A j \in Rung : rungs[j] \in RungState /\ rungs[j].seq \in Nat
    BY DEF GridInv, GridType, RungState
  <2> QED BY <1>2, <2>1, GridRecords
<1>6. toCancel \subseteq GridCloid
  BY <1>1 DEF toCancel, TickState
<1>7. n \in TickState /\ n.pc = "cancel"
  BY <1>1, <1>6 DEF TickState
<1>8. gtick' \in [GridTick -> TickState] /\ gtick'[t] = n
  BY <1>2, <1>7 DEF GridInv, GridType
<1>10. GridType'
  BY <1>2, <1>5, <1>8 DEF GridInv, GridType
<1>11. IdleTracksNothing'
  <2>1. \A j \in Rung : GridIdle(rungs[j].seq).cloid = 0
    BY DEF GridIdle
  <2> QED BY <1>4, <2>1 DEF GridInv, IdleTracksNothing
<1>12. \A u \in GridTick : TickSees(u)'
  BY <1>7, <1>8 DEF OthersIdle, TickSees
<1>13. GoneForGood'
  BY <1>7, <1>8 DEF OthersIdle, GoneForGood
<1>14. AllReachable'
  <2> SUFFICES ASSUME NEW c \in Resting PROVE c[2] \in {rungs'[c[1]].cloid, rungs'[c[1]].seq + 1}
    BY <1>2 DEF AllReachable
  <2>1. rungs'[c[1]] = rungs[c[1]]
    BY <1>3, <1>4
  <2> QED BY <2>1 DEF GridInv, AllReachable
<1>15. RemovedOnlyWhenClear'
  BY <1>2, <1>3 DEF GridInv, RemovedOnlyWhenClear
<1> QED BY <1>10, <1>11, <1>12, <1>13, <1>14, <1>15 DEF GridInv

LEMMA CancelKeeps ==
    ASSUME GridInv, NEW t \in GridTick, OthersIdle(t), cancelMany(t)
    PROVE  GridInv'
<1>1. gtick' \in [GridTick -> TickState] /\ gtick'[t] = IdleTick /\ glStatus' = glStatus /\ rungs' = rungs
  BY GridRecords DEF cancelMany, Set, GridInv, GridType
<1>2. book' \in [GridCloid -> BookOrder] /\ Resting' \subseteq Resting
  <2>1. CASE book' = book
    BY <2>1 DEF Resting, GridInv, GridType
  <2>2. CASE book' = [c \in GridCloid |-> IF c \in gtick[t].cancels \cap Resting
                                          THEN [book[c] EXCEPT !.st = "canceled"] ELSE book[c]]
    <3>1. \A c \in GridCloid : book[c] \in BookOrder /\ [book[c] EXCEPT !.st = "canceled"] \in BookOrder
                               /\ [book[c] EXCEPT !.st = "canceled"].st = "canceled"
      BY DEF GridInv, GridType, BookOrder
    <3>2. \A c \in GridCloid : book'[c] = book[c] \/ book'[c] = [book[c] EXCEPT !.st = "canceled"]
      BY <2>2
    <3>3. book' \in [GridCloid -> BookOrder]
      BY <2>2, <3>1
    <3>4. Resting' \subseteq Resting
      BY <3>1, <3>2 DEF Resting
    <3> QED BY <3>3, <3>4
  <2> QED BY <2>1, <2>2 DEF cancelMany
<1>4. \A u \in GridTick : TickSees(u)' /\ gtick'[u].pc = "idle"
  BY <1>1 DEF OthersIdle, IdleTick, TickSees
<1> QED
  BY <1>1, <1>2, <1>4 DEF GridInv, GridType, IdleTracksNothing, GoneForGood, AllReachable, RemovedOnlyWhenClear

\* Leaving a rung whose row points at what rests there.
LEMMA RungDone ==
    ASSUME GridInv, NEW t \in GridTick, OthersIdle(t), Advance(t), glStatus' = glStatus,
           gtick[t].pc \in {"rung", "placing"}, glStatus # "removed",
           book' \in [GridCloid -> BookOrder],
           \A c \in Resting' : c \in Resting \/ c[1] = gtick[t].i,
           NEW r \in RungState, setGridLimitRung(gtick[t].i, r),
           r.state = "idle" => r.cloid = 0,
           \A c \in Resting' : c[1] = gtick[t].i => c[2] \in {r.cloid, r.seq + 1}
    PROVE  GridInv'
<1>1. gtick[t].i \in Rung
  BY DEF GridInv, TickSees
<1>2. /\ rungs' \in [Rung -> RungState] /\ rungs'[gtick[t].i] = r
      /\ \A j \in Rung : j # gtick[t].i => rungs'[j] = rungs[j]
  BY <1>1, RungStored DEF GridInv
<1>3. gtick' \in [GridTick -> TickState] /\ TickSees(t)'
  BY <1>2, AdvanceSees
<1>4. \A u \in GridTick : TickSees(u)'
  BY <1>3 DEF OthersIdle, TickSees
<1>5. AllReachable'
  <2> SUFFICES ASSUME NEW c \in Resting' PROVE c[2] \in {rungs'[c[1]].cloid, rungs'[c[1]].seq + 1}
    BY DEF AllReachable
  <2>1. c[1] \in Rung
    BY GridRecords DEF Resting
  <2> QED BY <1>2, <2>1 DEF GridInv, AllReachable
<1>6. IdleTracksNothing'
  BY <1>2 DEF GridInv, IdleTracksNothing
<1> QED
  BY <1>2, <1>3, <1>4, <1>5, <1>6 DEF GridInv, GridType, GoneForGood, RemovedOnlyWhenClear

\* Placing the next order of a rung of which nothing rests but, perhaps, that order.
LEMMA PlaceKeeps ==
    ASSUME GridInv, NEW t \in GridTick, OthersIdle(t), gtick[t].pc = "rung",
           glStatus' = glStatus, book' = book,
           NEW prev \in RungState, NEW state \in {"armed", "holding"}, NEW side \in Side,
           NEW before \in RungState, before.seq = prev.seq,
           before.state = "idle" => before.cloid = 0,
           \A c \in Resting : c[1] = gtick[t].i => c[2] = prev.seq + 1,
           Place(t, gtick[t].i, prev, state, side, before)
    PROVE  GridInv'
<1> DEFINE k == gtick[t]
<1>1. /\ k \in TickState /\ TickSees(t) /\ k.i \in Rung /\ glStatus # "removed"
      /\ prev.seq \in Nat /\ Resting' = Resting
  BY DEF GridInv, GridType, TickSees, GoneForGood, RungState, Resting
<1>2. CASE <<k.i, prev.seq + 1>> \in k.open
  <2>1. prev.seq + 1 \in Nat
    BY <1>1
  <2>2. /\ Tracked(state, side, prev.seq + 1) \in RungState
        /\ Tracked(state, side, prev.seq + 1).cloid = prev.seq + 1
        /\ Tracked(state, side, prev.seq + 1).state # "idle"
    BY <2>1, GridRecords DEF Tracked
  <2>3. setGridLimitRung(k.i, Tracked(state, side, prev.seq + 1)) /\ Advance(t)
    BY <1>2 DEF Place
  <2> QED BY <1>1, <2>2, <2>3, RungDone DEF GridInv, GridType
<1>3. CASE <<k.i, prev.seq + 1>> \notin k.open
  <2>1. setGridLimitRung(k.i, before) /\ Await(t, prev, state, side)
    BY <1>3 DEF Place
  <2>2. /\ rungs' \in [Rung -> RungState] /\ rungs'[k.i] = before
        /\ \A j \in Rung : j # k.i => rungs'[j] = rungs[j]
    BY <1>1, <2>1, RungStored DEF GridInv
  <2> DEFINE n == [k EXCEPT !.pc = "placing", !.prev = prev, !.state = state, !.side = side]
  <2>3. n \in TickState
    BY <1>1 DEF TickState
  <2>4. gtick' \in [GridTick -> TickState] /\ gtick'[t] = n
    BY <2>1, <2>3 DEF Await, Set, GridInv, GridType
  <2>5. /\ n.pc = "placing" /\ n.prev = prev /\ n.state = state
        /\ n.i = k.i /\ n.open = k.open /\ n.stored = k.stored
    BY <1>1 DEF TickState
  <2>6. \A c \in Resting : c[1] # k.i
    <3> SUFFICES ASSUME NEW c \in Resting, c[1] = k.i PROVE FALSE
      OBVIOUS
    <3>1. c = <<k.i, prev.seq + 1>>
      BY GridRecords DEF Resting
    <3>2. c \in k.open \/ c[1] < k.i
      BY <1>1 DEF TickSees
    <3>3. k.i \in Nat /\ ~(k.i < k.i)
      BY <1>1 DEF TickState
    <3> QED BY <1>3, <3>1, <3>2, <3>3
  <2>7. \A j \in Rung : j > k.i => j # k.i
    <3>1. k.i \in Int /\ ~(k.i > k.i)
      BY <1>1 DEF TickState
    <3> QED BY <3>1
  <2>8. TickSees(t)'
    BY <1>1, <2>2, <2>4, <2>5, <2>6, <2>7 DEF TickSees
  <2>9. \A u \in GridTick : TickSees(u)'
    BY <2>8 DEF OthersIdle, TickSees
  <2>10. AllReachable'
    <3> SUFFICES ASSUME NEW c \in Resting PROVE c[2] \in {rungs'[c[1]].cloid, rungs'[c[1]].seq + 1}
      BY <1>1 DEF AllReachable
    <3>1. c[1] \in Rung /\ c[1] # k.i
      BY <2>6, GridRecords DEF Resting
    <3> QED BY <2>2, <3>1 DEF GridInv, AllReachable
  <2>11. IdleTracksNothing'
    BY <2>2 DEF GridInv, IdleTracksNothing
  <2> QED
    BY <1>1, <2>2, <2>4, <2>9, <2>10, <2>11 DEF GridInv, GridType, GoneForGood, RemovedOnlyWhenClear
<1> QED BY <1>2, <1>3

\* Arming an idle rung, or leaving it idle.
LEMMA ArmKeeps ==
    ASSUME GridInv, NEW t \in GridTick, OthersIdle(t), gtick[t].pc = "rung",
           glStatus' = glStatus, book' = book,
           NEW prev \in RungState, prev.state = "idle", prev.cloid = 0,
           \A c \in Resting : c[1] = gtick[t].i => c[2] = prev.seq + 1,
           Arm(t, gtick[t].i, prev, prev)
    PROVE  GridInv'
<1> DEFINE k == gtick[t]
<1>1. CASE Place(t, k.i, prev, "armed", ArmSide(k.i, k.mark), prev)
  <2>1. ArmSide(k.i, k.mark) \in Side
    BY DEF ArmSide, Side
  <2> HIDE DEF GridInv, Place
  <2> QED BY <1>1, <2>1, PlaceKeeps
<1>2. CASE setGridLimitRung(k.i, prev) /\ Advance(t)
  <2>1. Resting' = Resting /\ book' \in [GridCloid -> BookOrder] /\ glStatus # "removed"
    BY DEF Resting, GridInv, GridType, GoneForGood
  <2> QED BY <1>2, <2>1, RungDone
<1> QED BY <1>1, <1>2 DEF Arm

LEMMA ReconcileKeeps ==
    ASSUME GridInv, NEW t \in GridTick, OthersIdle(t), ReconcileRung(t)
    PROVE  GridInv'
<1> DEFINE k == gtick[t]
           i == k.i
           r == k.stored[i]
           vanished == r.cloid # 0 /\ <<i, r.cloid>> \notin k.open
<1>1. /\ k.pc = "rung" /\ i \in Rung /\ r = rungs[i] /\ r \in RungState
      /\ glStatus # "removed" /\ TickSees(t) /\ k \in TickState
  BY DEF ReconcileRung, GridInv, GridType, GoneForGood, TickSees
<1>2. glStatus' = glStatus /\ book' = book /\ Resting' = Resting
  BY DEF ReconcileRung, Resting
<1>3. r.seq \in Nat /\ r.cloid \in Nat /\ r.side \in Side /\ Opposite(r.side) \in Side
  BY <1>1 DEF RungState, Side, Opposite
<1>4. \A c \in Resting : c[1] = i =>
          c \in k.open /\ c = <<i, c[2]>> /\ c[2] \in {r.cloid, r.seq + 1} /\ c[2] # 0
  <2> SUFFICES ASSUME NEW c \in Resting, c[1] = i
               PROVE  c \in k.open /\ c = <<i, c[2]>> /\ c[2] \in {r.cloid, r.seq + 1} /\ c[2] # 0
    OBVIOUS
  <2>1. c = <<i, c[2]>> /\ c[2] # 0
    BY GridLimitAssumption, GridRecords DEF Resting
  <2>2. i \in Nat /\ ~(i < i)
    BY <1>1 DEF TickState
  <2>3. c \in k.open \/ c[1] < i
    BY <1>1 DEF TickSees
  <2>4. c[2] \in {rungs[i].cloid, rungs[i].seq + 1}
    BY DEF GridInv, AllReachable
  <2> QED BY <1>1, <2>1, <2>2, <2>3, <2>4
<1>5. vanished \/ r.cloid = 0 => \A c \in Resting : c[1] = i => c[2] = r.seq + 1
  <2> SUFFICES ASSUME vanished \/ r.cloid = 0, NEW c \in Resting, c[1] = i PROVE c[2] # r.cloid
    BY <1>4
  <2> QED BY <1>4
<1>6. r.state = "idle" => r.cloid = 0
  BY <1>1 DEF GridInv, IdleTracksNothing
<1>7. CASE r.state = "armed" /\ vanished /\ Place(t, i, r, "holding", Opposite(r.side), rungs[i])
  <2>1. \A c \in Resting : c[1] = i => c[2] = r.seq + 1
    BY <1>5, <1>7
  <2> HIDE DEF r
  <2> QED BY <1>1, <1>2, <1>3, <1>6, <1>7, <2>1, PlaceKeeps
<1>8. CASE r.state = "holding" /\ vanished /\ Arm(t, i, GridIdle(r.seq), GridIdle(r.seq))
  <2>1. \A c \in Resting : c[1] = i => c[2] = r.seq + 1
    BY <1>5, <1>8
  <2>2. /\ GridIdle(r.seq) \in RungState /\ GridIdle(r.seq).state = "idle"
        /\ GridIdle(r.seq).cloid = 0 /\ GridIdle(r.seq).seq = r.seq
    BY <1>3, GridRecords DEF GridIdle
  <2> HIDE DEF r
  <2> QED BY <1>1, <1>2, <1>8, <2>1, <2>2, ArmKeeps
<1>9. CASE r.state = "holding" /\ r.cloid = 0 /\ Place(t, i, r, "holding", r.side, rungs[i])
  <2>1. \A c \in Resting : c[1] = i => c[2] = r.seq + 1
    BY <1>5, <1>9
  <2> HIDE DEF r
  <2> QED BY <1>1, <1>2, <1>3, <1>6, <1>9, <2>1, PlaceKeeps
<1>10. CASE Advance(t) /\ UNCHANGED rungs
  <2>1. setGridLimitRung(i, rungs[i])
    BY <1>1, <1>10 DEF setGridLimitRung, GridInv, GridType
  <2>2. book' \in [GridCloid -> BookOrder]
    BY <1>2 DEF GridInv, GridType
  <2>3. \A c \in Resting' : c[1] = i => c[2] \in {rungs[i].cloid, rungs[i].seq + 1}
    BY <1>1, <1>2, <1>4
  <2> HIDE DEF r
  <2> QED BY <1>1, <1>2, <1>6, <1>10, <2>1, <2>2, <2>3, RungDone
<1>11. CASE r.state = "idle" /\ Arm(t, i, r, rungs[i])
  <2>1. \A c \in Resting : c[1] = i => c[2] = r.seq + 1
    BY <1>5, <1>6, <1>11
  <2> HIDE DEF r
  <2> QED BY <1>1, <1>2, <1>6, <1>11, <2>1, ArmKeeps
<1> QED BY <1>7, <1>8, <1>9, <1>10, <1>11 DEF ReconcileRung

\* The exchange takes the order a tick is placing: it is the next one of the rung
\* and, while it lives, the only one.
LEMMA LandsNext ==
    ASSUME GridInv, NEW t \in GridTick, gtick[t].pc = "placing", Lands(t)
    PROVE  /\ book' \in [GridCloid -> BookOrder]
           /\ \A c \in Resting' : \/ c \in Resting /\ c[1] # gtick[t].i
                                  \/ c = <<gtick[t].i, rungs[gtick[t].i].seq + 1>>
<1> DEFINE k == gtick[t]
           o == <<k.i, k.prev.seq + 1>>
           b == [st |-> "resting", side |-> k.side, reduce |-> k.state = "holding"]
<1>1. k \in TickState /\ TickSees(t)
  BY DEF GridInv, GridType
<1>2. b \in BookOrder
  BY <1>1 DEF BookOrder, TickState
<1>3. o \in GridCloid /\ book' = [book EXCEPT ![o] = b]
  BY DEF Lands
<1>4. book' \in [GridCloid -> BookOrder]
  BY <1>2, <1>3 DEF GridInv, GridType
<1>5. \A c \in Resting' : c \in Resting \/ c = o
  BY <1>3 DEF Resting, GridInv, GridType
<1>6. \A c \in Resting : c[1] # k.i
  BY <1>1 DEF TickSees
<1>7. o = <<k.i, rungs[k.i].seq + 1>>
  BY <1>1 DEF TickSees
<1> QED BY <1>4, <1>5, <1>6, <1>7

LEMMA PlaceLimitKeeps ==
    ASSUME GridInv, NEW t \in GridTick, OthersIdle(t), placeLimit(t)
    PROVE  GridInv'
<1> DEFINE k == gtick[t]
           i == k.i
           r == rungs[i]
<1>1. /\ k.pc = "placing" /\ i \in Rung /\ r \in RungState /\ k \in TickState
      /\ glStatus # "removed" /\ glStatus' = glStatus /\ Advance(t) /\ TickSees(t)
  BY DEF placeLimit, GridInv, GridType, GoneForGood, TickSees
<1>2. /\ k.prev.seq = r.seq /\ k.state \in {"armed", "holding"} /\ k.side \in Side
      /\ r.seq \in Nat /\ \A c \in Resting : c[1] # i
  BY <1>1 DEF TickSees, TickState, RungState
<1>3. /\ afterFailure(t) \in RungState /\ afterFailure(t).seq = r.seq
      /\ afterFailure(t).state = "idle" => afterFailure(t).cloid = 0
  <2>1. CASE k.state = "armed"
    BY <1>1, <2>1 DEF afterFailure, GridInv, IdleTracksNothing
  <2>2. CASE k.state = "holding"
    BY <1>2, <2>2 DEF afterFailure, RungState
  <2> QED BY <1>2, <2>1, <2>2
<1> HIDE DEF r
<1>4. CASE Lands(t) /\ setGridLimitRung(i, Tracked(k.state, k.side, k.prev.seq + 1))
  <2> DEFINE n == Tracked(k.state, k.side, k.prev.seq + 1)
  <2>1. r.seq + 1 \in Nat
    BY <1>2
  <2>2. n \in RungState /\ n.state # "idle" /\ n.cloid = r.seq + 1
    BY <1>2, <2>1, GridRecords DEF Tracked
  <2>3. /\ book' \in [GridCloid -> BookOrder]
        /\ \A c \in Resting' : c \in Resting \/ c[1] = i
        /\ \A c \in Resting' : c[1] = i => c[2] \in {n.cloid, n.seq + 1}
    BY <1>1, <1>4, <2>2, LandsNext DEF r
  <2> HIDE DEF n
  <2>4. setGridLimitRung(i, n)
    BY <1>4 DEF n
  <2> QED BY <1>1, <2>2, <2>3, <2>4, RungDone
<1>5. CASE Lands(t) /\ setGridLimitRung(i, afterFailure(t))
  <2>1. /\ book' \in [GridCloid -> BookOrder]
        /\ \A c \in Resting' : c \in Resting \/ c[1] = i
        /\ \A c \in Resting' : c[1] = i => c[2] \in {afterFailure(t).cloid, afterFailure(t).seq + 1}
    BY <1>1, <1>3, <1>5, LandsNext DEF r
  <2> QED BY <1>1, <1>3, <1>5, <2>1, RungDone
<1>6. CASE book' = book /\ setGridLimitRung(i, afterFailure(t))
  <2>1. /\ book' \in [GridCloid -> BookOrder] /\ Resting' = Resting
    BY <1>6 DEF Resting, GridInv, GridType
  <2> QED BY <1>1, <1>2, <1>3, <1>6, <2>1, RungDone
<1> QED BY <1>4, <1>5, <1>6 DEF placeLimit

\* A crash while an order is on its way leaves it where the next tick looks.
LEMMA CrashKeeps ==
    ASSUME GridInv, GridCrash
    PROVE  GridInv'
<1>1. glStatus' = glStatus /\ rungs' = rungs /\ gtick' = [t \in GridTick |-> IdleTick]
  BY DEF GridCrash
<1>2. gtick' \in [GridTick -> TickState] /\ \A t \in GridTick : gtick'[t] = IdleTick
  BY <1>1, GridRecords
<1>3. \A t \in GridTick : TickSees(t)' /\ gtick'[t].pc = "idle"
  BY <1>2 DEF IdleTick, TickSees
<1>4. /\ book' \in [GridCloid -> BookOrder]
      /\ \A c \in Resting' : c \in Resting \/ c[2] = rungs[c[1]].seq + 1
      /\ glStatus = "removed" => Resting' \subseteq Resting
  <2>1. CASE book' = book
    BY <2>1 DEF Resting, GridInv, GridType
  <2>2. ASSUME NEW t \in GridTick, gtick[t].pc = "placing", Lands(t)
        PROVE  <1>4
    <3>1. glStatus # "removed"
      BY <2>2 DEF GridInv, GoneForGood
    <3> QED BY <2>2, <3>1, LandsNext
  <2> QED BY <2>1, <2>2 DEF GridCrash
<1>5. AllReachable' /\ RemovedOnlyWhenClear'
  BY <1>1, <1>4 DEF GridInv, AllReachable, Reachable, RemovedOnlyWhenClear
<1> QED
  BY <1>1, <1>2, <1>3, <1>4, <1>5 DEF GridInv, GridType, IdleTracksNothing, GoneForGood

\* The owner and the exchange.
LEMMA OthersKeep ==
    ASSUME GridInv,
           \/ \E status \in {"running", "paused"} : GridPatch(status)
           \/ GridDelete
           \/ \E c \in GridCloid : GridFill(c) \/ ForeignCancel(c)
    PROVE  GridInv'
<1>1. CASE GridDelete \/ \E status \in {"running", "paused"} : GridPatch(status)
  <2>1. /\ UNCHANGED <<rungs, book, gtick>> /\ Resting' = Resting
        /\ glStatus' \in {"running", "paused", "canceling"}
    BY <1>1 DEF GridDelete, GridPatch, Resting
  <2>2. \A t \in GridTick : TickSees(t)'
    BY <2>1 DEF GridInv, TickSees
  <2> QED
    BY <2>1, <2>2 DEF GridInv, GridType, IdleTracksNothing, GoneForGood, AllReachable, RemovedOnlyWhenClear
<1>2. ASSUME NEW c \in GridCloid, GridFill(c) \/ ForeignCancel(c)
      PROVE  GridInv'
  <2>1. UNCHANGED <<glStatus, rungs, gtick>>
    BY <1>2 DEF GridFill, ForeignCancel
  <2>2. PICK st \in {"filled", "canceled"} : book' = [book EXCEPT ![c].st = st]
    BY <1>2 DEF GridFill, ForeignCancel
  <2>3. book[c] \in BookOrder /\ [book[c] EXCEPT !.st = st] \in BookOrder
    BY DEF GridInv, GridType, BookOrder
  <2>4. book' = [book EXCEPT ![c] = [book[c] EXCEPT !.st = st]]
    BY <2>2
  <2>5. book' \in [GridCloid -> BookOrder]
    BY <2>3, <2>4 DEF GridInv, GridType
  <2>6. Resting' \subseteq Resting
    BY <2>3, <2>4 DEF Resting, GridInv, GridType, BookOrder
  <2> QED BY <2>1, <2>5, <2>6, BookShrinks
<1> QED BY <1>1, <1>2

\* A tick's step is its own: the others are where they were.
LEMMA TickStepsAlone ==
    ASSUME GridType, NEW t \in GridTick, TickStep(t) \/ GridTickFails(t),
           NEW u \in GridTick, u # t
    PROVE  gtick'[u] = gtick[u]
<1>1. ASSUME NEW n, Set(t, n) PROVE gtick'[u] = gtick[u]
  BY <1>1 DEF Set, GridType
<1>2. ASSUME Advance(t) PROVE gtick'[u] = gtick[u]
  BY <1>1, <1>2 DEF Advance
<1>3. CASE GridTickBegin(t) \/ openOrders(t) \/ Drain(t) \/ cancelMany(t) \/ GridTickFails(t)
  BY <1>1, <1>3 DEF GridTickBegin, openOrders, Drain, cancelMany, GridTickFails
<1>4. CASE GridRead(t)
  BY <1>1, <1>4 DEF GridRead
<1>5. CASE placeLimit(t)
  BY <1>2, <1>5 DEF placeLimit
<1>6. CASE ReconcileRung(t)
  <2>1. ASSUME NEW i, NEW prev, NEW state, NEW side, NEW before,
               Place(t, i, prev, state, side, before)
        PROVE  gtick'[u] = gtick[u]
    BY <1>1, <1>2, <2>1 DEF Place, Await
  <2>2. ASSUME NEW i, NEW prev, NEW before, Arm(t, i, prev, before)
        PROVE  gtick'[u] = gtick[u]
    BY <1>2, <2>1, <2>2 DEF Arm
  <2> QED BY <1>2, <1>6, <2>1, <2>2 DEF ReconcileRung
<1> QED BY <1>3, <1>4, <1>5, <1>6 DEF TickStep

\* As long as no tick has begun beside another, one at most is in flight.
OneInFlight ==
    \A t, u \in GridTick : t # u => gtick[t].pc = "idle" \/ gtick[u].pc = "idle"

UnlessOverlapped == overlapped \in BOOLEAN /\ (~overlapped => GridInv /\ OneInFlight)

LEMMA UnlessOverlappedStep == UnlessOverlapped /\ [GridNext]_gridVars => UnlessOverlapped'
<1> SUFFICES ASSUME UnlessOverlapped, [GridNext]_gridVars PROVE UnlessOverlapped'
  OBVIOUS
<1>1. overlapped' \in BOOLEAN /\ (overlapped => overlapped')
  BY DEF UnlessOverlapped, GridNext, TickStep, GridTickBegin, openOrders, GridRead, Drain,
         cancelMany, ReconcileRung, placeLimit, GridTickFails, GridCrash, GridPatch,
         GridDelete, GridFill, ForeignCancel, gridVars
<1> SUFFICES ASSUME ~overlapped' PROVE GridInv' /\ OneInFlight'
  BY <1>1 DEF UnlessOverlapped
<1>2. GridInv /\ OneInFlight
  BY <1>1 DEF UnlessOverlapped
<1>3. CASE UNCHANGED gridVars
  <2>1. UNCHANGED <<glStatus, rungs, gtick, book>> /\ Resting' = Resting
    BY <1>3 DEF gridVars, Resting
  <2>2. book' \in [GridCloid -> BookOrder]
    BY <1>2, <2>1 DEF GridInv, GridType
  <2> QED BY <1>2, <2>1, <2>2, BookShrinks DEF OneInFlight
<1>4. ASSUME NEW t \in GridTick, TickStep(t) \/ GridTickFails(t)
      PROVE  GridInv' /\ OneInFlight'
  <2>1. \A u \in GridTick : u # t => gtick[u].pc = "idle"
    <3>1. CASE GridTickBegin(t)
      BY <3>1 DEF GridTickBegin
    <3>2. CASE gtick[t].pc # "idle"
      BY <1>2, <3>2 DEF OneInFlight
    <3> QED
      BY <1>4, <3>1, <3>2 DEF TickStep, openOrders, GridRead, Drain, cancelMany, ReconcileRung,
         placeLimit, GridTickFails
  <2>2. OthersIdle(t)
    BY <1>2, <1>4, <2>1, TickStepsAlone DEF OthersIdle, GridInv
  <2>3. OneInFlight'
    BY <2>2 DEF OthersIdle, OneInFlight
  <2>4. CASE GridTickBegin(t) \/ openOrders(t) \/ GridRead(t) \/ GridTickFails(t)
    BY <1>2, <2>2, <2>3, <2>4, TickReads
  <2>5. CASE Drain(t)
    BY <1>2, <2>2, <2>3, <2>5, DrainKeeps
  <2>6. CASE cancelMany(t)
    BY <1>2, <2>2, <2>3, <2>6, CancelKeeps
  <2>7. CASE ReconcileRung(t)
    BY <1>2, <2>2, <2>3, <2>7, ReconcileKeeps
  <2>8. CASE placeLimit(t)
    BY <1>2, <2>2, <2>3, <2>8, PlaceLimitKeeps
  <2> QED BY <1>4, <2>4, <2>5, <2>6, <2>7, <2>8 DEF TickStep
<1>5. CASE GridCrash
  <2>1. \A t \in GridTick : gtick'[t].pc = "idle"
    BY <1>5 DEF GridCrash, IdleTick
  <2> QED BY <1>2, <1>5, <2>1, CrashKeeps DEF OneInFlight
<1>6. CASE \/ \E status \in {"running", "paused"} : GridPatch(status)
           \/ GridDelete
           \/ \E c \in GridCloid : GridFill(c) \/ ForeignCancel(c)
  <2>1. gtick' = gtick
    BY <1>6 DEF GridPatch, GridDelete, GridFill, ForeignCancel
  <2> QED BY <1>2, <1>6, <2>1, OthersKeep DEF OneInFlight
<1> QED BY <1>3, <1>4, <1>5, <1>6 DEF GridNext

LEMMA GridInvariant == GridSpec => []UnlessOverlapped
<1>1. GridInit => UnlessOverlapped
  <2> SUFFICES ASSUME GridInit PROVE UnlessOverlapped
    OBVIOUS
  <2>1. overlapped = FALSE /\ \A t \in GridTick : gtick[t].pc = "idle"
    BY DEF GridInit, IdleTick
  <2> QED BY <2>1, GridStarts DEF UnlessOverlapped, OneInFlight
<1> QED BY <1>1, UnlessOverlappedStep, PTL DEF GridSpec

\* Until a tick of the interval has begun beside another, every resting order of the
\* grid is where adoption and drain look for it, whatever answers are lost, wherever
\* the engine crashes and whoever else cancels the orders; for any number of ticks.
THEOREM NoOrderOutOfReach == GridSpec => []RestingIsReachable
<1>1. UnlessOverlapped => RestingIsReachable
  BY DEF UnlessOverlapped, GridInv, AllReachable, Reachable, RestingIsReachable
<1> QED BY <1>1, GridInvariant, PTL

\* Until a tick of the interval has begun beside another, a deleted grid's row goes
\* only when nothing of it rests, and nothing of it rests ever after; for any number
\* of ticks.
THEOREM RemovedGridsAreClear == GridSpec => []RemovedClearUnlessOverlapped
<1>1. UnlessOverlapped => RemovedClearUnlessOverlapped
  BY DEF UnlessOverlapped, GridInv, RemovedClearUnlessOverlapped
<1> QED BY <1>1, GridInvariant, PTL
=============================================================================
