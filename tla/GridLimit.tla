----------------------------- MODULE GridLimit -----------------------------
(***************************************************************************)
(* server/src/engine/scheduler.ts, the resting limit grid: one gridLimit   *)
(* strategy, its rows of grid_orders, the ticks that reconcile them with   *)
(* the owner's open orders, and the exchange's book.                       *)
(*                                                                         *)
(* A rung owns the cloids gl:<rung>:<seq>; a cloid is <<rung, seq>> here.  *)
(* Prices are counted in half steps from the lowest grid line, so that the *)
(* buy line, the centre and the sell line of rung i are 2i, 2i+1, 2i+2.    *)
(* A request to the exchange has been served, or never will be, when its   *)
(* caller stops waiting for it.                                            *)
(***************************************************************************)
EXTENDS Integers, FiniteSets, FiniteSetsExt

CONSTANTS
    Levels,         \* grid lines
    Symmetric,      \* mode = "symmetric"
    GridTick,       \* bounds the ticks in flight together
    GridKill,       \* GLOBAL_KILL
    ForeignCancels, \* cancels the engine did not ask for (the owner, a dead-man trigger)
    MaxSeq,         \* bound on the orders of one rung
    MaxDrains,      \* bound on pauses
    MaxGridFaults   \* bound on lost answers, failed calls and crashes

ASSUME GridLimitAssumption ==
    /\ Levels \in Nat \ {0, 1} /\ Symmetric \in BOOLEAN /\ GridKill \in BOOLEAN
    /\ {MaxSeq, MaxDrains, MaxGridFaults, ForeignCancels} \subseteq Nat

Mark == 0..(2 * Levels - 1)
\* rungCount: each rung buys at its line and sells at the next.
Rung == 0..(Levels - 2)
rungBuyPrice(i) == 2 * i
rungSellPrice(i) == 2 * (i + 1)
armable(i, mark) == rungBuyPrice(i) < mark
rungIsShort(i, mark) == 2 * i + 1 >= mark
armableShort(i, mark) == rungSellPrice(i) > mark

GridCloid == Rung \X (1..MaxSeq)
GridIdle(seq) == [state |-> "idle", side |-> "none", cloid |-> 0, seq |-> seq]
NoOrder == [st |-> "none", side |-> "none", reduce |-> FALSE]

VARIABLES
    glStatus,   \* the strategy's status, "removed" once its rows are deleted
    rungs,      \* grid_orders: rung -> RungState
    book,       \* exchange: cloid -> what became of it
    gtick,      \* tick -> where it is and what it holds
    glFaults, foreign, drains,
    overlapped  \* history: a tick has begun while another was in flight

gridVars == <<glStatus, rungs, book, gtick, glFaults, foreign, drains, overlapped>>

\* status, open, stored, mark: the tick's copies; i: the rung it is at; place: the
\* order it awaits; cancels: the cloids it will cancel at its end.
IdleTick == [pc |-> "idle", status |-> "none", open |-> {}, stored |-> <<>>, mark |-> 0,
             i |-> 0, prev |-> GridIdle(0), state |-> "idle", side |-> "none", cancels |-> {}]

GridInit ==
    /\ glStatus = "running"
    /\ rungs = [i \in Rung |-> GridIdle(0)]
    /\ book = [c \in GridCloid |-> NoOrder]
    /\ gtick = [t \in GridTick |-> IdleTick]
    /\ glFaults = 0 /\ foreign = 0 /\ drains = 0
    /\ overlapped = FALSE

GridFault == glFaults < MaxGridFaults /\ glFaults' = glFaults + 1
Set(t, rec) == gtick' = [gtick EXCEPT ![t] = rec]
Resting == {c \in GridCloid : book[c].st = "resting"}
Opposite(side) == IF side = "buy" THEN "sell" ELSE "buy"

\* Coins the filled orders in cs leave: a buy adds one rung's size, a sell takes it.
Inventory(cs) ==
    Cardinality({c \in cs : book[c].st = "filled" /\ book[c].side = "buy"})
    - Cardinality({c \in cs : book[c].st = "filled" /\ book[c].side = "sell"})

------------------------------------------------------------------------------
(* A tick: the owner's open orders, then rung by rung. *)

\* The timer fires, whatever has become of the tick before.  listAll; the first await
\* is the mark, or the open orders of a strategy to drain.
GridTickBegin(t) ==
    /\ gtick[t].pc = "idle" /\ glStatus # "removed"
    /\ Set(t, [IdleTick EXCEPT !.pc = "asking", !.status = glStatus])
    /\ overlapped' = (overlapped \/ \E u \in GridTick : gtick[u].pc # "idle")
    /\ UNCHANGED <<glStatus, rungs, book, glFaults, foreign, drains>>

\* The exchange answers frontendOpenOrders; the answer is on its way.
openOrders(t) ==
    /\ gtick[t].pc = "asking"
    /\ Set(t, [gtick[t] EXCEPT !.pc = "open", !.open = Resting])
    /\ UNCHANGED <<glStatus, rungs, book, glFaults, foreign, drains, overlapped>>

Drains(t) == GridKill \/ gtick[t].status # "running"

\* A running strategy's rungs are read after the open orders have arrived.
GridRead(t) ==
    /\ gtick[t].pc = "open" /\ ~Drains(t)
    /\ \E mark \in Mark \ {0} :
         Set(t, [gtick[t] EXCEPT !.pc = "rung", !.stored = rungs, !.mark = mark])
    /\ UNCHANGED <<glStatus, rungs, book, glFaults, foreign, drains, overlapped>>

\* Mutant: the order a crash may have left behind is not looked for.
Candidates_TrackedOnly(i) == {c \in GridCloid : c[1] = i /\ c[2] = rungs[i].cloid}
\* The orders a drain looks for: the tracked one and a crash's orphan after it.
Candidates(i) == {c \in GridCloid : c[1] = i /\ c[2] \in {rungs[i].cloid, rungs[i].seq + 1}}

\* Collect what rests, clear the rungs whose orders are gone, and remove a
\* canceling strategy once nothing rests.  Writes to a removed strategy's rows
\* are of no consequence.
Drain(t) ==
    LET toCancel == {c \in gtick[t].open : c \in Candidates(c[1])}
        gone     == {i \in Rung : ~\E c \in toCancel : c[1] = i}
    IN  /\ gtick[t].pc = "open" /\ Drains(t)
        /\ rungs' = [i \in Rung |-> IF i \in gone /\ rungs[i].cloid # 0
                                    THEN GridIdle(rungs[i].seq) ELSE rungs[i]]
        /\ glStatus' = IF gtick[t].status = "canceling" /\ toCancel = {} THEN "removed" ELSE glStatus
        /\ Set(t, [gtick[t] EXCEPT !.pc = "cancel", !.cancels = toCancel])
        /\ UNCHANGED <<book, glFaults, foreign, drains, overlapped>>

\* cancelMany at the end of the tick.  A chunk that fails is not reported: the
\* next tick looks again.
cancelMany(t) ==
    /\ gtick[t].pc = "cancel"
    /\ \/ book' = [c \in GridCloid |-> IF c \in gtick[t].cancels \cap Resting
                                   THEN [book[c] EXCEPT !.st = "canceled"] ELSE book[c]]
          /\ UNCHANGED glFaults
       \/ gtick[t].cancels # {} /\ GridFault /\ UNCHANGED book
    /\ Set(t, IdleTick)
    /\ UNCHANGED <<glStatus, rungs, foreign, drains, overlapped>>

\* Store rung i and go on, unless its strategy is gone.
setGridLimitRung(i, r) ==
    rungs' = IF glStatus = "removed" THEN rungs ELSE [rungs EXCEPT ![i] = r]
Advance(t) ==
    LET k == gtick[t] IN
    Set(t, IF k.i + 1 \in Rung
           THEN [k EXCEPT !.pc = "rung", !.i = @ + 1, !.prev = GridIdle(0), !.state = "idle", !.side = "none"]
           ELSE IdleTick)
Await(t, prev, state, side) ==
    Set(t, [gtick[t] EXCEPT !.pc = "placing", !.prev = prev, !.state = state, !.side = side])
Tracked(state, side, seq) == [state |-> state, side |-> side, cloid |-> seq, seq |-> seq]

\* placeSell, placeTpBuy, placeBuy and placeShortEntry: adopt the next cloid when
\* it rests already, otherwise place it.  before: what the tick already stored.
Place(t, i, prev, state, side, before) ==
    IF <<i, prev.seq + 1>> \in gtick[t].open
    THEN setGridLimitRung(i, Tracked(state, side, prev.seq + 1)) /\ Advance(t)
    ELSE setGridLimitRung(i, before) /\ Await(t, prev, state, side)

\* Direction and price test of an idle rung.
ArmSide(i, mark) == IF Symmetric /\ rungIsShort(i, mark) THEN "sell" ELSE "buy"
CanArm(i, mark) ==
    IF Symmetric /\ rungIsShort(i, mark) THEN armableShort(i, mark) ELSE armable(i, mark)

\* placeBuy or placeShortEntry.  An order that rests already is adopted before
\* the caps are asked; the caps (module Scheduler) may refuse at any time.
Arm(t, i, prev, before) ==
    LET mark == gtick[t].mark IN
    \/ CanArm(i, mark) /\ Place(t, i, prev, "armed", ArmSide(i, mark), before)
    \/ /\ CanArm(i, mark) => <<i, prev.seq + 1>> \notin gtick[t].open
       /\ setGridLimitRung(i, before) /\ Advance(t)

\* One rung of the running strategy, from the tick's own copy of it.  A tracked
\* order that is not among the open ones is taken for filled.
ReconcileRung(t) ==
    LET i        == gtick[t].i
        r        == gtick[t].stored[i]
        vanished == r.cloid # 0 /\ <<i, r.cloid>> \notin gtick[t].open
    IN  /\ gtick[t].pc = "rung"
        /\ \/ r.state = "armed" /\ vanished
              /\ Place(t, i, r, "holding", Opposite(r.side), rungs[i])
           \/ r.state = "holding" /\ vanished /\ Arm(t, i, GridIdle(r.seq), GridIdle(r.seq))
           \/ r.state = "holding" /\ r.cloid = 0 /\ Place(t, i, r, "holding", r.side, rungs[i])
           \/ r.cloid # 0 /\ ~vanished /\ Advance(t) /\ UNCHANGED rungs
           \/ r.state = "idle" /\ Arm(t, i, r, rungs[i])
        /\ UNCHANGED <<glStatus, book, glFaults, foreign, drains, overlapped>>

\* Mutant: a take-profit that was not placed uses up its sequence number.
afterFailure_SeqSpent(t) ==
    LET k == gtick[t] IN
    IF k.state = "armed" THEN rungs[k.i]
    ELSE [state |-> "holding", side |-> k.side, cloid |-> 0, seq |-> k.prev.seq + 1]
\* An entry that was not placed leaves its rung; a take-profit is retried later.
afterFailure(t) ==
    LET k == gtick[t] IN
    IF k.state = "armed" THEN rungs[k.i]
    ELSE [state |-> "holding", side |-> k.side, cloid |-> 0, seq |-> k.prev.seq]

\* The exchange takes the order, and never takes a cloid twice.
Lands(t) ==
    LET k == gtick[t]
        c == <<k.i, k.prev.seq + 1>>
    IN  /\ c \in GridCloid /\ book[c] = NoOrder
        /\ book' = [book EXCEPT ![c] = [st |-> "resting", side |-> k.side, reduce |-> k.state = "holding"]]

\* placeLimit: the order rests and its answer arrives, or is lost; or nothing was placed.
placeLimit(t) ==
    LET k == gtick[t] IN
    /\ k.pc = "placing"
    /\ \/ Lands(t) /\ setGridLimitRung(k.i, Tracked(k.state, k.side, k.prev.seq + 1)) /\ UNCHANGED glFaults
       \/ Lands(t) /\ setGridLimitRung(k.i, afterFailure(t)) /\ GridFault
       \/ setGridLimitRung(k.i, afterFailure(t)) /\ UNCHANGED <<book, glFaults>>
    /\ Advance(t)
    /\ UNCHANGED <<glStatus, foreign, drains, overlapped>>

\* A read throws: the tick ends, the cancels it had collected with it.
GridTickFails(t) ==
    /\ gtick[t].pc \in {"asking", "open", "rung"} /\ GridFault
    /\ Set(t, IdleTick)
    /\ UNCHANGED <<glStatus, rungs, book, foreign, drains, overlapped>>

\* The process dies and starts again; an order on its way may have landed.
GridCrash ==
    /\ GridFault
    /\ \/ UNCHANGED book
       \/ \E t \in GridTick : gtick[t].pc = "placing" /\ Lands(t)
    /\ gtick' = [t \in GridTick |-> IdleTick]
    /\ UNCHANGED <<glStatus, rungs, foreign, drains, overlapped>>

------------------------------------------------------------------------------
(* The owner's requests and the exchange. *)

\* Mutant: a strategy being deleted may be set running or paused.
GridPatch_Canceling(status) ==
    /\ glStatus \in {"running", "paused", "canceling"} \ {status}
    /\ status = "paused" => drains < MaxDrains
    /\ drains' = IF status = "paused" THEN drains + 1 ELSE drains
    /\ glStatus' = status
    /\ UNCHANGED <<rungs, book, gtick, glFaults, foreign, overlapped>>
\* PATCH: refused while canceling.
GridPatch(status) ==
    /\ glStatus \in {"running", "paused"} \ {status}
    /\ status = "paused" => drains < MaxDrains
    /\ drains' = IF status = "paused" THEN drains + 1 ELSE drains
    /\ glStatus' = status
    /\ UNCHANGED <<rungs, book, gtick, glFaults, foreign, overlapped>>

\* DELETE of a gridLimit strategy only asks for its drain.
GridDelete ==
    /\ glStatus \in {"running", "paused"}
    /\ glStatus' = "canceling"
    /\ UNCHANGED <<rungs, book, gtick, glFaults, foreign, drains, overlapped>>

\* A resting order trades; a reduce-only one only against an open position.
GridFill(c) ==
    /\ book[c].st = "resting"
    /\ book[c].reduce => IF book[c].side = "sell" THEN Inventory(GridCloid) > 0 ELSE Inventory(GridCloid) < 0
    /\ book' = [book EXCEPT ![c].st = "filled"]
    /\ UNCHANGED <<glStatus, rungs, gtick, glFaults, foreign, drains, overlapped>>

\* The owner cancels an order by hand, or the account's dead-man switch fires.
ForeignCancel(c) ==
    /\ foreign < ForeignCancels
    /\ book[c].st = "resting"
    /\ foreign' = foreign + 1
    /\ book' = [book EXCEPT ![c].st = "canceled"]
    /\ UNCHANGED <<glStatus, rungs, gtick, glFaults, drains, overlapped>>

TickStep(t) ==
    \/ GridTickBegin(t) \/ openOrders(t) \/ GridRead(t) \/ Drain(t) \/ cancelMany(t)
    \/ ReconcileRung(t) \/ placeLimit(t)

GridNext ==
    \/ \E t \in GridTick : TickStep(t) \/ GridTickFails(t)
    \/ GridCrash
    \/ \E status \in {"running", "paused"} : GridPatch(status)
    \/ GridDelete
    \/ \E c \in GridCloid : GridFill(c) \/ ForeignCancel(c)

\* The timer keeps firing and every await ends (the clients have timeouts).
GridFairness == \A t \in GridTick : WF_gridVars(TickStep(t))
GridSpec == GridInit /\ [][GridNext]_gridVars /\ GridFairness

------------------------------------------------------------------------------
(* Properties. *)

Reachable(c) == c[2] \in {rungs[c[1]].cloid, rungs[c[1]].seq + 1}

\* Every order of the strategy that rests is the one its rung tracks or the next
\* one of the rung, where adoption and drain look for it - whatever answers were
\* lost and wherever the engine crashed.  Until a tick of the interval has begun
\* while another was in flight, no order is ever out of reach.
RestingIsReachable == ~overlapped => \A c \in Resting : Reachable(c)

\* "a `canceling` strategy is not removed while any of its orders may still be live".
RemovedOnlyWhenClear == glStatus = "removed" => Resting = {}

\* It holds of a grid whose ticks have never overlapped, through lost answers, failed
\* cancels, crashes and cancels of others: once its row is gone nothing of it rests.
RemovedClearUnlessOverlapped == ~overlapped => RemovedOnlyWhenClear

\* A deleted grid is removed in the end: its drain cannot get stuck.
DeletedGridGoes == glStatus = "canceling" ~> glStatus = "removed"
=============================================================================
