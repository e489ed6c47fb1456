----------------------------- MODULE Positions -----------------------------
(***************************************************************************)
(* server/src/engine/scheduler.ts, the strategies that follow the mark and *)
(* the position of a coin: TP/SL, trailing stop and the mark-crossing grid *)
(* (longOnly and symmetric), of one owner.                                 *)
(*                                                                         *)
(* Positions and order sizes are counted in lots of the coin, prices in    *)
(* USDC per lot and the grids' levels in USDC: an order is sized in USDC   *)
(* at one mark and turned into lots at another.  A tick holds a copy of    *)
(* each row from its beginning, and its view of the position from the read *)
(* that precedes its decision; other ticks run between its awaits.         *)
(***************************************************************************)
EXTENDS Integers, FiniteSets

CONSTANTS
    PosStrategy,        \* a sequence: the strategies in the order a tick visits them
    PosKind,            \* strategy -> "tpsl", "trailing", "grid" or "longGrid"
    CoinOf,             \* strategy -> coin
    TakeProfit, StopLoss, TrailPct,
    Price,              \* the marks a read may find
    GridLevels,         \* grid lines, from LowerPrice up, GridStep apart
    LowerPrice, GridStep,
    PerLevelUsdc,       \* a level's USDC
    MIN_GRID_NOTIONAL,  \* USDC below which the symmetric grid trades nothing
    InitialPosition,    \* coin -> positions the owner may have when the engine starts
    PosTick,            \* bounds the ticks in flight together
    MaxTicks, MaxPosFaults

Strat == {PosStrategy[n] : n \in DOMAIN PosStrategy}
Coin == {CoinOf[s] : s \in Strat}

ASSUME PositionsAssumption ==
    /\ 1 \in DOMAIN PosStrategy
    /\ PosKind \in [Strat -> {"tpsl", "trailing", "grid", "longGrid"}]
    /\ GridLevels \in Nat \ {0, 1} /\ TrailPct \in 1..99
    /\ Price \subseteq Nat \ {0} /\ {LowerPrice, GridStep} \subseteq Nat \ {0}
    /\ PerLevelUsdc \in Nat /\ MIN_GRID_NOTIONAL \in Nat \ {0}
    /\ InitialPosition \in [Coin -> SUBSET Int] /\ {MaxTicks, MaxPosFaults} \subseteq Nat

VARIABLES
    szi,        \* exchange: coin -> the owner's signed position
    prow,       \* strategy -> status, trailPeak (0: none), lastLevel (-1: none), actionsDone
    traded,     \* exchange: the cloids that traded
    ptick,      \* tick -> where it is and what it holds
    pclock,     \* ticks begun so far: the tick's `now`
    pfaults

posVars == <<szi, prow, traded, ptick, pclock, pfaults>>

NewRow == [status |-> "running", trailPeak |-> 0, lastLevel |-> -1, actionsDone |-> 0]
NoOrderYet == [size |-> 0, side |-> "buy", reduce |-> FALSE, slot |-> <<0, 0>>, level |-> -1]
IdlePos == [pc |-> "idle", now |-> 0, n |-> 0, rows |-> <<>>, szi |-> 0, seen |-> {}, order |-> NoOrderYet]

PosInit ==
    /\ szi \in [Coin -> UNION {InitialPosition[c] : c \in Coin}]
    /\ \A c \in Coin : szi[c] \in InitialPosition[c]
    /\ prow = [s \in Strat |-> NewRow]
    /\ traded = {} /\ pclock = 0 /\ pfaults = 0
    /\ ptick = [t \in PosTick |-> IdlePos]

Abs(n) == IF n < 0 THEN -n ELSE n
Sign(side) == IF side = "buy" THEN 1 ELSE -1

\* The trades of strategy s so far.  A tick keeps those its position counts (seen): a
\* history that nothing it does depends on.
tradesOf(s) == {slot \in traded : slot[1] = s}

------------------------------------------------------------------------------
(* The strategies' tests. *)

tpslTriggered(pos, mark) ==
    \/ pos > 0 /\ (mark >= TakeProfit \/ mark <= StopLoss)
    \/ pos < 0 /\ (mark <= TakeProfit \/ mark >= StopLoss)
closeSide(pos) == IF pos > 0 THEN "sell" ELSE "buy"

updateTrailPeak(pos, mark, prev) ==
    IF prev = 0 THEN mark
    ELSE IF pos > 0 THEN (IF mark > prev THEN mark ELSE prev)
    ELSE (IF mark < prev THEN mark ELSE prev)
trailingTriggered(pos, mark, peak) ==
    \/ pos > 0 /\ 100 * mark <= peak * (100 - TrailPct)
    \/ pos < 0 /\ 100 * mark >= peak * (100 + TrailPct)

roundDiv(a, b) == (2 * a + b) \div (2 * b)
\* The line nearest to the mark; past either end, the end.
bandIndex(mark) ==
    LET raw == roundDiv(mark - LowerPrice, GridStep) IN
    IF raw < 0 THEN 0 ELSE IF raw > GridLevels - 1 THEN GridLevels - 1 ELSE raw
\* Twice the net USDC a symmetric grid wants at a band.
targetNetUsdc2(band) == ((GridLevels - 1) - 2 * band) * PerLevelUsdc

------------------------------------------------------------------------------
(* A tick. *)

PosSet(t, rec) == ptick' = [ptick EXCEPT ![t] = rec]
At(t) == PosStrategy[ptick[t].n]
RowOf(t) == ptick[t].rows[At(t)]
GoOn(t) == PosSet(t, IF ptick[t].n + 1 \in DOMAIN PosStrategy
                     THEN [ptick[t] EXCEPT !.pc = "read", !.n = @ + 1, !.szi = 0, !.seen = {},
                                         !.order = NoOrderYet]
                     ELSE IdlePos)

PosTickBegin(t) ==
    /\ ptick[t].pc = "idle" /\ pclock < MaxTicks
    /\ pclock' = pclock + 1
    /\ PosSet(t, [IdlePos EXCEPT !.pc = "read", !.now = pclock', !.n = 1, !.rows = prow])
    /\ UNCHANGED <<szi, prow, traded, pfaults>>

\* resolvePosition for a strategy that runs in the tick's copy.
resolvePosition(t) ==
    /\ ptick[t].pc = "read"
    /\ IF RowOf(t).status = "running"
       THEN PosSet(t, [ptick[t] EXCEPT !.pc = "decide", !.szi = szi[CoinOf[At(t)]],
                                          !.seen = tradesOf(At(t))])
       ELSE GoOn(t)
    /\ UNCHANGED <<szi, prow, traded, pclock, pfaults>>

\* Close everything; the cloid is of this tick.
CloseOrder(t) ==
    [size |-> Abs(ptick[t].szi), side |-> closeSide(ptick[t].szi), reduce |-> TRUE,
     slot |-> <<At(t), ptick[t].now>>, level |-> -1]

\* Mutant: the cloid is of this tick.
GridOrder_PerTick(t, side, size, band) ==
    [size |-> size, side |-> side, reduce |-> PosKind[At(t)] = "longGrid" /\ side = "sell",
     slot |-> <<At(t), ptick[t].now>>, level |-> band]
\* Move to the band; the cloid is of the actions done when the tick began.
GridOrder(t, side, size, band) ==
    [size |-> size, side |-> side, reduce |-> PosKind[At(t)] = "longGrid" /\ side = "sell",
     slot |-> <<At(t), RowOf(t).actionsDone>>, level |-> band]

AwaitOrder(t, order) == PosSet(t, [ptick[t] EXCEPT !.pc = "placing", !.order = order])

\* TP/SL and trailing stop: nothing without a position; the peak is stored
\* before the test.
DecideClose(t, mark) ==
    LET pos  == ptick[t].szi
        peak == updateTrailPeak(pos, mark, RowOf(t).trailPeak)
        stop == PosKind[At(t)] = "trailing"
        hit  == IF stop THEN trailingTriggered(pos, mark, peak) ELSE tpslTriggered(pos, mark)
    IN  /\ PosKind[At(t)] \in {"tpsl", "trailing"}
        /\ prow' = IF stop /\ pos # 0 /\ peak # RowOf(t).trailPeak
                   THEN [prow EXCEPT ![At(t)].trailPeak = peak] ELSE prow
        /\ IF pos # 0 /\ hit THEN AwaitOrder(t, CloseOrder(t)) ELSE GoOn(t)

\* The placer sizes half of usdc2 at a price it fetches; it places nothing it rounds away.
PlaceUsdc(t, side, usdc2, band) ==
    \E price \in Price :
       LET size == roundDiv(usdc2, 2 * price) IN
       IF size > 0 THEN AwaitOrder(t, GridOrder(t, side, size, band)) ELSE GoOn(t)

\* The symmetric grid reconciles the position's value at the mark to the band's target.
DecideSymmetric(t, mark) ==
    LET band   == bandIndex(mark)
        delta2 == targetNetUsdc2(band) - 2 * ptick[t].szi * mark
    IN
    /\ PosKind[At(t)] = "grid"
    /\ IF RowOf(t).lastLevel = band THEN GoOn(t) /\ UNCHANGED prow
       ELSE IF Abs(delta2) < 2 * MIN_GRID_NOTIONAL
            THEN GoOn(t) /\ prow' = [prow EXCEPT ![At(t)].lastLevel = band]
       ELSE /\ UNCHANGED prow
            /\ \/ PlaceUsdc(t, IF delta2 >= 0 THEN "buy" ELSE "sell", Abs(delta2), band)
               \/ GoOn(t)       \* refused by the caps

\* The long grid buys the lines crossed down and sells the lines crossed up.
DecideLong(t, mark) ==
    LET band == bandIndex(mark)
        last == RowOf(t).lastLevel
    IN
    /\ PosKind[At(t)] = "longGrid"
    /\ IF last = -1 \/ (band > last /\ ptick[t].szi <= 0)
       THEN GoOn(t) /\ prow' = [prow EXCEPT ![At(t)].lastLevel = band]
       ELSE /\ UNCHANGED prow
            /\ \/ band < last /\ PlaceUsdc(t, "buy", 2 * (last - band) * PerLevelUsdc, band)
               \/ band > last /\ PlaceUsdc(t, "sell", 2 * (band - last) * PerLevelUsdc, band)
               \/ band <= last /\ GoOn(t)   \* nothing crossed, or refused by the caps

PosDecide(t) ==
    /\ ptick[t].pc = "decide"
    /\ \E mark \in Price :
         DecideClose(t, mark) \/ DecideSymmetric(t, mark) \/ DecideLong(t, mark)
    /\ UNCHANGED <<szi, traded, pclock, pfaults>>

\* recordTrigger when the whole position was covered, recordGridAction always.
RecordFill(t, filled) ==
    LET s == At(t) IN
    prow' = IF PosKind[s] \in {"grid", "longGrid"}
            THEN [prow EXCEPT ![s].lastLevel = ptick[t].order.level, ![s].actionsDone = @ + 1]
            ELSE IF filled >= Abs(ptick[t].szi) THEN [prow EXCEPT ![s].status = "completed"]
            ELSE prow

\* The immediate-or-cancel order trades some of its size; a reduce-only one no
\* more than the position.  Its answer is recorded, or lost.
PosTrade(t) ==
    LET o == ptick[t].order
        c == CoinOf[At(t)]
    IN
    /\ ptick[t].pc = "placing" /\ o.slot \notin traded
    /\ \E n \in 1..o.size :
         /\ o.reduce => n <= Abs(szi[c]) /\ o.side = closeSide(szi[c])
         /\ szi' = [szi EXCEPT ![c] = @ + Sign(o.side) * n]
         /\ \/ RecordFill(t, n) /\ UNCHANGED pfaults
            \/ pfaults < MaxPosFaults /\ pfaults' = pfaults + 1 /\ UNCHANGED prow
    /\ traded' = traded \cup {o.slot}
    /\ GoOn(t)
    /\ UNCHANGED pclock

PosRefused(t) ==
    /\ ptick[t].pc = "placing"
    /\ GoOn(t)
    /\ UNCHANGED <<szi, prow, traded, pclock, pfaults>>

\* A mark or a position could not be had: the tick ends.
PosTickFails(t) ==
    /\ ptick[t].pc \in {"read", "decide"}
    /\ PosSet(t, IdlePos)
    /\ UNCHANGED <<szi, prow, traded, pclock, pfaults>>

PosNext ==
    \E t \in PosTick :
        \/ PosTickBegin(t) \/ resolvePosition(t) \/ PosDecide(t)
        \/ PosTrade(t) \/ PosRefused(t) \/ PosTickFails(t)

PosSpec == PosInit /\ [][PosNext]_posVars

------------------------------------------------------------------------------
(* Properties. *)

\* Every order of a symmetric grid is sized from the actual position, so that partial and
\* rounded fills correct themselves (scheduler.ts:255-257): an order that can still trade
\* was sized from a position that counts every trade the grid has made, although ticks
\* overlap, hold old rows, fill in part and lose answers, and whatever else trades the coin.
SizedFromItsTrades ==
    \A t \in PosTick :
        ptick[t].pc = "placing" /\ PosKind[At(t)] = "grid" /\ ptick[t].order.slot \notin traded
            => tradesOf(At(t)) \subseteq ptick[t].seen

=============================================================================
