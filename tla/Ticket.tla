------------------------------- MODULE Ticket -------------------------------
(***************************************************************************)
(* The order ticket of the trade screen: the form and its controls, the    *)
(* checks a tap runs, the order actions it builds (single, trigger,        *)
(* bracket, scale, TWAP), and the cloid it keeps to retry an order whose   *)
(* receipt was uncertain.  Prices move and the user keeps typing while a   *)
(* submit awaits: a submit works on the form as it was when it was tapped. *)
(*                                                                         *)
(* Prices are integers; a size is a number of 1/LotParts of a lot, or of   *)
(* USDC.  Leverage, margin mode, time in force and the TWAP's randomising  *)
(* pass through unread: changing one only drops the retry.                 *)
(***************************************************************************)
EXTENDS Naturals, Sequences, FiniteSets

CONSTANTS
  TicketCoin,    \* the markets
  Typed,         \* prices the user may type
  Mid,           \* mids and book centres the feeds may show
  TypedSize,     \* sizes the user may type, in the unit of the ticket
  LotParts,      \* the fractions of a lot a size can hold
  MinNotional,   \* MIN_NOTIONAL_USD
  MaxTicketEdits,   \* bound: edits of the ticket
  MaxSubmits        \* bound: order actions signed

ASSUME TicketAssumption ==
  /\ TicketCoin # {}
  /\ {LotParts, MinNotional, MaxTicketEdits, MaxSubmits} \subseteq Nat \ {0}
  /\ Typed \cup Mid \cup TypedSize \subseteq Nat \ {0}

VARIABLES
  ticket,      \* the fields of the ticket
  mid,       \* the live mid, 0 before the ticker is there
  book,      \* centre and depth of the live book
  retry,     \* retryCloid
  doubt,     \* uncertain: the notice with the retry button
  flight,    \* the submit in flight with the ticket it captured
  sent,      \* every order action signed, in order; refused: the builder refused a
             \* submit after it and before the next
  edits      \* how often the ticket was changed

ticketVars == <<ticket, mid, book, retry, doubt, flight, sent, edits>>

Side == {"buy", "sell"}
NoRetry == <<>>
NoFlight == [at |-> "idle"]

---------------------------------------------------------------------------
(* Order types and prices.                                                 *)

OrderTypes == {"market", "limit", "stopLimit", "stopMarket", "tpLimit", "tpMarket",
               "twap", "scale"}

orderTypeShape(type) ==
  [isTrigger |-> type \in {"stopLimit", "stopMarket", "tpLimit", "tpMarket"},
   triggerIsMarket |-> type \in {"stopMarket", "tpMarket"},
   usesLimitPrice |-> type \in {"limit", "stopLimit", "tpLimit"},
   tpsl |-> IF type \in {"tpLimit", "tpMarket"} THEN "tp" ELSE "sl"]

BboMode == {"opp1", "opp5", "queue1", "queue5"}

\* The n-th level, or the last one of a shallower book, on the side the mode
\* names; 0 when the book is empty.
bboPrice(b, mode, side) ==
  LET level == IF mode \in {"opp5", "queue5"} THEN 5 ELSE 1
      n == IF level < b.depth THEN level ELSE b.depth
      useAsk == (side = "buy") <=> (mode \in {"opp1", "opp5"})
  IN  IF b.depth = 0 THEN 0 ELSE IF useAsk THEN b.centre + n ELSE b.centre - n

\* mid plus or minus five per cent, the bound of a "market" order.
marketSlippagePrice(m, side) == IF side = "buy" THEN (m * 105) \div 100 ELSE (m * 95) \div 100

buildScaleLevels(start, end, count) ==
  [i \in 1 .. count |->
     IF end >= start THEN start + ((end - start) * (i - 1)) \div (count - 1)
     ELSE start - ((start - end) * (i - 1)) \div (count - 1)]

---------------------------------------------------------------------------
(* Sizes and checks.                                                       *)

\* Math.round of parts/pieces lots.
roundSize(parts, pieces) == (2 * parts + pieces * LotParts) \div (2 * pieces * LotParts)

toBaseSize(unit, value, price) ==
  IF unit = "base" THEN value ELSE IF price = 0 THEN 0 ELSE (value * LotParts) \div price

validateOrder(price, parts, pieces) ==
  IF price = 0 THEN "priceRejected"
  ELSE IF parts = 0 \/ roundSize(parts, pieces) = 0 THEN "sizeRejected"
  ELSE IF roundSize(parts, pieces) * price < MinNotional THEN "minTradeNtlRejected"
  ELSE "ok"

\* A long's take-profit is above and its stop below the entry; a short's the
\* other way round.
validateTriggerSide(side, entryPx, triggerPx, tpsl) ==
  /\ triggerPx > 0 /\ entryPx > 0
  /\ IF (side = "buy") <=> (tpsl = "tp") THEN triggerPx > entryPx ELSE triggerPx < entryPx

---------------------------------------------------------------------------
(* What is signed.  A cloid is a primary with a leg index mixed into its   *)
(* low two bytes; index 0 is the primary itself.                           *)

\* Mutant: every build draws new ids for the secondary legs.
deriveCloid_Fresh(primary, i) ==
  IF i = 0 THEN primary ELSE <<primary[1], i + 100 * (Len(sent) + 1)>>

deriveCloid(primary, i) == IF i = 0 THEN primary ELSE <<primary[1], (primary[2] + i) % 65536>>

generateCloid == <<Len(sent) + 1, 0>>

orderTuple(f, side, px, lots, reduceOnly, trigger, cloid) ==
  [coin |-> f.coin, side |-> side, px |-> px, lots |-> lots, reduceOnly |-> reduceOnly,
   trigger |-> trigger, cloid |-> cloid]

NoTrigger == [px |-> 0, isMarket |-> FALSE, tpsl |-> "none"]
Rejected == <<>>

buildOrder(f, side, px, base, cloid) ==
  LET shape == orderTypeShape(f.type)
  IN  IF validateOrder(px, base, 1) # "ok" THEN Rejected
      ELSE <<orderTuple(f, side, px, roundSize(base, 1), f.reduceOnly,
                IF shape.isTrigger
                THEN [px |-> f.stop, isMarket |-> shape.triggerIsMarket, tpsl |-> shape.tpsl]
                ELSE NoTrigger, cloid)>>

bracketLegs(f) ==
  (IF f.tp > 0 THEN <<[px |-> f.tp, isMarket |-> TRUE, tpsl |-> "tp"]>> ELSE <<>>)
    \o (IF f.sl > 0 THEN <<[px |-> f.sl, isMarket |-> TRUE, tpsl |-> "sl"]>> ELSE <<>>)

buildBracketOrder(f, side, px, base, cloid) ==
  LET legs == bracketLegs(f)
      closeSide == IF side = "buy" THEN "sell" ELSE "buy"
  IN  IF \E p \in {px} \cup {legs[i].px : i \in DOMAIN legs} : validateOrder(p, base, 1) # "ok"
      THEN Rejected
      ELSE <<orderTuple(f, side, px, roundSize(base, 1), f.reduceOnly, NoTrigger, cloid)>>
           \o [i \in DOMAIN legs |->
                 orderTuple(f, closeSide, legs[i].px, roundSize(base, 1), TRUE, legs[i],
                            deriveCloid(cloid, i))]

buildScaleOrder(f, side, base, cloid) ==
  LET levels == buildScaleLevels(f.start, f.end, f.count)
  IN  IF \E i \in DOMAIN levels : validateOrder(levels[i], base, f.count) # "ok" THEN Rejected
      ELSE [i \in DOMAIN levels |->
              orderTuple(f, side, levels[i], roundSize(base, f.count), f.reduceOnly, NoTrigger,
                         deriveCloid(cloid, i - 1))]

buildTwap(f, side, base) ==
  IF roundSize(base, 1) = 0 THEN Rejected
  ELSE <<orderTuple(f, side, 0, roundSize(base, 1), f.reduceOnly, NoTrigger, NoRetry)>>

---------------------------------------------------------------------------
(* The form.                                                               *)

TicketInit ==
  /\ ticket = [coin |-> CHOOSE c \in TicketCoin : TRUE, type |-> "limit", unit |-> "base",
             size |-> 0, price |-> 0, edited |-> FALSE, bbo |-> "custom", stop |-> 0,
             tpSlOn |-> FALSE, tp |-> 0, sl |-> 0, reduceOnly |-> FALSE,
             start |-> 0, end |-> 0, count |-> 5, minutes |-> 30]
  /\ mid = 0 /\ book = [centre |-> 0, depth |-> 0]
  /\ retry = NoRetry /\ doubt = FALSE
  /\ flight = NoFlight
  /\ sent = <<>> /\ edits = 0

refPrice(f, m) ==
  IF orderTypeShape(f.type).usesLimitPrice /\ f.bbo = "custom" THEN f.price ELSE m

baseSize(f, m) == toBaseSize(f.unit, f.size, refPrice(f, m))

\* The effect that keeps the limit price at the live mid until it is edited.
prefill(f, m) ==
  IF orderTypeShape(f.type).usesLimitPrice /\ ~f.edited /\ m > 0
  THEN [f EXCEPT !.price = m] ELSE f

\* An edit through a control is a new intent: the retry cloid is dropped.
\* The two fields of a scale, and of a TP/SL card, count as one edit.
edit(f) ==
  /\ edits < MaxTicketEdits /\ f # ticket
  /\ ticket' = prefill(f, mid)
  /\ retry' = NoRetry /\ doubt' = FALSE
  /\ edits' = edits + 1
  /\ UNCHANGED <<mid, book, flight, sent>>

\* The bottom sheets: clearRetry, then the field.
select(f) == edit(f)

onChangeCoin == \E c \in TicketCoin : edit([ticket EXCEPT !.coin = c, !.edited = FALSE])
setOrderType == \E type \in OrderTypes : select([ticket EXCEPT !.type = type])
onChangePrice ==
  /\ orderTypeShape(ticket.type).usesLimitPrice
  /\ \E p \in Typed : edit([ticket EXCEPT !.price = p, !.edited = TRUE])
setBboMode ==
  /\ orderTypeShape(ticket.type).usesLimitPrice
  /\ \E m \in BboMode \cup {"custom"} : select([ticket EXCEPT !.bbo = m])
\* A tap on a row of the order book.
onPickPrice ==
  /\ orderTypeShape(ticket.type).usesLimitPrice /\ book.depth > 0
  /\ edit([ticket EXCEPT !.price = book.centre + 1, !.edited = TRUE])
setStopPrice ==
  /\ orderTypeShape(ticket.type).isTrigger
  /\ \E p \in Typed : edit([ticket EXCEPT !.stop = p])
setScale ==
  /\ ticket.type = "scale"
  /\ \/ \E p, q \in Typed : edit([ticket EXCEPT !.start = p, !.end = q])
     \/ \E n \in {1, 2} : edit([ticket EXCEPT !.count = n])
setTwapMinutes == ticket.type = "twap" /\ \E m \in {4, 60} : edit([ticket EXCEPT !.minutes = m])
setSize == \E s \in TypedSize : edit([ticket EXCEPT !.size = s])
\* The slider writes a part of what the balance opens at the reference price.
onSlide == (ticket.unit = "quote" \/ refPrice(ticket, mid) > 0) /\ setSize
setSizeUnit == select([ticket EXCEPT !.unit = IF @ = "base" THEN "quote" ELSE "base", !.size = 0])
setReduceOnly == edit([ticket EXCEPT !.reduceOnly = ~@])
setTpSl ==
  /\ ticket.type \in {"market", "limit"}
  /\ \/ edit([ticket EXCEPT !.tpSlOn = ~@])
     \/ ticket.tpSlOn /\ \E p, q \in Typed \cup {0} : edit([ticket EXCEPT !.tp = p, !.sl = q])

\* Fields that pass through unread: a change drops the retry all the same.
passThrough ==
  /\ edits < MaxTicketEdits /\ (retry # NoRetry \/ doubt)
  /\ retry' = NoRetry /\ doubt' = FALSE
  /\ edits' = edits + 1
  /\ UNCHANGED <<ticket, mid, book, flight, sent>>
setMargin == passThrough
setTif == ticket.type \in {"limit", "stopLimit", "tpLimit", "scale"} /\ passThrough

\* The "Trade" button of another screen: the effect writes the ticket without
\* the controls' clearRetry.
selectedCoin ==
  \E c \in TicketCoin, s \in TypedSize :
    /\ edits < MaxTicketEdits
    /\ ticket' = prefill([ticket EXCEPT !.coin = c, !.edited = FALSE, !.unit = "base", !.size = s], mid)
    /\ edits' = edits + 1
    /\ UNCHANGED <<mid, book, retry, doubt, flight, sent>>

\* The feeds.
midMoves ==
  /\ \E m \in Mid : mid' = m /\ m # mid /\ ticket' = prefill(ticket, m)
  /\ UNCHANGED <<book, retry, doubt, flight, sent, edits>>

bookMoves ==
  /\ \E c \in Mid, d \in {0, 2} : book' = [centre |-> c, depth |-> d] /\ book' # book
  /\ UNCHANGED <<ticket, mid, retry, doubt, flight, sent, edits>>

---------------------------------------------------------------------------
(* A submit.                                                               *)

submitPrice(f, m, b, side) ==
  LET shape == orderTypeShape(f.type)
  IN  CASE shape.usesLimitPrice /\ f.bbo = "custom" -> f.price
        [] shape.usesLimitPrice /\ f.bbo # "custom" ->
             IF bboPrice(b, f.bbo, side) > 0 THEN bboPrice(b, f.bbo, side) ELSE m
        [] shape.isTrigger -> marketSlippagePrice(f.stop, side)
        [] OTHER -> marketSlippagePrice(m, side)

useBracket(f) == ~orderTypeShape(f.type).isTrigger /\ f.tpSlOn /\ (f.tp > 0 \/ f.sl > 0)

triggerChecks(f, m, side) ==
  LET shape == orderTypeShape(f.type)
  IN  /\ shape.isTrigger => f.stop > 0 /\ validateTriggerSide(side, m, f.stop, shape.tpsl)
      /\ useBracket(f) /\ f.tp > 0 => validateTriggerSide(side, refPrice(f, m), f.tp, "tp")
      /\ useBracket(f) /\ f.sl > 0 => validateTriggerSide(side, refPrice(f, m), f.sl, "sl")

\* The checks of onSubmitInner before anything is awaited; scale and TWAP
\* have their own.
twapChecked(f, m) == baseSize(f, m) > 0 /\ f.minutes \in 5 .. 1440
scaleChecked(f, m) == baseSize(f, m) > 0 /\ f.start > 0 /\ f.end > 0 /\ f.count >= 2
Checked(f, m, b, side) ==
  CASE f.type = "twap" -> twapChecked(f, m)
    [] f.type = "scale" -> scaleChecked(f, m)
    [] OTHER -> /\ validateOrder(submitPrice(f, m, b, side), baseSize(f, m), 1) = "ok"
                /\ triggerChecks(f, m, side)

\* A tap on a side button or, for the side of the last tap, on retry.  The
\* submit holds the fields, the prices and the retry cloid it was tapped with.
canSubmit ==
  /\ baseSize(ticket, mid) > 0 /\ refPrice(ticket, mid) > 0
  /\ baseSize(ticket, mid) * refPrice(ticket, mid) >= MinNotional * LotParts
sideButton(side) == canSubmit /\ side \in Side
retryButton(side) == doubt /\ sent # <<>> /\ side = sent[Len(sent)].side
onSubmitInner(side) ==
  /\ flight = NoFlight /\ mid > 0 /\ Len(sent) < MaxSubmits
  /\ sideButton(side) \/ retryButton(side)
  /\ Checked(ticket, mid, book, side)
  /\ flight' = [at |-> IF ticket.reduceOnly THEN "build" ELSE "leverage", side |-> side,
                f |-> ticket, mid |-> mid, book |-> book, retry |-> retry, edits |-> edits]
  /\ UNCHANGED <<ticket, mid, book, retry, doubt, sent, edits>>

\* setLeverage answers: a failure ends the submit, nothing is signed.
setLeverage(ok) ==
  /\ flight.at = "leverage"
  /\ flight' = IF ok THEN [flight EXCEPT !.at = "build"] ELSE NoFlight
  /\ UNCHANGED <<ticket, mid, book, retry, doubt, sent, edits>>

Orders(fl) ==
  LET base == baseSize(fl.f, fl.mid)
      px == submitPrice(fl.f, fl.mid, fl.book, fl.side)
      cloid == IF fl.retry = NoRetry THEN generateCloid ELSE fl.retry
  IN  IF fl.f.type = "twap" THEN buildTwap(fl.f, fl.side, base)
      ELSE IF fl.f.type = "scale" THEN buildScaleOrder(fl.f, fl.side, base, cloid)
      ELSE IF useBracket(fl.f) THEN buildBracketOrder(fl.f, fl.side, px, base, cloid)
      ELSE buildOrder(fl.f, fl.side, px, base, cloid)

Refused == [i \in DOMAIN sent |-> [sent[i] EXCEPT !.refused = @ \/ i = Len(sent)]]

\* The builder refuses (no cloid comes back), or the action is signed.
placeOrder ==
  /\ flight.at = "build"
  /\ LET orders == Orders(flight)
     IN  IF orders = Rejected
         THEN /\ flight' = NoFlight
              /\ IF flight.f.type = "twap" THEN UNCHANGED <<retry, doubt, sent>>
                 ELSE retry' = NoRetry /\ doubt' = FALSE /\ sent' = Refused
         ELSE /\ sent' = Append(sent, [orders |-> orders, f |-> flight.f, side |-> flight.side,
                                       edits |-> flight.edits, end |-> "awaited",
                                       refused |-> FALSE])
              /\ flight' = [flight EXCEPT !.at = "sent"]
              /\ UNCHANGED <<retry, doubt>>
  /\ UNCHANGED <<ticket, mid, book, edits>>

\* The cloid is kept when there was no receipt at all.
orderReceipt(end) ==
  IF end = "uncertain" THEN retry' = sent[Len(sent)].orders[1].cloid /\ doubt' = TRUE
  ELSE retry' = NoRetry /\ doubt' = FALSE
\* The scale has a branch of its own that does the same; a TWAP has no cloid.
scaleReceipt(end) == orderReceipt(end)
twapReceipt == UNCHANGED <<retry, doubt>>

\* The receipt: taken, refused, or none.
receipt(end) ==
  /\ flight.at = "sent"
  /\ flight' = NoFlight
  /\ sent' = [sent EXCEPT ![Len(sent)].end = end]
  /\ CASE flight.f.type = "twap" -> twapReceipt
       [] flight.f.type = "scale" -> scaleReceipt(end)
       [] OTHER -> orderReceipt(end)
  /\ ticket' = IF end = "ok" THEN [ticket EXCEPT !.size = 0] ELSE ticket
  /\ UNCHANGED <<mid, book, edits>>

TicketNext ==
  \/ onChangeCoin \/ setOrderType \/ onChangePrice \/ setBboMode \/ setStopPrice
  \/ setScale \/ setTwapMinutes \/ setSize \/ onSlide \/ onPickPrice \/ setSizeUnit \/ setReduceOnly \/ setTpSl
  \/ setMargin \/ setTif \/ selectedCoin
  \/ midMoves \/ bookMoves
  \/ \E side \in Side : onSubmitInner(side)
  \/ \E ok \in BOOLEAN : setLeverage(ok)
  \/ placeOrder
  \/ \E end \in {"ok", "rejected", "uncertain"} : receipt(end)

TicketSpec == TicketInit /\ [][TicketNext]_ticketVars

---------------------------------------------------------------------------
Cloids(s) == {s.orders[i].cloid : i \in DOMAIN s.orders}
Consecutive == {i \in DOMAIN sent : i > 1}

\* Submit i repeats the one before it: unedited, after an uncertain receipt.
Repeats(i) ==
  /\ sent[i - 1].end = "uncertain" /\ sent[i - 1].edits = sent[i].edits
  /\ sent[i].f.type # "twap"

\* An order whose receipt was uncertain and that is submitted again unedited
\* carries the same cloid on every leg, whatever the market did in between:
\* the exchange cannot take any leg, entry or take-profit or rung, twice.  This
\* is so as long as no submit in between was refused by the builder.
RetriesRepeatLegs ==
  \A i \in Consecutive :
    Repeats(i) /\ ~sent[i - 1].refused => Cloids(sent[i]) = Cloids(sent[i - 1])

\* What TradeScreen.tsx:128 says of the retry's cloid, "Reused on a retry so the
\* same cloid dedupes; cleared when the order is edited or succeeds": so a retry
\* keeps its cloids whatever else happened.
NoDuplicateLegs ==
  \A i \in Consecutive : Repeats(i) => Cloids(sent[i]) = Cloids(sent[i - 1])

=============================================================================
