------------------------------- MODULE Feeds -------------------------------
(* The app's live market data: the effects that load a snapshot and then       *)
(* subscribe to a websocket feed, and what their cleanup does.                  *)
(*                                                                             *)
(* Four effects are modelled: the market list (useLiveMarkets, mounted at the  *)
(* root of the app), the chart screen's candles, book and trades               *)
(* (useLiveDetail), its daily closes, and the Trade ticket's order book        *)
(* (OrderBookPanel).  Each awaits the calls of its Script in order.  React     *)
(* runs the cleanup of an effect's previous run before the next run, while the *)
(* calls the previous run awaits stay in flight: a run is known to its cleanup *)
(* only by the subscriptions that have already resolved.                       *)
EXTENDS Naturals, FiniteSets, Sequences

CONSTANTS FeedCoin, FeedNet, MaxRuns, MaxFeedFaults

ASSUME FeedsAssumption ==
  /\ FeedCoin # {} /\ FeedNet # {}
  /\ MaxRuns \in Nat \ {0} /\ MaxFeedFaults \in Nat

VARIABLES
  feedNet, ticketCoin, \* the selected network; the coin of the Trade ticket
  open,          \* the screens that are mounted, "chart" and "trade"
  runs,          \* the runs of each effect, oldest first
  marketStore,   \* market store: network of its tickers and of its last mids, error
  ladder,        \* network and coin of the book OrderBookPanel shows, or NoBook
  ticketBook,    \* the coin of the book the ticket prices BBO orders from
  feedFaults     \* calls that failed so far (bound)

feedVars == <<feedNet, ticketCoin, open, runs, marketStore, ladder, ticketBook, feedFaults>>

------------------------------------------------------------------------------
Nothing == "nothing"
NoBook == [net |-> Nothing, coin |-> Nothing]

Effect == {"markets", "chart", "closes", "panel"}

\* What each effect awaits, in order.
Script == [markets |-> <<"snapshot", "mids">>,
           chart   |-> <<"candles", "book", "trades">>,
           closes  |-> <<"closes">>,
           panel   |-> <<"book">>]

\* The calls that return a subscription.
Feed == {"mids", "book", "trades"}

\* A run of an effect: step is the call it awaits (0 once it gave up), held the
\* subscriptions its cleanup knows of, live the ones it was handed and that were not
\* closed, mounted whether the screen it sets the state of is still the one shown.
Run(n, c) == [net |-> n, coin |-> c, step |-> 1, cancelled |-> FALSE, mounted |-> TRUE,
              held |-> {}, live |-> {}]

Awaiting(h, r) == r.step \in 1..Len(Script[h])
Awaited(h, r) == Script[h][r.step]

\* The callback of feed f can be called: the client registers it with the call to
\* subscribe, whose promise may still be unanswered, and a book of the same coin for
\* another subscription may come first.  None of the callbacks looks whether its run
\* was cancelled.  (The client calls none after unsubscribe or a refusal.)
Delivers(h, r, f) == f \in r.live \/ (Awaiting(h, r) /\ Awaited(h, r) = f)

\* The cleanup the effect returned: every subscription it knows is closed.
cleanup(r) == [r EXCEPT !.cancelled = TRUE, !.live = @ \ r.held]

Mounted(h) ==
  CASE h = "markets" -> TRUE
    [] h \in {"chart", "closes"} -> "chart" \in open
    [] h = "panel" -> "trade" \in open

\* The runs of h once its last one has been cleaned up.
CleanedUp(h) == [i \in DOMAIN runs[h] |->
                   IF i = Len(runs[h]) THEN cleanup(runs[h][i]) ELSE runs[h][i]]

\* The runs of h once its screen is gone: what they set no longer shows.
Unmounted(h) == [i \in DOMAIN runs[h] |-> [CleanedUp(h)[i] EXCEPT !.mounted = FALSE]]

\* Runs so far, bounded by MaxRuns.
Started == Len(runs["markets"]) + Len(runs["chart"]) + Len(runs["closes"]) + Len(runs["panel"])

\* The effects in hs run again for network n and coin c.
Rerun(hs, n, c) ==
  /\ Started + Cardinality(hs) <= MaxRuns
  /\ runs' = [h \in Effect |-> IF h \in hs THEN Append(CleanedUp(h), Run(n, c)) ELSE runs[h]]

FeedInit ==
  /\ feedNet \in FeedNet /\ ticketCoin \in FeedCoin
  /\ open = {}
  /\ runs = [h \in Effect |-> IF h = "markets" THEN <<Run(feedNet, ticketCoin)>> ELSE <<>>]
  /\ marketStore = [tickers |-> Nothing, mids |-> Nothing, error |-> FALSE]
  /\ ladder = NoBook /\ ticketBook = Nothing
  /\ feedFaults = 0

------------------------------------------------------------------------------
\* The user.

openScreen(s) ==
  /\ s \notin open
  /\ open' = open \cup {s}
  /\ Rerun(IF s = "chart" THEN {"chart", "closes"} ELSE {"panel"}, feedNet, ticketCoin)
  /\ UNCHANGED <<feedNet, ticketCoin, marketStore, ladder, ticketBook, feedFaults>>

\* Leaving a screen runs its cleanups; the ticket's state goes with it.
closeScreen(s) ==
  /\ s \in open
  /\ open' = open \ {s}
  /\ runs' = [h \in Effect |-> IF h \in (IF s = "chart" THEN {"chart", "closes"} ELSE {"panel"})
                               THEN Unmounted(h) ELSE runs[h]]
  /\ ladder' = IF s = "trade" THEN NoBook ELSE ladder
  /\ ticketBook' = IF s = "trade" THEN Nothing ELSE ticketBook
  /\ UNCHANGED <<feedNet, ticketCoin, marketStore, feedFaults>>

\* Every service is made for the network: a switch re-runs every effect.  The
\* tickers and the book of the old network stay until new ones arrive.
setNetwork(n) ==
  /\ n \in FeedNet \ {feedNet}
  /\ feedNet' = n
  /\ Rerun({h \in Effect : Mounted(h)}, n, ticketCoin)
  /\ UNCHANGED <<ticketCoin, open, marketStore, ladder, ticketBook, feedFaults>>

\* The ticket's coin: the panel clears its ladder and subscribes again.  The
\* ticket keeps the book it was last given.
setCoin(c) ==
  /\ "trade" \in open /\ c \in FeedCoin \ {ticketCoin}
  /\ ticketCoin' = c
  /\ ladder' = NoBook
  /\ Rerun({"panel"}, feedNet, c)
  /\ UNCHANGED <<feedNet, open, marketStore, ticketBook, feedFaults>>

\* A coarser tick for the panel's book, another time frame for the chart, or Retry.
resubscribe(h) ==
  /\ h \in {"panel", "chart"} /\ Mounted(h)
  /\ Rerun({h}, feedNet, ticketCoin)
  /\ UNCHANGED <<feedNet, ticketCoin, open, marketStore, ladder, ticketBook, feedFaults>>

\* Retry on the Markets screen, offered once the store holds an error.
retryMarkets ==
  /\ marketStore.error
  /\ marketStore' = [marketStore EXCEPT !.error = FALSE]
  /\ Rerun({"markets"}, feedNet, ticketCoin)
  /\ UNCHANGED <<feedNet, ticketCoin, open, ladder, ticketBook, feedFaults>>

------------------------------------------------------------------------------
\* The network.

GivesUp(r) == [r EXCEPT !.step = 0]
Continues(r) == [r EXCEPT !.step = @ + 1]
Subscribed(r, f) == [Continues(r) EXCEPT !.held = @ \cup {f}, !.live = @ \cup {f}]

\* Mutant: the panel keeps whatever subscription it is handed.
resolved_Unguarded(h, r) ==
  IF Awaited(h, r) \in Feed THEN Subscribed(r, Awaited(h, r))
  ELSE IF r.cancelled THEN GivesUp(r) ELSE Continues(r)

\* What a run does when the call it awaits resolves.  A snapshot that arrives
\* after the cleanup ends the run.  Only the panel asks again once it holds a
\* subscription: the other two keep it, and await the next one, cancelled or not.
resolved(h, r) ==
  IF Awaited(h, r) \in Feed
  THEN IF h = "panel" /\ r.cancelled THEN GivesUp(r) ELSE Subscribed(r, Awaited(h, r))
  ELSE IF r.cancelled THEN GivesUp(r) ELSE Continues(r)

\* The call run i of h awaits returns.
answer(h, i) ==
  LET r == runs[h][i] IN
  /\ Awaiting(h, r)
  /\ runs' = [runs EXCEPT ![h][i] = resolved(h, r)]
  /\ marketStore' = IF Awaited(h, r) = "snapshot" /\ ~r.cancelled
              THEN [marketStore EXCEPT !.tickers = r.net, !.error = FALSE] ELSE marketStore
  /\ UNCHANGED <<feedNet, ticketCoin, open, ladder, ticketBook, feedFaults>>

\* It fails: a run that is still current shows the error (the chart and the panel
\* keep theirs to themselves, and offer the Retry of resubscribe).
refuse(h, i) ==
  LET r == runs[h][i] IN
  /\ Awaiting(h, r) /\ feedFaults < MaxFeedFaults
  /\ feedFaults' = feedFaults + 1
  /\ runs' = [runs EXCEPT ![h][i] = GivesUp(r)]
  /\ marketStore' = IF h = "markets" /\ ~r.cancelled THEN [marketStore EXCEPT !.error = TRUE] ELSE marketStore
  /\ UNCHANGED <<feedNet, ticketCoin, open, ladder, ticketBook>>

\* The mids of a live feed are merged into whatever tickers the store holds.
mergeMids(i) ==
  /\ Delivers("markets", runs["markets"][i], "mids")
  /\ marketStore' = [marketStore EXCEPT !.mids = runs["markets"][i].net]
  /\ UNCHANGED <<feedNet, ticketCoin, open, runs, ladder, ticketBook, feedFaults>>

\* A book arrives at the panel, which shows it and hands it to the ticket.
Book(r) == [net |-> r.net, coin |-> r.coin]

onBook(i) ==
  LET r == runs["panel"][i] IN
  /\ Delivers("panel", r, "book") /\ r.mounted
  /\ ladder' = Book(r)
  /\ ticketBook' = r.coin
  /\ UNCHANGED <<feedNet, ticketCoin, open, runs, marketStore, feedFaults>>

FeedNext ==
  \/ \E s \in {"chart", "trade"} : openScreen(s) \/ closeScreen(s)
  \/ \E n \in FeedNet : setNetwork(n)
  \/ \E c \in FeedCoin : setCoin(c)
  \/ \E h \in Effect : resubscribe(h)
  \/ retryMarkets
  \/ \E h \in Effect : \E i \in DOMAIN runs[h] : answer(h, i) \/ refuse(h, i)
  \/ \E i \in DOMAIN runs["markets"] : mergeMids(i)
  \/ \E i \in DOMAIN runs["panel"] : onBook(i)

FeedSpec == FeedInit /\ [][FeedNext]_feedVars

------------------------------------------------------------------------------
\* A book that comes up beside the ticket is of the ticket's coin and of the
\* selected network, whatever the user switched, opened or closed before: an
\* OrderBookPanel lets go of every subscription of an earlier coin or network.
\* Except that an earlier run whose subscribe call is still unanswered delivers
\* until it is (OrderBookPanel's callback, unlike its then, does not ask whether
\* the run was cancelled).  Tapping a price of the ladder fills the limit field.
LadderOfItsCoin ==
  [][\/ ladder' \in {ladder, NoBook, [net |-> feedNet', coin |-> ticketCoin']}
     \/ \E i \in DOMAIN runs["panel"] :
          LET r == runs["panel"][i]
          IN  r.cancelled /\ Awaiting("panel", r) /\ ladder' = Book(r)]_feedVars

==============================================================================
