---------------------------- MODULE MobileProofs ----------------------------
(***************************************************************************)
(* Theorems about the app's screens, for any networks, coins, amounts and  *)
(* bounds: money is moved as it was reviewed, the order book beside the    *)
(* ticket is of the ticket's coin, a proxy that failed is left alone, the  *)
(* strategy forms let through what the server takes, a retry repeats its   *)
(* cloids, the dead-man switch spares a user who is there, the push        *)
(* settings agree with the engine's rows, and the account panels never go  *)
(* back.                                                                   *)
(***************************************************************************)
EXTENDS Funds, Feeds, Routing, StrategyForms, Ticket, ManualDeadMan,
        PushSettings, Monitor, SequenceTheorems, TLAPS

---------------------------------------------------------------------------
(* Money in and out.  The armed confirmation is what makes it inductive:   *)
(* as long as it stands, the sheet shows what it showed at the review tap. *)

Payable  == Amount \cup {0, ChainUsdc}
Payee    == Destination \cup {"self", "empty", "bridge", "none"}
FormShown == [amount : Payable, dest : Payee]
Transfer ==
  [kind : Sheet, net : FundNet, shown : FormShown, review : FormShown,
   end : Outcome \cup {"awaited"}]

FundType ==
  /\ fnet \in FundNet
  /\ sheet \in Sheet \cup {"none"}
  /\ amount \in [Sheet -> Payable]
  /\ dest \in Payee
  /\ confirm \in [Sheet -> BOOLEAN]
  /\ reviewed \in [Sheet -> FormShown]
  /\ transfers \in Seq(Transfer)

ArmedAsShown == \A k \in Sheet : confirm[k] => reviewed[k] = Shown(k)

FundInv == FundType /\ ArmedAsShown /\ ReviewedIsSent

LEMMA ShownIsAForm ==
  ASSUME FundType, NEW k \in Sheet
  PROVE  Shown(k) \in FormShown
BY DEF FundType, Shown, FormShown, Payee, Sheet

LEMMA FundInitially == FundInit => FundInv
<1> SUFFICES ASSUME FundInit PROVE FundInv
  OBVIOUS
<1>1. NotReviewed \in FormShown
  BY DEF NotReviewed, FormShown, Payable, Payee
<1>2. transfers \in Seq(Transfer) /\ DOMAIN transfers = {}
  BY DEF FundInit
<1> QED
  BY <1>1, <1>2, FundAssumption
  DEF FundInit, FundInv, FundType, ArmedAsShown, ReviewedIsSent, Sheet, Payable, Payee

\* The actions that leave what was signed alone.
LEMMA FundSheetStep ==
  ASSUME FundInv, UNCHANGED transfers,
         \/ \E k \in Sheet : openSheet(k) \/ reviewTap(k)
         \/ depositRequested \/ closeSheet \/ typeAmount \/ presetAmount \/ typeDest
         \/ switchNet \/ reloadSummary \/ fetchArbitrumBalances \/ hydrateRuntimeConfig
         \/ \E l \in loads, ok \in BOOLEAN : loadPortfolio(l, ok)
  PROVE  FundType' /\ ArmedAsShown'
<1> USE DEF FundInv, FundType, ArmedAsShown, Shown, Sheet
<1>1. CASE \E k \in Sheet : openSheet(k)
  BY <1>1 DEF openSheet, Payee
<1>2. ASSUME NEW k \in Sheet, reviewTap(k) PROVE FundType' /\ ArmedAsShown'
  <2>1. Shown(k) \in FormShown
    BY ShownIsAForm
  <2> QED
    BY <1>2, <2>1 DEF reviewTap
<1>3. CASE depositRequested
  BY <1>3 DEF depositRequested, consume
<1>4. CASE closeSheet
  BY <1>4 DEF closeSheet
<1>5. CASE typeAmount
  BY <1>5 DEF typeAmount, Payable
<1>6. CASE presetAmount
  BY <1>6 DEF presetAmount, Payable
<1>7. CASE typeDest
  BY <1>7 DEF typeDest, Payee
<1>8. CASE switchNet
  BY <1>8 DEF switchNet
<1>9. CASE \/ reloadSummary \/ fetchArbitrumBalances \/ hydrateRuntimeConfig
           \/ \E l \in loads, ok \in BOOLEAN : loadPortfolio(l, ok)
  BY <1>9 DEF reloadSummary, fetchArbitrumBalances, hydrateRuntimeConfig, loadPortfolio
<1> QED
  BY <1>1, <1>2, <1>3, <1>4, <1>5, <1>6, <1>7, <1>8, <1>9

\* On mainnet a transfer is signed under an armed confirmation only.
LEMMA ConfirmStep ==
  ASSUME FundInv, NEW k \in Sheet, confirmTap(k)
  PROVE  FundInv'
<1> DEFINE t == [kind |-> k, net |-> fnet, shown |-> Shown(k), review |-> reviewed[k],
                 end |-> "awaited"]
<1>1. t \in Transfer
  BY ShownIsAForm DEF Transfer, FundInv, FundType
<1>2. t.net = "mainnet" => t.shown = t.review
  BY DEF confirmTap, FundInv, ArmedAsShown
<1>3. transfers' = Append(transfers, t)
  BY DEF confirmTap
<1> HIDE DEF t
<1>4. /\ transfers' \in Seq(Transfer)
      /\ \A i \in DOMAIN transfers' : i \in DOMAIN transfers \/ i = Len(transfers) + 1
      /\ \A i \in DOMAIN transfers : transfers'[i] = transfers[i]
      /\ transfers'[Len(transfers) + 1] = t
  BY <1>1, <1>3 DEF FundInv, FundType
<1>5. ReviewedIsSent'
  BY <1>2, <1>4 DEF FundInv, ReviewedIsSent
<1> QED
  BY <1>4, <1>5 DEF confirmTap, FundInv, FundType, ArmedAsShown, Shown

\* A receipt rewrites the end of a transfer and nothing else of it.
LEMMA ReceiptStep ==
  ASSUME FundInv, NEW k \in Sheet, NEW end \in Outcome, receiptOf(k, end)
  PROVE  FundInv'
<1>1. /\ transfers \in Seq(Transfer)
      /\ transfers' = [transfers EXCEPT ![Latest(k)].end = end]
  BY DEF FundInv, FundType, receiptOf
<1> DEFINE n == Latest(k)
<1> HIDE DEF n
<1>2. \A t \in Transfer :
        /\ [t EXCEPT !.end = end] \in Transfer
        /\ [t EXCEPT !.end = end].net = t.net
        /\ [t EXCEPT !.end = end].shown = t.shown
        /\ [t EXCEPT !.end = end].review = t.review
  BY DEF Transfer
<1>3. /\ DOMAIN transfers' = DOMAIN transfers
      /\ \A i \in DOMAIN transfers :
           transfers'[i] = IF i = n THEN [transfers[i] EXCEPT !.end = end] ELSE transfers[i]
  BY <1>1 DEF n
<1>4. \A i \in DOMAIN transfers : transfers[i] \in Transfer
  BY <1>1
<1>5. \A i \in DOMAIN transfers :
        /\ transfers'[i].net = transfers[i].net
        /\ transfers'[i].shown = transfers[i].shown
        /\ transfers'[i].review = transfers[i].review
        /\ transfers'[i] \in Transfer
  BY <1>2, <1>3, <1>4
<1>6. ReviewedIsSent'
  BY <1>3, <1>5 DEF FundInv, ReviewedIsSent
<1>7. transfers' \in Seq(Transfer)
  <2>1. transfers \in [1..Len(transfers) -> Transfer] /\ Len(transfers) \in Nat
    BY <1>1
  <2>2. transfers' \in [1..Len(transfers) -> Transfer]
    BY <1>1, <1>3, <1>5, <2>1
  <2> QED
    BY <2>1, <2>2, SeqDef
<1>8. FundType' /\ ArmedAsShown'
  BY <1>7 DEF receiptOf, FundInv, FundType, ArmedAsShown, Shown, Payable, Sheet
<1> QED
  BY <1>6, <1>8 DEF FundInv

LEMMA FundStep == FundInv /\ [FundNext]_fundVars => FundInv'
<1> SUFFICES ASSUME FundInv, [FundNext]_fundVars PROVE FundInv'
  OBVIOUS
<1>1. CASE \E k \in Sheet : confirmTap(k)
  BY <1>1, ConfirmStep
<1>2. CASE \E k \in Sheet, end \in Outcome : receiptOf(k, end)
  BY <1>2, ReceiptStep
<1>3. CASE \/ \E k \in Sheet : openSheet(k) \/ reviewTap(k)
           \/ depositRequested \/ closeSheet \/ typeAmount \/ presetAmount \/ typeDest
           \/ switchNet \/ reloadSummary \/ fetchArbitrumBalances \/ hydrateRuntimeConfig
           \/ \E l \in loads, ok \in BOOLEAN : loadPortfolio(l, ok)
  <2>1. UNCHANGED transfers
    BY <1>3 DEF openSheet, reviewTap, depositRequested, closeSheet, typeAmount, presetAmount,
                typeDest, switchNet, reloadSummary, fetchArbitrumBalances, hydrateRuntimeConfig,
                loadPortfolio
  <2> QED
    BY <1>3, <2>1, FundSheetStep DEF FundInv, ReviewedIsSent
<1>4. CASE UNCHANGED fundVars
  BY <1>4 DEF fundVars, FundInv, FundType, ArmedAsShown, ReviewedIsSent, Shown
<1> QED
  BY <1>1, <1>2, <1>3, <1>4 DEF FundNext

\* Whatever is typed, opened, closed or switched in between, a mainnet transfer
\* has the amount and the destination of the review that armed it
\* (AccountScreen's confirmation of deposits and withdrawals).
THEOREM TransfersAsReviewed == FundSpec => []ReviewedIsSent
<1>1. FundInv => ReviewedIsSent
  BY DEF FundInv
<1> QED
  BY <1>1, FundInitially, FundStep, PTL DEF FundSpec

---------------------------------------------------------------------------
(* The order book beside the ticket.  A run that was cleaned up has no     *)
(* live subscription, and delivers only while its call to subscribe is     *)
(* unanswered; the only run that was not is the last one, which is of the  *)
(* ticket's coin and of the selected network.                              *)

PanelRun ==
  [net : FeedNet, coin : FeedCoin, step : Nat, cancelled : BOOLEAN, mounted : BOOLEAN,
   held : SUBSET Feed, live : SUBSET Feed]

FeedType ==
  /\ feedNet \in FeedNet /\ ticketCoin \in FeedCoin
  /\ DOMAIN runs = Effect
  /\ runs["panel"] \in Seq(PanelRun)

\* A run of the panel is either cleaned up and silent, or it is the last one, for
\* the coin of the ticket that is on screen.
Silent(r) == r.cancelled /\ r.live = {}
Current(r) == /\ ~r.cancelled /\ r.live \subseteq r.held /\ "trade" \in open
              /\ r.coin = ticketCoin /\ r.net = feedNet

RunsSound ==
  \A i \in DOMAIN runs["panel"] :
    Silent(runs["panel"][i]) \/ (i = Len(runs["panel"]) /\ Current(runs["panel"][i]))

FeedInv == FeedType /\ RunsSound

LEMMA CleanupSilences ==
  ASSUME NEW r \in PanelRun, r.live \subseteq r.held
  PROVE  cleanup(r) \in PanelRun /\ Silent(cleanup(r))
BY DEF cleanup, PanelRun, Silent

\* Once its last run has been cleaned up, no run of the panel delivers anything.
LEMMA CleanedUpSilent ==
  ASSUME FeedInv
  PROVE  /\ CleanedUp("panel") \in Seq(PanelRun)
         /\ \A i \in DOMAIN CleanedUp("panel") : Silent(CleanedUp("panel")[i])
<1> DEFINE rs == runs["panel"]
<1>1. rs \in Seq(PanelRun) /\ \A i \in DOMAIN rs : rs[i] \in PanelRun
  BY DEF FeedInv, FeedType
<1>2. \A i \in DOMAIN rs : rs[i].live \subseteq rs[i].held /\ (i # Len(rs) => Silent(rs[i]))
  BY <1>1 DEF FeedInv, RunsSound, Silent, Current
<1>3. \A i \in DOMAIN rs : cleanup(rs[i]) \in PanelRun /\ Silent(cleanup(rs[i]))
  BY <1>1, <1>2, CleanupSilences
<1>4. CleanedUp("panel") = [i \in DOMAIN rs |-> IF i = Len(rs) THEN cleanup(rs[i]) ELSE rs[i]]
  BY DEF CleanedUp
<1> HIDE DEF rs
<1>5. Len(rs) \in Nat /\ DOMAIN rs = 1..Len(rs)
  BY <1>1
<1>6. CleanedUp("panel") \in [1..Len(rs) -> PanelRun]
  BY <1>1, <1>3, <1>4, <1>5
<1> QED
  BY <1>2, <1>3, <1>4, <1>5, <1>6, SeqDef

\* An effect that runs again leaves one run that can speak: the new one.
LEMMA RerunSound ==
  ASSUME FeedInv, NEW hs, NEW n \in FeedNet, NEW c \in FeedCoin, Rerun(hs, n, c),
         feedNet' \in FeedNet, ticketCoin' \in FeedCoin,
         IF "panel" \in hs THEN ticketCoin' = c /\ feedNet' = n /\ "trade" \in open'
         ELSE ticketCoin' = ticketCoin /\ ("trade" \in open' => feedNet' = feedNet)
              /\ ("trade" \in open' <=> "trade" \in open)
  PROVE  FeedType' /\ RunsSound'
<1>1. /\ DOMAIN runs' = Effect
      /\ runs'["panel"] = IF "panel" \in hs THEN Append(CleanedUp("panel"), Run(n, c))
                                            ELSE runs["panel"]
  BY DEF Rerun, Effect
<1>2. CASE "panel" \notin hs
  BY <1>1, <1>2 DEF FeedInv, FeedType, RunsSound, Silent, Current
<1>3. CASE "panel" \in hs
  <2> DEFINE old == CleanedUp("panel")
             new == Run(n, c)
  <2>1. old \in Seq(PanelRun) /\ \A i \in DOMAIN old : Silent(old[i])
    BY CleanedUpSilent
  <2>2. new \in PanelRun /\ ~new.cancelled /\ new.live = {} /\ new.coin = c /\ new.net = n
    BY DEF Run, PanelRun
  <2>3. runs'["panel"] = Append(old, new)
    BY <1>1, <1>3
  <2> HIDE DEF old, new
  <2>4. /\ runs'["panel"] \in Seq(PanelRun)
        /\ Len(runs'["panel"]) = Len(old) + 1
        /\ \A i \in DOMAIN runs'["panel"] : i \in DOMAIN old \/ i = Len(old) + 1
        /\ \A i \in DOMAIN old : runs'["panel"][i] = old[i]
        /\ runs'["panel"][Len(old) + 1] = new
    BY <2>1, <2>2, <2>3
  <2> QED
    BY <1>1, <1>3, <2>1, <2>2, <2>4 DEF FeedType, RunsSound, Silent, Current
<1> QED
  BY <1>2, <1>3

LEMMA FeedInitially == FeedInit => FeedInv
<1> SUFFICES ASSUME FeedInit PROVE FeedInv
  OBVIOUS
<1>1. DOMAIN runs = Effect /\ runs["panel"] = <<>>
  BY DEF FeedInit, Effect
<1>2. runs["panel"] \in Seq(PanelRun) /\ DOMAIN runs["panel"] = {}
  BY <1>1
<1>3. FeedType /\ RunsSound
  BY <1>1, <1>2 DEF FeedInit, FeedType, RunsSound
<1> QED
  BY <1>3 DEF FeedInit, FeedInv

\* A call that resolves or fails after the cleanup leaves the run silent; only a
\* run that is still current starts to deliver.
LEMMA RunMoves ==
  ASSUME FeedInv, NEW r \in PanelRun, Silent(r) \/ Current(r), Awaiting("panel", r),
         NEW s \in {resolved("panel", r), GivesUp(r)}
  PROVE  /\ s \in PanelRun /\ s.coin = r.coin /\ s.net = r.net /\ s.cancelled = r.cancelled
         /\ Silent(r) => s.live = {}
         /\ Current(r) => s.live \subseteq s.held
<1>1. /\ GivesUp(r) \in PanelRun /\ GivesUp(r).coin = r.coin /\ GivesUp(r).net = r.net
      /\ GivesUp(r).cancelled = r.cancelled
      /\ GivesUp(r).live = r.live /\ GivesUp(r).held = r.held
  BY DEF GivesUp, PanelRun
<1>2. Awaited("panel", r) = "book"
  <2>1. Script["panel"] = <<"book">>
    BY DEF Script
  <2>2. r.step = 1
    BY <2>1 DEF Awaiting, PanelRun
  <2> QED
    BY <2>1, <2>2 DEF Awaited
<1>3. Continues(r) \in PanelRun /\ Continues(r).coin = r.coin /\ Continues(r).net = r.net
      /\ Continues(r).cancelled = r.cancelled
      /\ Continues(r).live = r.live /\ Continues(r).held = r.held
  BY DEF Continues, PanelRun
<1>4. \A t \in PanelRun :
        LET u == [t EXCEPT !.held = @ \cup {"book"}, !.live = @ \cup {"book"}]
        IN  /\ u \in PanelRun /\ u.coin = t.coin /\ u.net = t.net /\ u.cancelled = t.cancelled
            /\ u.live = t.live \cup {"book"} /\ u.held = t.held \cup {"book"}
  BY DEF PanelRun, Feed
<1>5. LET u == Subscribed(r, "book")
      IN  /\ u \in PanelRun /\ u.coin = r.coin /\ u.net = r.net /\ u.cancelled = r.cancelled
          /\ u.live = r.live \cup {"book"} /\ u.held = r.held \cup {"book"}
  BY <1>3, <1>4 DEF Subscribed
<1>6. resolved("panel", r) = IF r.cancelled THEN GivesUp(r) ELSE Subscribed(r, "book")
  BY <1>2 DEF resolved, Feed
<1> QED
  BY <1>1, <1>5, <1>6 DEF Silent, Current

LEMMA CallStep ==
  ASSUME FeedInv, NEW h \in Effect, NEW i \in DOMAIN runs[h], answer(h, i) \/ refuse(h, i)
  PROVE  FeedInv'
<1>1. UNCHANGED <<feedNet, ticketCoin, open, ladder>>
  BY DEF answer, refuse
<1>2. PICK s \in {resolved(h, runs[h][i]), GivesUp(runs[h][i])} :
        runs' = [runs EXCEPT ![h][i] = s] /\ Awaiting(h, runs[h][i])
  BY DEF answer, refuse
<1>3. CASE h # "panel"
  <2>1. DOMAIN runs' = Effect /\ runs'["panel"] = runs["panel"]
    BY <1>2, <1>3 DEF FeedInv, FeedType, Effect
  <2> QED
    BY <1>1, <2>1 DEF FeedInv, FeedType, RunsSound, Silent, Current
<1>4. CASE h = "panel"
  <2> DEFINE rs == runs["panel"]
             r == rs[i]
  <2>1. /\ rs \in Seq(PanelRun) /\ i \in DOMAIN rs /\ r \in PanelRun
        /\ \A j \in DOMAIN rs : rs[j] \in PanelRun
    BY <1>4 DEF FeedInv, FeedType
  <2>2. Silent(r) \/ (i = Len(rs) /\ Current(r))
    BY <2>1 DEF FeedInv, RunsSound
  <2>3. s \in {resolved("panel", r), GivesUp(r)} /\ Awaiting("panel", r)
    BY <1>2, <1>4
  <2>4. /\ s \in PanelRun /\ s.coin = r.coin /\ s.net = r.net /\ s.cancelled = r.cancelled
        /\ Silent(r) => s.live = {}
        /\ Current(r) => s.live \subseteq s.held
    BY <2>1, <2>2, <2>3, RunMoves
  <2>5. DOMAIN runs' = Effect /\ runs'["panel"] = [rs EXCEPT ![i] = s]
    BY <1>2, <1>4 DEF FeedInv, FeedType, Effect
  <2>6. /\ runs'["panel"] \in Seq(PanelRun) /\ Len(runs'["panel"]) = Len(rs)
        /\ DOMAIN runs'["panel"] = DOMAIN rs
    BY <2>1, <2>4, <2>5
  <2>7. \A j \in DOMAIN rs : runs'["panel"][j] = IF j = i THEN s ELSE rs[j]
    BY <2>1, <2>5
  <2>8. FeedType'
    BY <1>1, <2>5, <2>6 DEF FeedInv, FeedType
  <2> HIDE DEF rs
  <2>9. ASSUME NEW j \in DOMAIN rs
         PROVE  Silent(runs'["panel"][j]) \/ (j = Len(rs) /\ Current(runs'["panel"][j]))
    BY <2>2, <2>4, <2>7 DEF FeedInv, RunsSound, Silent, Current, rs
  <2>10. RunsSound'
    BY <1>1, <2>6, <2>9 DEF RunsSound, Silent, Current
  <2> QED
    BY <1>1, <2>8, <2>10 DEF FeedInv
<1> QED
  BY <1>3, <1>4

LEMMA CloseStep ==
  ASSUME FeedInv, NEW s \in {"chart", "trade"}, closeScreen(s)
  PROVE  FeedInv'
<1>1. CASE s = "chart"
  <2>1. DOMAIN runs' = Effect /\ runs'["panel"] = runs["panel"]
    BY <1>1 DEF closeScreen, Effect
  <2> QED
    BY <1>1, <2>1
    DEF closeScreen, FeedInv, FeedType, RunsSound, Silent, Current
<1>2. CASE s = "trade"
  <2> DEFINE old == CleanedUp("panel")
  <2>1. DOMAIN runs' = Effect /\ runs'["panel"] = Unmounted("panel")
    BY <1>2 DEF closeScreen, Effect
  <2>2. DOMAIN old = DOMAIN runs["panel"]
    BY DEF CleanedUp
  <2>3. old \in Seq(PanelRun) /\ \A i \in DOMAIN old : Silent(old[i])
    BY CleanedUpSilent
  <2>4. runs'["panel"] = [i \in DOMAIN old |-> [old[i] EXCEPT !.mounted = FALSE]]
    BY <2>1, <2>2 DEF Unmounted
  <2> HIDE DEF old
  <2>5. \A r \in PanelRun : /\ [r EXCEPT !.mounted = FALSE] \in PanelRun
                            /\ Silent(r) => Silent([r EXCEPT !.mounted = FALSE])
    BY DEF PanelRun, Silent
  <2>6. /\ Len(old) \in Nat /\ DOMAIN old = 1..Len(old) /\ \A i \in DOMAIN old : old[i] \in PanelRun
    BY <2>3
  <2>7. runs'["panel"] \in [1..Len(old) -> PanelRun]
    BY <2>4, <2>5, <2>6
  <2>8. /\ runs'["panel"] \in Seq(PanelRun)
        /\ \A i \in DOMAIN runs'["panel"] : Silent(runs'["panel"][i])
    BY <2>3, <2>4, <2>5, <2>6, <2>7, SeqDef
  <2> QED
    BY <1>2, <2>1, <2>8
    DEF closeScreen, FeedInv, FeedType, RunsSound, Silent
<1> QED
  BY <1>1, <1>2

LEMMA FeedStep == FeedInv /\ [FeedNext]_feedVars => FeedInv'
<1> SUFFICES ASSUME FeedInv, [FeedNext]_feedVars PROVE FeedInv'
  OBVIOUS
<1>t. feedNet \in FeedNet /\ ticketCoin \in FeedCoin
  BY DEF FeedInv, FeedType
<1>1. ASSUME NEW s \in {"chart", "trade"}, openScreen(s) PROVE FeedInv'
  <2>1. FeedType' /\ RunsSound'
    BY <1>t, <1>1, RerunSound DEF openScreen
  <2> QED
    BY <1>1, <2>1 DEF FeedInv, openScreen
<1>2. CASE \E s \in {"chart", "trade"} : closeScreen(s)
  BY <1>2, CloseStep
<1>3. ASSUME NEW n \in FeedNet, setNetwork(n) PROVE FeedInv'
  <2>1. "panel" \in {h \in Effect : Mounted(h)} <=> "trade" \in open
    BY DEF Effect, Mounted
  <2>2. FeedType' /\ RunsSound'
    BY <1>t, <1>3, <2>1, RerunSound DEF setNetwork
  <2> QED
    BY <1>3, <2>2 DEF FeedInv, setNetwork
<1>4. ASSUME NEW c \in FeedCoin, setCoin(c) PROVE FeedInv'
  <2>1. FeedType' /\ RunsSound'
    BY <1>t, <1>4, RerunSound DEF setCoin
  <2> QED
    BY <1>4, <2>1 DEF FeedInv, setCoin
<1>5. ASSUME NEW h \in Effect, resubscribe(h) PROVE FeedInv'
  <2>1. FeedType' /\ RunsSound'
    BY <1>t, <1>5, RerunSound DEF resubscribe, Mounted
  <2> QED
    BY <1>5, <2>1 DEF FeedInv, resubscribe
<1>6. CASE retryMarkets
  <2>1. FeedType' /\ RunsSound'
    BY <1>t, <1>6, RerunSound DEF retryMarkets
  <2> QED
    BY <1>6, <2>1 DEF FeedInv, retryMarkets
<1>7. CASE \E h \in Effect : \E i \in DOMAIN runs[h] : answer(h, i) \/ refuse(h, i)
  BY <1>7, CallStep
<1>8. CASE \E i \in DOMAIN runs["markets"] : mergeMids(i)
  BY <1>8 DEF mergeMids, FeedInv, FeedType, RunsSound, Silent, Current
<1>9. CASE \E i \in DOMAIN runs["panel"] : onBook(i)
  BY <1>9 DEF onBook, FeedInv, FeedType, RunsSound, Silent, Current
<1>10. CASE UNCHANGED feedVars
  BY <1>10 DEF feedVars, FeedInv, FeedType, RunsSound, Silent, Current
<1> QED
  BY <1>1, <1>2, <1>3, <1>4, <1>5, <1>6, <1>7, <1>8, <1>9, <1>10 DEF FeedNext

\* A book comes from the current run, or from one whose subscribe call is unanswered.
LEMMA BookStep ==
  ASSUME FeedInv, NEW i \in DOMAIN runs["panel"], onBook(i)
  PROVE  \/ ladder' = [net |-> feedNet', coin |-> ticketCoin']
         \/ LET r == runs["panel"][i]
            IN  r.cancelled /\ Awaiting("panel", r) /\ ladder' = Book(r)
<1> DEFINE r == runs["panel"][i]
<1>1. Delivers("panel", r, "book") /\ ladder' = Book(r) /\ UNCHANGED <<feedNet, ticketCoin>>
  BY DEF onBook
<1>2. CASE Silent(r)
  BY <1>1, <1>2 DEF Silent, Delivers
<1>3. CASE Current(r)
  BY <1>1, <1>3 DEF Current, Book
<1> QED
  BY <1>2, <1>3 DEF FeedInv, RunsSound

\* However the user switches coins, networks and screens, and whenever the calls
\* of earlier runs resolve, a book that comes up beside the ticket is of its coin
\* and of the selected network, or comes from an earlier run of OrderBookPanel
\* whose subscribe call is still unanswered.
THEOREM LadderFollowsTicket == FeedSpec => LadderOfItsCoin
<1> DEFINE Fits == \/ ladder' \in {ladder, NoBook, [net |-> feedNet', coin |-> ticketCoin']}
                   \/ \E i \in DOMAIN runs["panel"] :
                        LET r == runs["panel"][i]
                        IN  r.cancelled /\ Awaiting("panel", r) /\ ladder' = Book(r)
<1>1. FeedInv /\ [FeedNext]_feedVars => [Fits]_feedVars
  <2> SUFFICES ASSUME FeedInv, FeedNext PROVE Fits
    OBVIOUS
  <2>1. CASE \E i \in DOMAIN runs["panel"] : onBook(i)
    BY <2>1, BookStep
  <2>2. CASE ~\E i \in DOMAIN runs["panel"] : onBook(i)
    BY <2>2 DEF FeedNext, openScreen, closeScreen, setNetwork, setCoin, resubscribe, retryMarkets,
                answer, refuse, mergeMids
  <2> QED
    BY <2>1, <2>2
<1> HIDE DEF Fits
<1>2. FeedSpec => [][Fits]_feedVars
  BY <1>1, FeedInitially, FeedStep, PTL DEF FeedSpec
<1> QED
  BY <1>2 DEF LadderOfItsCoin, Fits

---------------------------------------------------------------------------
(* Routing.  The cooldown table is keyed by address and read with the      *)
(* pool's spelling of it; that a failure seen by either transport is found *)
(* again needs the addresses in flight to be known, and the entry of every *)
(* host that failed lately to be there.                                    *)

PoolHost == {Delivered[i].host : i \in 1..Len(Delivered)}
Base == {hlRestBase} \cup {Host("https", h, "bare") : h \in PoolHost}

Transport == [id : Nat, wsUrl : {WsUrl(b) : b \in Base}, sub : {"none", "asked", "live"}]

RouteType ==
  /\ clockMs \in Nat
  /\ user \in RouteUser
  /\ pool \in Seq(Base)
  /\ failedAt \in [PoolHost -> Int]
  /\ http \subseteq [id : Nat, base : Base]
  /\ sockets \subseteq Transport

\* A host that failed within the cooldown is in the table, under the address the
\* pool has of it.
FailuresListed ==
  \A h \in PoolHost : clockMs < failedAt[h] + CooldownLen =>
    \E e \in cooldownUntil :
      e.key = Host("https", h, "bare") /\ e.until = failedAt[h] + CooldownLen

\* The exchange itself never counts as a failed proxy.
ExchangeNeverFails ==
  hlRestBase.host \in PoolHost => failedAt[hlRestBase.host] = -CooldownLen

RouteInv == RouteType /\ FailuresListed /\ ExchangeNeverFails /\ CooldownHonoured

LEMMA HostFields ==
  ASSUME NEW s, NEW h, NEW p
  PROVE  Host(s, h, p).scheme = s /\ Host(s, h, p).host = h /\ Host(s, h, p).path = p
BY DEF Host

\* The pool index is one, also for the negative numbers hashCode returns.
LEMMA PickProxyInRange ==
  ASSUME NEW u \in RouteUser, NEW n \in Nat \ {0}
  PROVE  pickProxy(u, n) \in 0..(n - 1)
<1>1. \A a \in Int : a % n \in 0..(n - 1)
  OBVIOUS
<1>2. HashOf[u] \in Int
  BY RoutingAssumption
<1>3. \A a \in Int : Remainder(a, n) \in (1 - n)..(n - 1)
  BY <1>1 DEF Remainder
<1>4. \A a \in Nat : Remainder(a, n) \in 0..(n - 1)
  BY <1>1 DEF Remainder
<1>5. Remainder(HashOf[u], n) + n \in Nat
  BY <1>2, <1>3
<1> QED
  BY <1>4, <1>5 DEF pickProxy

LEMMA DeliveredPool == loadAppConfig(Delivered) \in Seq(Base)
<1> DEFINE n == Len(Delivered)
           Sent == [scheme : {"https"}, host : STRING, path : {"bare", "/"}]
<1>a. \A a \in Sent : NoTrailingSlash(a) = Host("https", a.host, "bare")
  BY DEF NoTrailingSlash, Host
<1>b. Delivered \in Seq(Sent)
  BY RoutingAssumption
<1> HIDE DEF Sent
<1>1. n \in Nat /\ \A i \in 1..n : Delivered[i] \in Sent
  BY <1>b
<1>2. \A i \in 1..n : NoTrailingSlash(Delivered[i]) = Host("https", Delivered[i].host, "bare")
  BY <1>1, <1>a
<1>3. \A i \in 1..n : NoTrailingSlash(Delivered[i]) \in Base
  BY <1>2 DEF Base, PoolHost
<1>4. loadAppConfig(Delivered) \in [1..n -> Base]
  BY <1>3 DEF loadAppConfig
<1> HIDE DEF n
<1> QED
  BY <1>1, <1>4, SeqDef

LEMMA RoutedIsBase ==
  ASSUME RouteType, NEW t
  PROVE  routedBase(t) \in Base
<1>1. hlRestBase \in Base
  BY DEF Base
<1>2. ASSUME pool # <<>> PROVE pool[pickProxy(user, Len(pool)) + 1] \in Base
  <2>1. pool \in Seq(Base) /\ Len(pool) \in Nat \ {0} /\ user \in RouteUser
    BY <1>2 DEF RouteType
  <2>2. pickProxy(user, Len(pool)) \in 0..(Len(pool) - 1)
    BY <2>1, PickProxyInRange
  <2> QED
    BY <2>1, <2>2
<1>3. selectRoute(t).baseUrl \in Base
  BY <1>1, <1>2 DEF selectRoute
<1> QED
  BY <1>1, <1>3 DEF routedBase

\* Neither transport is sent towards a host that is cooling down.
LEMMA SendsCool ==
  ASSUME RouteInv, NEW t, Sends(routedBase(t))
  PROVE  CooldownHonoured'
<1> DEFINE a == routedBase(t)
<1>1. a \in Base /\ clockMs \in Nat /\ CooldownLen \in Nat \ {0} /\ DOMAIN failedAt = PoolHost
  BY RoutedIsBase, RoutingAssumption DEF RouteInv, RouteType
<1>2. a # hlRestBase => ~isCoolingDown(a)
  <2>1. selectRoute(t).viaProxy \/ selectRoute(t).baseUrl = hlRestBase
    BY DEF selectRoute
  <2> QED
    BY <2>1 DEF routedBase
<1>3. ASSUME a.host \in PoolHost PROVE ~(clockMs < failedAt[a.host] + CooldownLen)
  <2>1. CASE a = hlRestBase
    BY <1>1, <1>3, <2>1 DEF RouteInv, ExchangeNeverFails
  <2>2. CASE a # hlRestBase
    <3>1. a = Host("https", a.host, "bare")
      BY <1>1, <2>2, HostFields DEF Base
    <3>2. failedAt[a.host] \in Int
      BY <1>3 DEF RouteInv, RouteType
    <3> QED
      BY <1>2, <1>3, <2>2, <3>1, <3>2 DEF RouteInv, FailuresListed, isCoolingDown
  <2> QED
    BY <2>1, <2>2
<1> HIDE DEF a
<1>4. lastSent' = IF a.host \in PoolHost
                  THEN [host |-> a.host, at |-> clockMs,
                        cooling |-> clockMs < failedAt[a.host] + CooldownLen]
                  ELSE lastSent
  BY <1>1 DEF Sends, a
<1> QED
  BY <1>3, <1>4 DEF RouteInv, CooldownHonoured

\* A failure of the pool's host h: its entry is new, the others that have not run
\* out stay.
LEMMA FailureListed ==
  ASSUME RouteInv, NEW h \in PoolHost, h # hlRestBase.host,
         cooldownUntil' = markCooldown(Host("https", h, "bare")),
         failedAt' = [failedAt EXCEPT ![h] = clockMs],
         UNCHANGED clockMs
  PROVE  failedAt' \in [PoolHost -> Int] /\ FailuresListed' /\ ExchangeNeverFails'
<1>1. clockMs \in Nat /\ failedAt \in [PoolHost -> Int] /\ CooldownLen \in Nat
  BY RoutingAssumption DEF RouteInv, RouteType
<1>2. failedAt' \in [PoolHost -> Int]
  <2>1. clockMs \in Int
    BY <1>1
  <2> QED
    BY <1>1, <2>1
<1>3. ASSUME NEW g \in PoolHost, clockMs' < failedAt'[g] + CooldownLen
      PROVE  \E e \in cooldownUntil' :
               e.key = Host("https", g, "bare") /\ e.until = failedAt'[g] + CooldownLen
  <2>1. CASE g = h
    <3> DEFINE e == [key |-> Host("https", h, "bare"), until |-> clockMs + CooldownLen]
    <3>1. e \in cooldownUntil'
      BY DEF markCooldown
    <3>2. e.key = Host("https", g, "bare") /\ e.until = failedAt'[g] + CooldownLen
      BY <1>1, <2>1
    <3> QED
      BY <3>1, <3>2
  <2>2. CASE g # h
    <3>1. failedAt'[g] = failedAt[g] /\ failedAt[g] \in Int
      BY <1>1, <2>2
    <3>2. PICK e \in cooldownUntil :
            e.key = Host("https", g, "bare") /\ e.until = failedAt[g] + CooldownLen
      BY <1>3, <3>1 DEF RouteInv, FailuresListed
    <3>3. e.key # Host("https", h, "bare")
      BY <2>2, <3>2, HostFields
    <3>4. e \in cooldownUntil'
      BY <1>3, <3>1, <3>2, <3>3 DEF markCooldown
    <3> QED
      BY <3>1, <3>2, <3>4
  <2> QED
    BY <2>1, <2>2
<1>4. FailuresListed'
  BY <1>3 DEF FailuresListed
<1>5. ExchangeNeverFails'
  BY <1>1 DEF RouteInv, ExchangeNeverFails
<1> QED
  BY <1>2, <1>4, <1>5

LEMMA OutcomeStep ==
  ASSUME RouteInv, NEW c \in http, NEW o, outcome(c, o)
  PROVE  RouteInv'
<1>1. c \in [id : Nat, base : Base] /\ hlRestBase \in Base
  BY DEF RouteInv, RouteType, Base
<1>2. [c EXCEPT !.base = hlRestBase] \in [id : Nat, base : Base]
  BY <1>1
<1>3. http' \subseteq [id : Nat, base : Base]
  BY <1>2 DEF RouteInv, RouteType, outcome
<1>4. CASE c.base # hlRestBase /\ isProxyFailure(o)
  <2>1. PICK h \in PoolHost : c.base = Host("https", h, "bare")
    BY <1>1, <1>4 DEF Base
  <2>2. h # hlRestBase.host /\ c.base.host = h
    BY <1>4, <2>1, HostFields DEF hlRestBase
  <2>3. failedAt' \in [PoolHost -> Int] /\ FailuresListed' /\ ExchangeNeverFails'
    BY <1>4, <2>1, <2>2, FailureListed DEF outcome
  <2> QED
    BY <1>3, <2>3 DEF RouteInv, RouteType, CooldownHonoured, outcome, settings
<1>5. CASE ~(c.base # hlRestBase /\ isProxyFailure(o))
  BY <1>3, <1>5
  DEF RouteInv, RouteType, FailuresListed, ExchangeNeverFails, CooldownHonoured, outcome, settings
<1> QED
  BY <1>4, <1>5

\* A transport keeps its endpoint, whatever becomes of its subscription.
LEMMA SubOfKeeps ==
  ASSUME RouteInv, NEW w \in sockets, NEW st \in {"none", "asked", "live"}
  PROVE  SubOf(w, st) \subseteq Transport
<1>1. [w EXCEPT !.sub = st] \in Transport
  BY DEF RouteInv, RouteType, Transport
<1> QED
  BY <1>1 DEF SubOf, RouteInv, RouteType

\* wsToHttpBase takes the endpoint back to the address the pool has.
LEMMA SocketStep ==
  ASSUME RouteInv, NEW w \in sockets, subscriptionFails(w)
  PROVE  RouteInv'
<1>0. sockets' \subseteq Transport
  BY SubOfKeeps DEF subscriptionFails
<1>1. PICK b \in Base : w.wsUrl = WsUrl(b)
  BY DEF RouteInv, RouteType, Transport
<1>2. CASE w.wsUrl # WsUrl(hlRestBase)
  <2>1. PICK h \in PoolHost : b = Host("https", h, "bare")
    BY <1>1, <1>2 DEF Base
  <2>2. wsToHttpBase(w.wsUrl) = Host("https", h, "bare") /\ w.wsUrl.host = h
    BY <1>1, <2>1, HostFields DEF wsToHttpBase, WsUrl
  <2>3. h # hlRestBase.host
    BY <1>1, <1>2, <2>1, HostFields DEF hlRestBase, WsUrl
  <2>4. failedAt' \in [PoolHost -> Int] /\ FailuresListed' /\ ExchangeNeverFails'
    BY <1>2, <2>2, <2>3, FailureListed DEF subscriptionFails
  <2> QED
    BY <1>0, <2>4 DEF RouteInv, RouteType, CooldownHonoured, subscriptionFails, settings
<1>3. CASE w.wsUrl = WsUrl(hlRestBase)
  BY <1>0, <1>3 DEF RouteInv, RouteType, FailuresListed, ExchangeNeverFails, CooldownHonoured,
              subscriptionFails, settings
<1> QED
  BY <1>2, <1>3

LEMMA TransportStep ==
  ASSUME RouteInv, NEW w \in sockets, wsSubscribe(w) \/ dropClient(w)
  PROVE  RouteInv'
<1>1. /\ UNCHANGED <<clockMs, user, pool, failedAt, http, cooldownUntil, lastSent>>
      /\ sockets' \subseteq sockets \/ \E st \in {"none", "asked", "live"} : sockets' = SubOf(w, st)
  BY DEF wsSubscribe, dropClient, settings
<1>2. sockets' \subseteq Transport
  BY <1>1, SubOfKeeps DEF RouteInv, RouteType
<1> QED
  BY <1>1, <1>2 DEF RouteInv, RouteType, FailuresListed, ExchangeNeverFails, CooldownHonoured

LEMMA SendStep ==
  ASSUME RouteInv, NEW t,
         (\E id \in 1..MaxHttp : request(id, t)) \/ (\E id \in 1..MaxWs : connect(id, t))
  PROVE  RouteInv'
<1>1. routedBase(t) \in Base
  BY RoutedIsBase DEF RouteInv
<1>2. CooldownHonoured'
  BY SendsCool DEF request, connect
<1>3. CASE \E id \in 1..MaxHttp : request(id, t)
  <2>1. PICK id \in 1..MaxHttp : request(id, t)
    BY <1>3
  <2>2. id \in Nat
    BY RoutingAssumption
  <2>3. [id |-> id, base |-> routedBase(t)] \in [id : Nat, base : Base]
    BY <1>1, <2>2
  <2>4. http' \subseteq [id : Nat, base : Base]
    BY <2>1, <2>3 DEF RouteInv, RouteType, request
  <2> QED
    BY <1>2, <2>1, <2>4
    DEF RouteInv, RouteType, FailuresListed, ExchangeNeverFails, request, settings
<1>4. CASE \E id \in 1..MaxWs : connect(id, t)
  <2>1. \A b \in Base : NoTrailingSlash(b) = b
    BY HostFields DEF Base, NoTrailingSlash, hlRestBase
  <2>2. PICK id \in 1..MaxWs : connect(id, t)
    BY <1>4
  <2>3. id \in Nat
    BY RoutingAssumption
  <2>4. [id |-> id, wsUrl |-> WsUrl(NoTrailingSlash(routedBase(t))), sub |-> "none"] \in Transport
    BY <1>1, <2>1, <2>3 DEF Transport
  <2>5. sockets' \subseteq Transport
    BY <2>2, <2>4 DEF connect, RouteInv, RouteType
  <2> QED
    BY <1>2, <2>2, <2>5
    DEF RouteInv, RouteType, FailuresListed, ExchangeNeverFails, connect, settings
<1> QED
  BY <1>3, <1>4

LEMMA RouteInitially == RoutingInit => RouteInv
<1> SUFFICES ASSUME RoutingInit PROVE RouteInv
  OBVIOUS
<1>1. CooldownLen \in Nat \ {0}
  BY RoutingAssumption
<1>2. pool \in Seq(Base)
  BY DEF RoutingInit
<1>3. failedAt = [h \in PoolHost |-> -CooldownLen]
  BY DEF RoutingInit, PoolHost
<1>4. RouteType
  BY <1>1, <1>2, <1>3 DEF RoutingInit, RouteType
<1>5. FailuresListed /\ ExchangeNeverFails
  BY <1>1, <1>3 DEF RoutingInit, FailuresListed, ExchangeNeverFails
<1> QED
  BY <1>4, <1>5 DEF RouteInv, RoutingInit, CooldownHonoured, NothingSent

LEMMA RouteStep == RouteInv /\ [RoutingNext]_routeVars => RouteInv'
<1> SUFFICES ASSUME RouteInv, [RoutingNext]_routeVars PROVE RouteInv'
  OBVIOUS
<1> USE DEF RouteInv, RouteType, FailuresListed, ExchangeNeverFails, CooldownHonoured
<1>1. CASE hydrateProxyPool
  <2>1. <<>> \in Seq(Base) /\ loadAppConfig(Delivered) \in Seq(Base)
    BY DeliveredPool
  <2> QED
    BY <1>1, <2>1 DEF hydrateProxyPool
<1>2. CASE detectRoutingEnv \/ \E m \in {"auto", "direct", "proxy"} : setMode(m)
  BY <1>2 DEF detectRoutingEnv, setMode
<1>3. CASE \E u \in RouteUser : setUser(u)
  BY <1>3 DEF setUser
<1>4. CASE \E id \in 1..MaxHttp, t \in Traffic : request(id, t)
  BY <1>4, SendStep
<1>5. CASE \E c \in http, o \in {"ok", "refused", "throttled", "gateway", "none"} : outcome(c, o)
  BY <1>5, OutcomeStep
<1>6. CASE \E id \in 1..MaxWs, t \in Traffic : connect(id, t)
  BY <1>6, SendStep
<1>7. CASE \E w \in sockets : subscriptionFails(w)
  BY <1>7, SocketStep
<1>10. CASE \E w \in sockets : wsSubscribe(w) \/ dropClient(w)
  BY <1>10, TransportStep
<1>8. CASE tick
  <2>1. /\ clockMs \in Nat /\ clockMs' = clockMs + 1 /\ CooldownLen \in Nat
        /\ UNCHANGED <<failedAt, cooldownUntil>>
    BY <1>8, RoutingAssumption DEF tick
  <2>2. \A h \in PoolHost : failedAt[h] \in Int
    OBVIOUS
  <2>3. \A h \in PoolHost : clockMs' < failedAt[h] + CooldownLen
                             => clockMs < failedAt[h] + CooldownLen
    BY <2>1, <2>2
  <2>4. FailuresListed'
    BY <2>1, <2>3
  <2> QED
    BY <1>8, <2>1, <2>4 DEF tick, settings
<1>9. CASE UNCHANGED routeVars
  BY <1>9 DEF routeVars
<1> QED
  BY <1>1, <1>2, <1>3, <1>4, <1>5, <1>6, <1>7, <1>8, <1>9, <1>10 DEF RoutingNext

\* For every pool the server delivers, trailing slashes or not, every hash and
\* every order of requests, subscriptions and failures: no request goes, and no
\* client is made, towards a proxy within PROXY_COOLDOWN_MS of a request that
\* failed there or of a live subscription's failure.
THEOREM FailedProxiesRest == RoutingSpec => []CooldownHonoured
<1>1. RouteInv => CooldownHonoured
  BY DEF RouteInv
<1> QED
  BY <1>1, RouteInitially, RouteStep, PTL DEF RoutingSpec

---------------------------------------------------------------------------
(* The creation forms.  That the server takes what a form lets through is  *)
(* a fact about the two sets of rules and the encoding between them, for   *)
(* every template and every number typed (FormsAgree); the invariant says  *)
(* that a create request carries what its form had checked.                *)

AnyField == {Empty, Infinite, NaN} \cup {Num(k) : k \in Int}
Filled(k) == [1..FieldsOf(k) -> AnyField]

LEMMA FieldKinds ==
  ASSUME NEW x \in AnyField
  PROVE  /\ Number(x) \in AnyField \ {Empty}
         /\ x.is \in {"empty", "num", "inf", "nan"}
         /\ x.is = "empty" <=> x = Empty
         /\ x.is = "num" => x = Num(x.n) /\ x.n \in Int
         /\ x.is = "inf" <=> x = Infinite
         /\ x.is = "nan" <=> x = NaN
         /\ x # Null
BY DEF AnyField, Number, Empty, Num, Infinite, NaN, Null

\* A positive number that survives JSON is the same positive number.
LEMMA PositiveSurvives ==
  ASSUME NEW x \in AnyField, Positive(Number(x)), json(Number(x)) # Null
  PROVE  json(Number(x)) = Number(x) /\ positiveNumber(Number(x))
<1> DEFINE y == Number(x)
<1>1. y \in AnyField
  BY FieldKinds
<1> HIDE DEF y
<1>2. y.is = "inf" \/ (y.is = "num" /\ y.n > 0)
  BY DEF Positive, Exceeds, Num, y
<1>3. y.is = "num" /\ json(y) = y
  BY <1>2 DEF json, Null, y
<1> QED
  BY <1>2, <1>3 DEF positiveNumber, y

\* The delay of a scheduled order becomes a whole, positive point in time.
LEMMA ScheduledTime ==
  ASSUME NEW n \in Int, n > 0
  PROVE  positiveInteger(Num(2 * (Now + n)))
<1>1. 2 * (Now + n) > 0 /\ (2 * (Now + n)) % 2 = 0
  BY DEF Now
<1> QED
  BY <1>1 DEF positiveInteger, positiveNumber, IsInteger, Num

LEMMA FormsAgree ==
  ASSUME NEW k \in Template, NEW f \in Filled(k), formOk(k, f),
         \A i \in 1..FieldsOf(k) : body(k, f)[i] # Null,
         NEW name, name # "unnamed"
  PROVE  validateParams(k, name, body(k, f))
<1> DEFINE b == body(k, f)
<1>1. \A i \in 1..FieldsOf(k) :
        b[i] = CASE k = "tpsl" /\ f[i] = Empty -> Empty
                 [] k = "scheduled" /\ i = 2 /\ Number(f[i]).is = "num"
                      -> Num(2 * (Now + Number(f[i]).n))
                 [] OTHER -> json(Number(f[i]))
  BY DEF body
<1>2. \A i \in 1..FieldsOf(k) : f[i] \in AnyField
  BY DEF Filled
<1> HIDE DEF b
<1>3. ASSUME NEW i \in 1..FieldsOf(k), Positive(Number(f[i])), k # "tpsl",
             k = "scheduled" => i # 2
      PROVE  b[i] = Number(f[i]) /\ positiveNumber(b[i])
  <2>1. b[i] = json(Number(f[i]))
    BY <1>1, <1>3
  <2>2. b[i] # Null
    BY DEF b
  <2> QED
    BY <1>2, <1>3, <2>1, <2>2, PositiveSurvives
<1>4. CASE k \in {"grid", "gridLimit"}
  <2>1. FieldsOf(k) = 4 /\ gridFormOk(f)
    BY <1>4 DEF FieldsOf, formOk
  <2>2. /\ Positive(Number(f[1])) /\ Positive(Number(f[4]))
        /\ Exceeds(Number(f[2]), Number(f[1])) /\ AtLeast(Number(f[3]), 2)
    BY <2>1 DEF gridFormOk
  <2>3. Positive(Number(f[2])) /\ Positive(Number(f[3]))
    BY <1>2, <2>1, <2>2, FieldKinds DEF Positive, Exceeds, AtLeast, IsInteger, Num, NaN
  <2>4. \A i \in 1..4 : b[i] = Number(f[i]) /\ positiveNumber(b[i])
    BY <1>3, <1>4, <2>1, <2>2, <2>3
  <2>5. gridParamsOk(b)
    BY <2>2, <2>4 DEF gridParamsOk, positiveInteger, AtLeast
  <2> QED
    BY <1>4, <2>5 DEF validateParams, b
<1>5. CASE k = "twap"
  <2>1. FieldsOf(k) = 3 /\ twapFormOk(f)
    BY <1>5 DEF FieldsOf, formOk
  <2>2. Positive(Number(f[1])) /\ Positive(Number(f[3])) /\ AtLeast(Number(f[2]), 1)
    BY <2>1 DEF twapFormOk
  <2>3. Positive(Number(f[2]))
    BY <1>2, <2>1, <2>2, FieldKinds DEF Positive, Exceeds, AtLeast, IsInteger, Num, NaN
  <2>4. \A i \in 1..3 : b[i] = Number(f[i]) /\ positiveNumber(b[i])
    BY <1>3, <1>5, <2>1, <2>2, <2>3
  <2> QED
    BY <1>5, <2>2, <2>4 DEF validateParams, positiveInteger, AtLeast, b
<1>6. CASE k = "tpsl"
  <2>1. FieldsOf(k) = 2 /\ tpslFormOk(f)
    BY <1>6 DEF FieldsOf, formOk
  <2>2. ASSUME NEW i \in 1..2, f[i] # Empty PROVE positiveNumber(b[i]) /\ b[i] # Empty
    <3>1. Positive(Number(f[i])) /\ b[i] = json(Number(f[i])) /\ b[i] # Null /\ f[i] \in AnyField
      BY <1>1, <1>2, <1>6, <2>1, <2>2 DEF tpslFormOk, b
    <3>2. positiveNumber(b[i])
      BY <3>1, PositiveSurvives
    <3> QED
      BY <3>2 DEF positiveNumber, Empty
  <2>3. \A i \in 1..2 : f[i] = Empty => b[i] = Empty
    BY <1>1, <1>6, <2>1
  <2>4. tpslParamsOk(b)
    BY <2>1, <2>2, <2>3 DEF tpslFormOk, tpslParamsOk
  <2> QED
    BY <1>6, <2>4 DEF validateParams, b
<1>7. CASE k = "trailing"
  <2>1. FieldsOf(k) = 1 /\ Positive(Number(f[1])) /\ Below100(Number(f[1]))
    BY <1>7 DEF FieldsOf, formOk
  <2>2. b[1] = Number(f[1]) /\ positiveNumber(b[1])
    BY <1>3, <1>7, <2>1
  <2> QED
    BY <1>7, <2>1, <2>2 DEF validateParams, b
<1>8. CASE k \in {"dca", "conditional"}
  <2>1. FieldsOf(k) = 2 /\ Positive(Number(f[1])) /\ Positive(Number(f[2]))
    BY <1>8 DEF FieldsOf, formOk
  <2>2. positiveNumber(b[1]) /\ positiveNumber(b[2])
    BY <1>3, <1>8, <2>1
  <2> QED
    BY <1>8, <2>2 DEF validateParams, b
<1>9. CASE k = "scheduled"
  <2>1. FieldsOf(k) = 2 /\ Positive(Number(f[1])) /\ Positive(Number(f[2]))
    BY <1>9 DEF FieldsOf, formOk
  <2>2. positiveNumber(b[1])
    BY <1>3, <1>9, <2>1
  <2> DEFINE y == Number(f[2])
  <2>3. y \in AnyField /\ Positive(y)
    BY <1>2, <2>1, FieldKinds
  <2>4. b[2] = (IF y.is = "num" THEN Num(2 * (Now + y.n)) ELSE json(y)) /\ b[2] # Null
    BY <1>1, <1>9, <2>1 DEF b
  <2> HIDE DEF y
  <2>5. y.is = "inf" \/ (y.is = "num" /\ y.n > 0)
    BY <2>3 DEF Positive, Exceeds, Num
  <2>6. y.is = "num" /\ y.n > 0 /\ y.n \in Int
    BY <2>3, <2>4, <2>5, FieldKinds DEF json
  <2>7. positiveInteger(b[2])
    BY <2>4, <2>6, ScheduledTime
  <2> QED
    BY <1>9, <2>2, <2>7 DEF validateParams, b
<1> QED
  BY <1>4, <1>5, <1>6, <1>7, <1>8, <1>9 DEF Template

FieldsTyped == template \in Template /\ fields \in Filled(template)

\* A call is a request of the panel: a record of these fields and no other.
IsRequest(c) ==
  c = [op |-> c.op, id |-> c.id, kind |-> c.kind, coin |-> c.coin, args |-> c.args,
       at |-> c.at, answer |-> c.answer]

\* A create carries the encoding of fields its form had let through.
CheckedByForm(c) ==
  c.op = "create" =>
    /\ c.kind \in Template
    /\ \E f \in Filled(c.kind) : formOk(c.kind, f) /\ c.args = body(c.kind, f)

RefusedForReason(c) ==
  c.op = "create" /\ c.at = "refused" =>
    c.coin = "unnamed" \/ \E i \in DOMAIN c.args : c.args[i] = Null

CallsSound ==
  \A c \in apiCalls : IsRequest(c) /\ CheckedByForm(c) /\ RefusedForReason(c)

FormsInv == FieldsTyped /\ CallsSound

LEMMA DefaultsFilled ==
  ASSUME NEW k \in Template
  PROVE  Defaults(k) \in Filled(k)
<1>1. Empty \in AnyField /\ \A n \in Int : Num(n) \in AnyField
  BY DEF AnyField
<1>2. CASE k = "dca"
  <2>1. FieldsOf(k) = 2 /\ Defaults(k) = <<Empty, Num(48)>>
    BY <1>2 DEF FieldsOf, Defaults
  <2> QED
    BY <1>1, <2>1 DEF Filled
<1>3. CASE k = "twap"
  <2>1. FieldsOf(k) = 3 /\ Defaults(k) = <<Empty, Num(12), Num(6)>>
    BY <1>3 DEF FieldsOf, Defaults
  <2> QED
    BY <1>1, <2>1 DEF Filled
<1>4. CASE k \in {"grid", "gridLimit"}
  <2>1. FieldsOf(k) = 4 /\ Defaults(k) = <<Empty, Empty, Num(12), Empty>>
    BY <1>4 DEF FieldsOf, Defaults
  <2> QED
    BY <1>1, <2>1 DEF Filled
<1>5. CASE k \notin {"dca", "twap", "grid", "gridLimit"}
  <2>1. Defaults(k) = [i \in 1..FieldsOf(k) |-> Empty]
    BY <1>5 DEF Defaults
  <2> QED
    BY <1>1, <2>1 DEF Filled
<1> QED
  BY <1>2, <1>3, <1>4, <1>5

LEMMA FormsInitially == FormInit => FormsInv
BY DefaultsFilled DEF FormInit, FormsInv, FieldsTyped, CallsSound, Template

\* The stage of a call and its answer change, not what it carries.
CarriesOn(c, d, a) ==
  /\ IsRequest(d) /\ d.at = a
  /\ d.op = c.op /\ d.kind = c.kind /\ d.coin = c.coin /\ d.args = c.args

LEMMA CallMoves ==
  ASSUME NEW c, IsRequest(c), NEW a, NEW v
  PROVE  /\ CarriesOn(c, [c EXCEPT !.at = a], a)
         /\ CarriesOn(c, [c EXCEPT !.at = a, !.answer = v], a)
<1> SUFFICES ASSUME NEW d \in {[c EXCEPT !.at = a], [c EXCEPT !.at = a, !.answer = v]}
             PROVE  CarriesOn(c, d, a)
  OBVIOUS
<1>1. c \in [op : {c.op}, id : {c.id}, kind : {c.kind}, coin : {c.coin}, args : {c.args},
             at : {c.at}, answer : {c.answer}]
  BY Zenon DEF IsRequest
<1>2. d \in [op : {c.op}, id : {c.id}, kind : {c.kind}, coin : {c.coin}, args : {c.args},
             at : {a}, answer : {c.answer, v}]
  BY <1>1
<1>3. /\ d.op = c.op /\ d.id = c.id /\ d.kind = c.kind /\ d.coin = c.coin
      /\ d.args = c.args /\ d.at = a
  BY <1>2
<1>4. IsRequest(d)
  BY <1>2, <1>3 DEF IsRequest
<1> QED
  BY <1>3, <1>4 DEF CarriesOn

\* A refusal has one of the two reasons: otherwise the server agrees with the form.
LEMMA RefusalHasReason ==
  ASSUME NEW c, CheckedByForm(c), c.op = "create", Refuses(c)
  PROVE  c.coin = "unnamed" \/ \E i \in DOMAIN c.args : c.args[i] = Null
<1>1. PICK f \in Filled(c.kind) : formOk(c.kind, f) /\ c.args = body(c.kind, f)
  BY DEF CheckedByForm
<1>2. c.kind \in Template /\ ~validateParams(c.kind, c.coin, body(c.kind, f))
  BY <1>1 DEF CheckedByForm, Refuses
<1>3. DOMAIN c.args = 1..FieldsOf(c.kind)
  BY <1>1 DEF body
<1> QED
  BY <1>1, <1>2, <1>3, FormsAgree

LEMMA TapStep ==
  ASSUME FormsInv, onCreate \/ killAll \/ \E i \in Ids : toggle(i) \/ cancel(i)
  PROVE  FormsInv'
<1>1. PICK r : /\ apiCalls' = apiCalls \cup {r}
               /\ IsRequest(r) /\ CheckedByForm(r) /\ RefusedForReason(r)
  <2>1. \A op, id, kind, args :
          LET q == PanelRequest(op, id, kind, args)
          IN  q.op = op /\ q.kind = kind /\ q.args = args /\ q.at = "sent" /\ IsRequest(q)
    BY DEF PanelRequest, IsRequest
  <2>2. CASE onCreate
    <3> DEFINE q == PanelRequest("create", 0, template, body(template, fields))
    <3>1. /\ q.op = "create" /\ q.kind = template /\ q.args = body(template, fields)
          /\ q.at = "sent" /\ IsRequest(q)
      BY <2>1
    <3>2. apiCalls' = apiCalls \cup {q} /\ formOk(template, fields)
      BY <2>2 DEF onCreate, PanelCall
    <3> HIDE DEF q
    <3>3. CheckedByForm(q) /\ RefusedForReason(q)
      BY <3>1, <3>2 DEF FormsInv, FieldsTyped, CheckedByForm, RefusedForReason
    <3> QED
      BY <3>1, <3>2, <3>3
  <2>3. CASE killAll \/ \E i \in Ids : toggle(i) \/ cancel(i)
    <3>1. PICK op, id, kind :
            /\ op \in {"kill", "patch", "delete"}
            /\ apiCalls' = apiCalls \cup {PanelRequest(op, id, kind, <<>>)}
      BY <2>3 DEF killAll, toggle, cancel, PanelCall
    <3> DEFINE q == PanelRequest(op, id, kind, <<>>)
    <3>2. q.op = op /\ IsRequest(q)
      BY <2>1
    <3> HIDE DEF q
    <3>3. CheckedByForm(q) /\ RefusedForReason(q)
      BY <3>1, <3>2 DEF CheckedByForm, RefusedForReason
    <3> QED
      BY <3>1, <3>2, <3>3 DEF q
  <2> QED
    BY <2>2, <2>3
<1>2. UNCHANGED <<template, fields>>
  BY DEF onCreate, killAll, toggle, cancel
<1> QED
  BY <1>1, <1>2 DEF FormsInv, FieldsTyped, CallsSound

LEMMA CallEndsOrMoves ==
  ASSUME FormsInv, NEW c \in apiCalls,
         handle(c) \/ rejected(c) \/ reload(c) \/ refresh(c) \/ timesOut(c)
  PROVE  CallsSound'
<1>1. IsRequest(c) /\ CheckedByForm(c)
  BY DEF FormsInv, CallsSound
<1>2. CASE rejected(c) \/ refresh(c) \/ timesOut(c)
  BY <1>2 DEF rejected, refresh, timesOut, FormsInv, CallsSound
<1>3. ASSUME NEW d, Becomes(c, d), IsRequest(d) /\ CheckedByForm(d) /\ RefusedForReason(d)
      PROVE  CallsSound'
  BY <1>3 DEF Becomes, FormsInv, CallsSound
<1>4. CASE handle(c)
  <2>1. PICK a \in {"refused", "reload"} :
          Becomes(c, [c EXCEPT !.at = a]) /\ (a = "refused" => Refuses(c))
    BY <1>4 DEF handle
  <2> DEFINE d == [c EXCEPT !.at = a]
  <2>2. CarriesOn(c, d, a)
    BY <1>1, CallMoves
  <2> HIDE DEF d
  <2>3. CheckedByForm(d)
    BY <1>1, <2>2 DEF CarriesOn, CheckedByForm
  <2>4. RefusedForReason(d)
    BY <1>1, <2>1, <2>2, RefusalHasReason DEF CarriesOn, RefusedForReason
  <2> QED
    BY <1>3, <2>1, <2>2, <2>3, <2>4 DEF CarriesOn, d
<1>5. CASE reload(c)
  <2> DEFINE d == [c EXCEPT !.at = "read", !.answer = store]
  <2>1. CarriesOn(c, d, "read")
    BY <1>1, CallMoves
  <2>2. Becomes(c, d)
    BY <1>5 DEF reload
  <2> HIDE DEF d
  <2>3. CheckedByForm(d) /\ RefusedForReason(d)
    BY <1>1, <2>1 DEF CarriesOn, CheckedByForm, RefusedForReason
  <2> QED
    BY <1>3, <2>1, <2>2, <2>3 DEF CarriesOn
<1> QED
  BY <1>2, <1>4, <1>5

LEMMA FormsStep == FormsInv /\ [FormNext]_formVars => FormsInv'
<1> SUFFICES ASSUME FormsInv, [FormNext]_formVars PROVE FormsInv'
  OBVIOUS
<1>1. CASE setTemplate
  BY <1>1, DefaultsFilled DEF setTemplate, FormsInv, FieldsTyped, CallsSound
<1>2. CASE setFields
  <2>1. FieldValue \subseteq AnyField
    BY FormsAssumption DEF FieldValue, AnyField
  <2>2. fields' \in Filled(template)
    BY <1>2, <2>1 DEF setFields, Filled
  <2> QED
    BY <1>2, <2>2 DEF setFields, FormsInv, FieldsTyped, CallsSound
<1>3. CASE onCreate \/ killAll \/ \E i \in Ids : toggle(i) \/ cancel(i)
  BY <1>3, TapStep
<1>4. CASE \E i \in Ids : engineMoves(i)
  BY <1>4 DEF engineMoves, FormsInv, FieldsTyped, CallsSound
<1>5. ASSUME NEW c \in apiCalls,
             handle(c) \/ rejected(c) \/ reload(c) \/ refresh(c) \/ timesOut(c)
      PROVE  FormsInv'
  <2>1. Cleared(template, fields) \in Filled(template)
    BY DEF FormsInv, FieldsTyped, Cleared, Filled, AnyField
  <2>2. template' = template /\ fields' \in {fields, Cleared(template, fields)}
    BY <1>5 DEF handle, rejected, reload, refresh, timesOut
  <2>3. CallsSound'
    BY <1>5, CallEndsOrMoves
  <2> QED
    BY <2>1, <2>2, <2>3 DEF FormsInv, FieldsTyped
<1>6. CASE UNCHANGED formVars
  BY <1>6 DEF formVars, FormsInv, FieldsTyped, CallsSound
<1> QED
  BY <1>1, <1>2, <1>3, <1>4, <1>5, <1>6 DEF FormNext

\* Whatever numbers are typed into whichever template, a create the server
\* refuses (validateParams) had no coin, or a number JSON cannot carry: the
\* panel's own checks let nothing else through that the engine would turn down.
THEOREM FormsNeverMislead == FormSpec => []FormsAreAccepted
<1>1. FormsInv => FormsAreAccepted
  BY DEF FormsInv, CallsSound, RefusedForReason, FormsAreAccepted
<1> QED
  BY <1>1, FormsInitially, FormsStep, PTL DEF FormSpec

---------------------------------------------------------------------------
(* The order ticket.  Two submits without an edit between them were tapped *)
(* on forms that agree in everything the legs depend on (SameLegs), and    *)
(* the second one still holds the first one's primary cloid: the retry     *)
(* cloid survives the market, other taps and the receipt.                  *)

\* The elements of a sequence.
RangeOf(s) == {s[i] : i \in DOMAIN s}

TicketRec ==
  [coin : TicketCoin, type : OrderTypes, unit : {"base", "quote"}, size : Nat, price : Nat,
   edited : BOOLEAN, bbo : BboMode \cup {"custom"}, stop : Nat, tpSlOn : BOOLEAN, tp : Nat,
   sl : Nat, reduceOnly : BOOLEAN, start : Nat, end : Nat, count : Nat \ {0}, minutes : Nat]

Primary == {<<n, 0>> : n \in Nat}

\* The legs of an order of form f, by their index.
LegsOf(f) ==
  IF f.type = "scale" THEN 0..(f.count - 1)
  ELSE IF useBracket(f) THEN 0..Len(bracketLegs(f)) ELSE {0}

SameLegs(f, g) ==
  /\ f.type = g.type /\ f.count = g.count
  /\ f.tpSlOn = g.tpSlOn /\ f.tp = g.tp /\ f.sl = g.sl

PrimaryOf(s) == s.orders[1].cloid

FlightRec ==
  [at : {"leverage", "build", "sent"}, side : Side, f : TicketRec, mid : Nat,
   book : [centre : Nat, depth : Nat], retry : Primary \cup {NoRetry}, edits : Nat]

\* What is known of every action signed.
ActionSound(s) ==
  /\ s \in [orders : {s.orders}, f : TicketRec, side : Side, edits : Nat,
            end : {"awaited", "ok", "rejected", "uncertain"}, refused : BOOLEAN]
  /\ s.f.type # "twap" => /\ PrimaryOf(s) \in Primary
                          /\ Cloids(s) = {deriveCloid(PrimaryOf(s), j) : j \in LegsOf(s.f)}

Last == sent[Len(sent)]
Tapped == flight.at \in {"leverage", "build"}
Doubtful(s) == s.end = "uncertain" /\ ~s.refused /\ s.f.type # "twap"

TicketType ==
  /\ ticket \in TicketRec
  /\ mid \in Nat /\ book \in [centre : Nat, depth : Nat] /\ edits \in Nat
  /\ retry \in Primary \cup {NoRetry}
  /\ flight \in FlightRec \cup {NoFlight}
  /\ sent \in Seq(RangeOf(sent))
  /\ \A i \in DOMAIN sent : ActionSound(sent[i])
  /\ flight.at = "sent" => sent # <<>> /\ Last.f = flight.f

EditsCounted ==
  /\ \A i \in DOMAIN sent : sent[i].edits <= edits
  /\ flight # NoFlight => flight.edits <= edits

FormsHeld ==
  /\ sent # <<>> /\ Last.edits = edits => SameLegs(ticket, Last.f)
  /\ flight # NoFlight /\ flight.edits = edits => SameLegs(ticket, flight.f)
  /\ Tapped /\ sent # <<>> /\ Last.edits = flight.edits => SameLegs(flight.f, Last.f)

RetryHeld ==
  sent # <<>> /\ Doubtful(Last) =>
    /\ Last.edits = edits /\ (Tapped \/ flight = NoFlight) => retry = PrimaryOf(Last)
    /\ Tapped /\ Last.edits = flight.edits => flight.retry = PrimaryOf(Last)

TicketInv == TicketType /\ EditsCounted /\ FormsHeld /\ RetryHeld /\ RetriesRepeatLegs

LEMMA AppendAny ==
  ASSUME NEW s, s \in Seq(RangeOf(s)), NEW x
  PROVE  LET t == Append(s, x)
         IN  /\ t \in Seq(RangeOf(t))
             /\ Len(s) \in Nat /\ Len(t) = Len(s) + 1
             /\ DOMAIN s = 1..Len(s) /\ DOMAIN t = 1..(Len(s) + 1)
             /\ \A i \in 1..Len(s) : t[i] = s[i]
             /\ t[Len(s) + 1] = x
<1> DEFINE S == RangeOf(s) \cup {x}
           t == Append(s, x)
<1>1. s \in Seq(S) /\ x \in S
  <2>1. RangeOf(s) \subseteq S
    OBVIOUS
  <2>2. s \in [1..Len(s) -> S] /\ Len(s) \in Nat
    BY <2>1
  <2> QED
    BY <2>2, SeqDef
<1> HIDE DEF S
<1>2. /\ Len(s) \in Nat /\ Len(t) = Len(s) + 1
      /\ DOMAIN s = 1..Len(s) /\ DOMAIN t = 1..(Len(s) + 1)
      /\ \A i \in 1..Len(s) : t[i] = s[i]
      /\ t[Len(s) + 1] = x /\ t \in Seq(S)
  BY <1>1
<1> HIDE DEF t
<1>3. t \in [1..(Len(s) + 1) -> RangeOf(t)]
  BY <1>2 DEF RangeOf
<1>4. t \in Seq(RangeOf(t))
  BY <1>2, <1>3, SeqDef
<1> QED
  BY <1>2, <1>4 DEF t

LEMMA SameLength ==
  ASSUME NEW s, s \in Seq(RangeOf(s)), NEW t, t = [i \in DOMAIN s |-> t[i]]
  PROVE  t \in Seq(RangeOf(t)) /\ Len(t) = Len(s) /\ DOMAIN t = DOMAIN s /\ (t = <<>> <=> s = <<>>)
<1>1. Len(s) \in Nat /\ DOMAIN s = 1..Len(s)
  OBVIOUS
<1>2. DOMAIN t = 1..Len(s)
  BY <1>1
<1>3. t \in [1..Len(s) -> RangeOf(t)]
  BY <1>2 DEF RangeOf
<1>4. t \in Seq(RangeOf(t))
  BY <1>1, <1>3, SeqDef
<1>5. Len(t) = Len(s)
  BY <1>1, <1>2, <1>4
<1> QED
  BY <1>1, <1>2, <1>4, <1>5

---------------------------------------------------------------------------
\* The legs of an order and their cloids.

LEMMA FirstLegIsPrimary ==
  ASSUME NEW c \in Primary
  PROVE  deriveCloid(c, 0) = c
<1>1. PICK n \in Nat : c = <<n, 0>>
  BY DEF Primary
<1>2. c[1] = n /\ c[2] = 0 /\ (0 + 0) % 65536 = 0
  BY <1>1
<1> QED
  BY <1>1, <1>2 DEF deriveCloid

LEMMA SameLegsOf ==
  ASSUME NEW f \in TicketRec, NEW g \in TicketRec, SameLegs(f, g)
  PROVE  LegsOf(f) = LegsOf(g)
BY DEF SameLegs, LegsOf, useBracket, bracketLegs

LEMMA PrefillKeeps ==
  ASSUME NEW f \in TicketRec, NEW m \in Nat
  PROVE  prefill(f, m) \in TicketRec /\ SameLegs(prefill(f, m), f)
BY DEF prefill, TicketRec, SameLegs

LEMMA BracketLegs ==
  ASSUME NEW f \in TicketRec
  PROVE  Len(bracketLegs(f)) \in Nat /\ DOMAIN bracketLegs(f) = 1..Len(bracketLegs(f))
<1>1. CASE f.tp > 0 /\ f.sl > 0
  BY <1>1 DEF bracketLegs
<1>2. CASE f.tp > 0 /\ ~(f.sl > 0)
  BY <1>2 DEF bracketLegs
<1>3. CASE ~(f.tp > 0) /\ f.sl > 0
  BY <1>3 DEF bracketLegs
<1>4. CASE ~(f.tp > 0) /\ ~(f.sl > 0)
  BY <1>4 DEF bracketLegs
<1> QED
  BY <1>1, <1>2, <1>3, <1>4

LEMMA TupleCloid ==
  ASSUME NEW f, NEW side, NEW px, NEW lots, NEW ro, NEW tr, NEW c
  PROVE  orderTuple(f, side, px, lots, ro, tr, c).cloid = c
BY DEF orderTuple

\* The cloids of what a builder made from the primary c for the form f.
BuiltFrom(orders, c, f) ==
  /\ orders[1].cloid = c
  /\ {orders[i].cloid : i \in DOMAIN orders} = {deriveCloid(c, j) : j \in LegsOf(f)}

LEMMA SingleBuilt ==
  ASSUME NEW f \in TicketRec, NEW side, NEW px, NEW base, NEW c \in Primary,
         f.type # "scale", ~useBracket(f), buildOrder(f, side, px, base, c) # Rejected
  PROVE  BuiltFrom(buildOrder(f, side, px, base, c), c, f)
<1>1. PICK o : buildOrder(f, side, px, base, c) = <<o>> /\ o.cloid = c
  BY TupleCloid DEF buildOrder
<1>2. LegsOf(f) = {0}
  BY DEF LegsOf
<1> QED
  BY <1>1, <1>2, FirstLegIsPrimary DEF BuiltFrom

LEMMA ScaleBuilt ==
  ASSUME NEW f \in TicketRec, NEW side, NEW base, NEW c \in Primary,
         f.type = "scale", buildScaleOrder(f, side, base, c) # Rejected
  PROVE  BuiltFrom(buildScaleOrder(f, side, base, c), c, f)
<1> DEFINE os == buildScaleOrder(f, side, base, c)
           n == f.count
<1>1. n \in Nat \ {0} /\ LegsOf(f) = 0..(n - 1)
  <2>1. n \in Nat \ {0}
    BY DEF TicketRec
  <2>2. LegsOf(f) = 0..(n - 1)
    BY DEF LegsOf
  <2> QED
    BY <2>1, <2>2
<1>2. DOMAIN buildScaleLevels(f.start, f.end, n) = 1..n
  BY DEF buildScaleLevels
<1>3. DOMAIN os = 1..n /\ \A i \in 1..n : os[i].cloid = deriveCloid(c, i - 1)
  BY <1>2, TupleCloid DEF buildScaleOrder
<1> HIDE DEF os, n
<1>4. os[1].cloid = c
  BY <1>1, <1>3, FirstLegIsPrimary
<1>5. \A j \in 0..(n - 1) : j + 1 \in 1..n /\ (j + 1) - 1 = j
  BY <1>1
<1>6. \A i \in 1..n : i - 1 \in 0..(n - 1)
  BY <1>1
<1>7. {os[i].cloid : i \in DOMAIN os} = {deriveCloid(c, j) : j \in LegsOf(f)}
  <2>1. ASSUME NEW i \in 1..n PROVE os[i].cloid \in {deriveCloid(c, j) : j \in 0..(n - 1)}
    BY <1>3, <1>6
  <2>2. ASSUME NEW j \in 0..(n - 1) PROVE deriveCloid(c, j) \in {os[i].cloid : i \in 1..n}
    <3>1. j + 1 \in 1..n /\ os[j + 1].cloid = deriveCloid(c, j)
      BY <1>3, <1>5
    <3> QED
      BY <3>1
  <2> QED
    BY <1>1, <1>3, <2>1, <2>2
<1> QED
  BY <1>4, <1>7 DEF BuiltFrom, os

LEMMA BracketBuilt ==
  ASSUME NEW f \in TicketRec, NEW side, NEW px, NEW base, NEW c \in Primary,
         f.type # "scale", useBracket(f), buildBracketOrder(f, side, px, base, c) # Rejected
  PROVE  BuiltFrom(buildBracketOrder(f, side, px, base, c), c, f)
<1> DEFINE os == buildBracketOrder(f, side, px, base, c)
           legs == bracketLegs(f)
           m == Len(legs)
           closeSide == IF side = "buy" THEN "sell" ELSE "buy"
           entry == orderTuple(f, side, px, roundSize(base, 1), f.reduceOnly, NoTrigger, c)
           leg(i) == orderTuple(f, closeSide, legs[i].px, roundSize(base, 1), TRUE, legs[i],
                                deriveCloid(c, i))
           rest == [i \in DOMAIN legs |-> leg(i)]
<1>1. m \in Nat /\ DOMAIN legs = 1..m /\ LegsOf(f) = 0..m
  BY BracketLegs DEF LegsOf
<1>2. entry.cloid = c /\ \A i \in 1..m : rest[i].cloid = deriveCloid(c, i)
  <2>1. entry.cloid = c
    BY TupleCloid
  <2>2. ASSUME NEW i PROVE leg(i).cloid = deriveCloid(c, i)
    BY DEF orderTuple
  <2> HIDE DEF legs, m, leg
  <2>3. \A i \in 1..m : rest[i] = leg(i)
    BY <1>1
  <2> QED
    BY <2>1, <2>2, <2>3
<1>3. os = <<entry>> \o rest
  BY DEF buildBracketOrder
<1>4. DOMAIN rest = 1..m
  BY <1>1
<1> HIDE DEF os, legs, m, entry, rest
<1>5. rest \in Seq(RangeOf(rest) \cup {entry}) /\ <<entry>> \in Seq(RangeOf(rest) \cup {entry})
  <2>1. rest \in [1..m -> RangeOf(rest) \cup {entry}]
    BY <1>4 DEF RangeOf, rest
  <2> QED
    BY <1>1, <2>1, SeqDef
<1>6. Len(rest) = m
  BY <1>1, <1>4, <1>5
<1>7. DOMAIN os = 1..(m + 1) /\ os[1] = entry /\ \A i \in 1..m : os[i + 1] = rest[i]
  BY <1>1, <1>3, <1>5, <1>6
<1>8. os[1].cloid = deriveCloid(c, 0)
  BY <1>2, <1>7, FirstLegIsPrimary
<1>9. \A j \in 0..m : j + 1 \in 1..(m + 1) /\ os[j + 1].cloid = deriveCloid(c, j)
  BY <1>1, <1>2, <1>7, <1>8
<1>10. {os[i].cloid : i \in DOMAIN os} = {deriveCloid(c, j) : j \in LegsOf(f)}
  <2>1. ASSUME NEW i \in 1..(m + 1) PROVE os[i].cloid \in {deriveCloid(c, j) : j \in 0..m}
    <3>1. i - 1 \in 0..m /\ (i - 1) + 1 = i
      BY <1>1
    <3> QED
      BY <1>9, <3>1
  <2>2. ASSUME NEW j \in 0..m PROVE deriveCloid(c, j) \in {os[i].cloid : i \in 1..(m + 1)}
    BY <1>9
  <2> QED
    BY <1>1, <1>7, <2>1, <2>2
<1> QED
  BY <1>2, <1>7, <1>10 DEF BuiltFrom, os

\* What a submit signs has the legs of its form, derived from the cloid it retries
\* or from a new one.
LEMMA OrdersBuilt ==
  ASSUME NEW fl \in FlightRec, fl.f.type # "twap", Len(sent) \in Nat, Orders(fl) # Rejected
  PROVE  \E c \in Primary : /\ fl.retry # NoRetry => c = fl.retry
                            /\ BuiltFrom(Orders(fl), c, fl.f)
<1> DEFINE c == IF fl.retry = NoRetry THEN generateCloid ELSE fl.retry
           base == baseSize(fl.f, fl.mid)
           px == submitPrice(fl.f, fl.mid, fl.book, fl.side)
<1>1. fl.f \in TicketRec /\ fl.retry \in Primary \cup {NoRetry}
  BY DEF FlightRec
<1>2. c \in Primary
  BY <1>1 DEF generateCloid, Primary
<1>3. Orders(fl) = IF fl.f.type = "scale" THEN buildScaleOrder(fl.f, fl.side, base, c)
                   ELSE IF useBracket(fl.f)
                        THEN buildBracketOrder(fl.f, fl.side, px, base, c)
                        ELSE buildOrder(fl.f, fl.side, px, base, c)
  BY DEF Orders
<1>4. (fl.retry # NoRetry => c = fl.retry)
  OBVIOUS
<1> HIDE DEF c, base, px
<1>5. CASE fl.f.type = "scale"
  <2>1. Orders(fl) = buildScaleOrder(fl.f, fl.side, base, c)
    BY <1>3, <1>5
  <2>2. BuiltFrom(Orders(fl), c, fl.f)
    BY <1>1, <1>2, <1>5, <2>1, ScaleBuilt
  <2> QED
    BY <1>2, <1>4, <2>2
<1>6. CASE fl.f.type # "scale" /\ useBracket(fl.f)
  BY <1>1, <1>2, <1>3, <1>4, <1>6, BracketBuilt
<1>7. CASE fl.f.type # "scale" /\ ~useBracket(fl.f)
  BY <1>1, <1>2, <1>3, <1>4, <1>7, SingleBuilt
<1> QED
  BY <1>5, <1>6, <1>7

---------------------------------------------------------------------------
(* The steps.                                                              *)

LEMMA AfterEdit ==
  ASSUME TicketInv, ticket' \in TicketRec, edits' = edits + 1, retry' \in {retry, NoRetry},
         UNCHANGED <<mid, book, flight, sent>>
  PROVE  TicketInv'
<1> USE DEF TicketInv
<1>1. TicketType'
  BY DEF TicketType, Last
<1>2. \A i \in DOMAIN sent : sent[i].edits \in Nat /\ sent[i].edits < edits'
  BY DEF TicketType, ActionSound, EditsCounted
<1>3. flight # NoFlight => flight.edits \in Nat /\ flight.edits < edits'
  BY DEF TicketType, FlightRec, EditsCounted
<1>4. sent # <<>> => Len(sent) \in DOMAIN sent
  BY DEF TicketType
<1>5. EditsCounted'
  BY <1>2, <1>3, edits \in Nat DEF EditsCounted, TicketType
<1>6. sent # <<>> => Last.edits # edits'
  BY <1>2, <1>4 DEF Last
<1>7. FormsHeld'
  BY <1>3, <1>6 DEF FormsHeld, Last, Tapped
<1>8. RetryHeld'
  BY <1>6 DEF RetryHeld, Last, Tapped, Doubtful
<1>9. RetriesRepeatLegs'
  BY DEF RetriesRepeatLegs, Repeats, Consecutive
<1> QED
  BY <1>1, <1>5, <1>7, <1>8, <1>9

LEMMA FeedMoves ==
  ASSUME TicketInv, ticket' \in TicketRec, SameLegs(ticket', ticket), mid' \in Nat,
         book' \in [centre : Nat, depth : Nat], UNCHANGED <<retry, flight, sent, edits>>
  PROVE  TicketInv'
<1> USE DEF TicketInv
<1>1. TicketType'
  BY DEF TicketType, Last
<1>2. EditsCounted'
  BY DEF EditsCounted
<1>3. FormsHeld'
  BY DEF FormsHeld, Last, Tapped, SameLegs
<1>4. RetryHeld'
  BY DEF RetryHeld, Last, Tapped, Doubtful
<1>5. RetriesRepeatLegs'
  BY DEF RetriesRepeatLegs, Repeats, Consecutive
<1> QED
  BY <1>1, <1>2, <1>3, <1>4, <1>5

\* What is written on the last action leaves what it signed alone.
LEMMA ActionMoves ==
  ASSUME NEW s, ActionSound(s), NEW e \in {"ok", "rejected", "uncertain"}
  PROVE  LET ended == [s EXCEPT !.end = e]
             given == [s EXCEPT !.refused = TRUE]
         IN  /\ ActionSound(ended) /\ ended.end = e
             /\ ended.orders = s.orders /\ ended.f = s.f /\ ended.edits = s.edits
             /\ ActionSound(given) /\ given.refused
             /\ given.orders = s.orders /\ given.f = s.f /\ given.edits = s.edits
<1> DEFINE Ends == {"awaited", "ok", "rejected", "uncertain"}
           Act == [orders : {s.orders}, f : TicketRec, side : Side, edits : Nat, end : Ends,
                   refused : BOOLEAN]
           ended == [s EXCEPT !.end = e]
           given == [s EXCEPT !.refused = TRUE]
<1>1. s \in Act
  BY DEF ActionSound
<1>2. /\ ended \in Act /\ ended.end = e
      /\ ended.orders = s.orders /\ ended.f = s.f /\ ended.edits = s.edits
  BY <1>1
<1>3. /\ given \in Act /\ given.refused
      /\ given.orders = s.orders /\ given.f = s.f /\ given.edits = s.edits
  BY <1>1
<1> HIDE DEF ended, given
<1>4. ActionSound(ended)
  BY <1>2 DEF ActionSound, PrimaryOf, Cloids
<1>5. ActionSound(given)
  BY <1>3 DEF ActionSound, PrimaryOf, Cloids
<1> QED
  BY <1>2, <1>3, <1>4, <1>5 DEF ended, given

\* A step that writes on the last action only.
LEMMA LastMoves ==
  ASSUME TicketType, RetriesRepeatLegs, sent # <<>>, NEW a, ActionSound(a),
         a.orders = Last.orders, a.f = Last.f, a.edits = Last.edits,
         sent' = [i \in DOMAIN sent |-> IF i = Len(sent) THEN a ELSE sent[i]]
  PROVE  /\ sent' \in Seq(RangeOf(sent')) /\ sent' # <<>> /\ Last' = a
         /\ DOMAIN sent' = DOMAIN sent /\ (\A i \in DOMAIN sent' : ActionSound(sent'[i]))
         /\ \A i \in DOMAIN sent : sent'[i].edits = sent[i].edits
         /\ RetriesRepeatLegs'
<1>1. sent \in Seq(RangeOf(sent)) /\ sent' = [i \in DOMAIN sent |-> sent'[i]]
  BY DEF TicketType
<1>2. /\ sent' \in Seq(RangeOf(sent')) /\ sent' # <<>> /\ Len(sent') = Len(sent)
      /\ DOMAIN sent' = DOMAIN sent
  BY <1>1, SameLength
<1>3. Len(sent) \in Nat /\ DOMAIN sent = 1..Len(sent) /\ Len(sent) \in DOMAIN sent
  BY <1>1
<1>4. Last' = a
  BY <1>2, <1>3 DEF Last
<1>5. \A i \in DOMAIN sent : ActionSound(sent'[i]) /\ sent'[i].edits = sent[i].edits
  BY DEF TicketType, Last
<1>6. \A i \in DOMAIN sent : Cloids(sent'[i]) = Cloids(sent[i]) /\ sent'[i].f = sent[i].f
  BY DEF Cloids, Last
<1>7. RetriesRepeatLegs'
  <2> SUFFICES ASSUME NEW i \in Consecutive', Repeats(i)', ~sent'[i - 1].refused
               PROVE  Cloids(sent'[i]) = Cloids(sent'[i - 1])
    BY DEF RetriesRepeatLegs, Cloids
  <2>1. i \in Consecutive /\ i \in DOMAIN sent /\ i - 1 \in DOMAIN sent /\ i - 1 # Len(sent)
    BY <1>2, <1>3 DEF Consecutive
  <2>2. sent'[i - 1] = sent[i - 1]
    BY <2>1
  <2>3. Repeats(i) /\ ~sent[i - 1].refused
    BY <1>5, <1>6, <2>1, <2>2 DEF Repeats
  <2> QED
    BY <1>6, <2>1, <2>3 DEF RetriesRepeatLegs
<1> QED
  BY <1>2, <1>4, <1>5, <1>7

LEMMA SubmitTapStep ==
  ASSUME TicketInv, NEW side \in Side, onSubmitInner(side)
  PROVE  TicketInv'
<1> USE DEF TicketInv
<1>1. PICK at \in {"leverage", "build"} :
        /\ flight = NoFlight
        /\ flight' = [at |-> at, side |-> side, f |-> ticket, mid |-> mid, book |-> book,
                      retry |-> retry, edits |-> edits]
        /\ UNCHANGED <<ticket, mid, book, retry, doubt, sent, edits>>
  BY DEF onSubmitInner
<1>3. /\ flight' \in FlightRec /\ flight'.at # "sent"
      /\ flight'.f = ticket /\ flight'.retry = retry /\ flight'.edits = edits
  BY <1>1 DEF TicketType, FlightRec
<1>4. TicketType'
  BY <1>1, <1>3 DEF TicketType, Last
<1>5. EditsCounted'
  BY <1>1, <1>3 DEF EditsCounted, TicketType
<1>6. FormsHeld'
  BY <1>1, <1>3 DEF FormsHeld, Last, Tapped, SameLegs
<1>7. RetryHeld'
  BY <1>1, <1>3 DEF RetryHeld, Last, Tapped, Doubtful
<1>8. RetriesRepeatLegs'
  BY <1>1 DEF RetriesRepeatLegs, Repeats, Consecutive
<1> QED
  BY <1>4, <1>5, <1>6, <1>7, <1>8

\* A submit in flight, before and after: it moves on, or it is over.
LEMMA FlightMoves ==
  ASSUME TicketInv, flight \in FlightRec, Tapped, UNCHANGED <<ticket, mid, book, retry, sent, edits>>,
         flight' = [flight EXCEPT !.at = "build"] \/ flight' = NoFlight
  PROVE  TicketInv'
<1> USE DEF TicketInv
<1>1. \/ /\ flight' \in FlightRec /\ flight'.at = "build"
         /\ flight'.f = flight.f /\ flight'.retry = flight.retry /\ flight'.edits = flight.edits
      \/ flight' = NoFlight /\ flight'.at = "idle"
  BY DEF FlightRec, NoFlight
<1>2. flight # NoFlight
  BY DEF Tapped, NoFlight
<1>3. TicketType'
  BY <1>1 DEF TicketType, Last
<1>4. EditsCounted'
  BY <1>1, <1>2 DEF EditsCounted
<1>5. FormsHeld'
  BY <1>1, <1>2 DEF FormsHeld, Last, Tapped
<1>6. RetryHeld'
  BY <1>1 DEF RetryHeld, Last, Tapped, Doubtful
<1>7. RetriesRepeatLegs'
  BY DEF RetriesRepeatLegs, Repeats, Consecutive
<1> QED
  BY <1>3, <1>4, <1>5, <1>6, <1>7

LEMMA LeverageStep ==
  ASSUME TicketInv, NEW ok \in BOOLEAN, setLeverage(ok)
  PROVE  TicketInv'
<1>1. flight.at = "leverage"
  BY DEF setLeverage
<1>2. flight \in FlightRec /\ Tapped
  BY <1>1 DEF TicketInv, TicketType, NoFlight, Tapped
<1>3. /\ UNCHANGED <<ticket, mid, book, retry, sent, edits>>
      /\ flight' = [flight EXCEPT !.at = "build"] \/ flight' = NoFlight
  BY DEF setLeverage
<1> QED
  BY <1>2, <1>3, FlightMoves

LEMMA PlaceStep ==
  ASSUME TicketInv, placeOrder
  PROVE  TicketInv'
<1> USE DEF TicketInv
<1> DEFINE orders == Orders(flight)
           new == [orders |-> orders, f |-> flight.f, side |-> flight.side,
                   edits |-> flight.edits, end |-> "awaited", refused |-> FALSE]
<1>1. flight.at = "build" /\ UNCHANGED <<ticket, mid, book, edits>>
  BY DEF placeOrder
<1>2. flight \in FlightRec /\ Tapped /\ flight # NoFlight
  BY <1>1 DEF TicketType, NoFlight, Tapped
<1>3. /\ flight.f \in TicketRec /\ flight.side \in Side /\ flight.edits \in Nat
      /\ flight.retry \in Primary \cup {NoRetry}
  BY <1>2 DEF FlightRec
<1>4. sent \in Seq(RangeOf(sent)) /\ Len(sent) \in Nat /\ DOMAIN sent = 1..Len(sent)
  BY DEF TicketType
<1>5. CASE orders = Rejected /\ flight.f.type = "twap"
  <2>1. flight' = NoFlight /\ UNCHANGED <<retry, sent>>
    BY <1>5 DEF placeOrder
  <2> QED
    BY <1>1, <1>2, <2>1, FlightMoves
<1>6. CASE orders = Rejected /\ flight.f.type # "twap"
  <2>1. flight' = NoFlight /\ flight'.at = "idle" /\ retry' = NoRetry /\ sent' = Refused
    BY <1>6 DEF placeOrder, NoFlight
  <2>2. CASE sent = <<>>
    <3>1. sent' = [i \in 1..0 |-> sent'[i]] /\ sent = [i \in 1..0 |-> sent[i]]
      BY <2>1, <2>2, <1>4 DEF Refused
    <3>2. sent' = sent
      BY <3>1
    <3>3. TicketType'
      BY <1>1, <2>1, <3>2 DEF TicketType
    <3>4. EditsCounted'
      BY <1>1, <2>1, <3>2 DEF EditsCounted
    <3>5. FormsHeld' /\ RetryHeld'
      BY <2>1, <2>2, <3>2 DEF FormsHeld, RetryHeld, Tapped
    <3>6. RetriesRepeatLegs'
      BY <3>2 DEF RetriesRepeatLegs, Repeats, Consecutive
    <3> QED
      BY <3>3, <3>4, <3>5, <3>6
  <2>3. CASE sent # <<>>
    <3> DEFINE a == [Last EXCEPT !.refused = TRUE]
    <3>1. Len(sent) \in DOMAIN sent /\ ActionSound(Last)
      BY <1>4, <2>3 DEF TicketType, Last
    <3>2. /\ ActionSound(a) /\ a.refused /\ a.orders = Last.orders /\ a.f = Last.f
          /\ a.edits = Last.edits
      BY <3>1, ActionMoves
    <3>3. sent' = [i \in DOMAIN sent |-> IF i = Len(sent) THEN a ELSE sent[i]]
      <4>1. \A i \in DOMAIN sent : i # Len(sent) => [sent[i] EXCEPT !.refused = @] = sent[i]
        BY DEF TicketType, ActionSound
      <4>2. \A i \in DOMAIN sent :
              [sent[i] EXCEPT !.refused = @ \/ i = Len(sent)]
                = IF i = Len(sent) THEN a ELSE sent[i]
        <5> SUFFICES ASSUME NEW i \in DOMAIN sent
                     PROVE  [sent[i] EXCEPT !.refused = @ \/ i = Len(sent)]
                              = IF i = Len(sent) THEN a ELSE sent[i]
          OBVIOUS
        <5>1. sent[i].refused \in BOOLEAN
          BY DEF TicketType, ActionSound
        <5>2. CASE i = Len(sent)
          BY <5>1, <5>2 DEF Last
        <5>3. CASE i # Len(sent)
          BY <4>1, <5>1, <5>3
        <5> QED
          BY <5>2, <5>3
      <4> QED
        BY <2>1, <4>2 DEF Refused
    <3> HIDE DEF a
    <3>4. /\ sent' \in Seq(RangeOf(sent')) /\ sent' # <<>> /\ Last' = a
          /\ DOMAIN sent' = DOMAIN sent /\ (\A i \in DOMAIN sent' : ActionSound(sent'[i]))
          /\ \A i \in DOMAIN sent : sent'[i].edits = sent[i].edits
          /\ RetriesRepeatLegs'
      BY <2>3, <3>2, <3>3, LastMoves
    <3>5. TicketType'
      BY <1>1, <2>1, <3>4 DEF TicketType
    <3>6. EditsCounted'
      BY <1>1, <2>1, <3>4 DEF EditsCounted
    <3>7. FormsHeld'
      BY <1>1, <2>1, <2>3, <3>2, <3>4 DEF FormsHeld, Tapped
    <3>8. RetryHeld'
      BY <2>1, <3>2, <3>4 DEF RetryHeld, Tapped, Doubtful
    <3> QED
      BY <3>4, <3>5, <3>6, <3>7, <3>8
  <2> QED
    BY <2>2, <2>3
<1>7. CASE orders # Rejected
  <2>1. /\ sent' = Append(sent, new) /\ flight' = [flight EXCEPT !.at = "sent"]
        /\ retry' = retry
    BY <1>7 DEF placeOrder
  <2>2. /\ flight' \in FlightRec /\ flight'.at = "sent"
        /\ flight'.f = flight.f /\ flight'.edits = flight.edits
    BY <1>2, <2>1 DEF FlightRec
  <2>3. /\ new.orders = orders /\ new.f = flight.f /\ new.edits = flight.edits
        /\ new.end = "awaited"
        /\ new \in [orders : {orders}, f : TicketRec, side : Side, edits : Nat,
                    end : {"awaited", "ok", "rejected", "uncertain"}, refused : BOOLEAN]
    BY <1>3
  <2>4. flight.f.type # "twap" =>
          \E c \in Primary : /\ flight.retry # NoRetry => c = flight.retry
                             /\ BuiltFrom(orders, c, flight.f)
    BY <1>2, <1>4, <1>7, OrdersBuilt
  <2> HIDE DEF new, orders
  <2>5. flight.f.type # "twap" =>
          /\ PrimaryOf(new) \in Primary
          /\ flight.retry # NoRetry => PrimaryOf(new) = flight.retry
          /\ Cloids(new) = {deriveCloid(PrimaryOf(new), j) : j \in LegsOf(flight.f)}
    BY <2>3, <2>4 DEF BuiltFrom, PrimaryOf, Cloids
  <2>6. ActionSound(new)
    BY <2>3, <2>5 DEF ActionSound
  <2>7. /\ sent' \in Seq(RangeOf(sent')) /\ Len(sent') = Len(sent) + 1
        /\ DOMAIN sent' = 1..(Len(sent) + 1)
        /\ \A i \in 1..Len(sent) : sent'[i] = sent[i]
        /\ sent'[Len(sent) + 1] = new /\ Last' = new /\ sent' # <<>>
    <3>1. /\ sent' \in Seq(RangeOf(sent')) /\ Len(sent') = Len(sent) + 1
          /\ DOMAIN sent' = 1..(Len(sent) + 1)
          /\ \A i \in 1..Len(sent) : sent'[i] = sent[i]
          /\ sent'[Len(sent) + 1] = new
      BY <1>4, <2>1, AppendAny
    <3>2. Last' = new
      BY <3>1 DEF Last
    <3>3. sent' # <<>>
      BY <1>4, <3>1
    <3> QED
      BY <3>1, <3>2, <3>3
  <2>8. \A i \in DOMAIN sent' : (i \in DOMAIN sent /\ sent'[i] = sent[i]) \/ sent'[i] = new
    BY <1>4, <2>7
  <2>9. TicketType'
    BY <1>1, <2>1, <2>2, <2>3, <2>6, <2>7, <2>8 DEF TicketType
  <2>10. EditsCounted'
    BY <1>1, <1>2, <2>2, <2>3, <2>8 DEF EditsCounted
  <2>11. FormsHeld'
    BY <1>1, <1>2, <2>2, <2>3, <2>7 DEF FormsHeld, Tapped
  <2>12. RetryHeld'
    BY <2>3, <2>7 DEF RetryHeld, Doubtful
  <2>13. RetriesRepeatLegs'
    <3> SUFFICES ASSUME NEW i \in Consecutive', Repeats(i)', ~sent'[i - 1].refused
                 PROVE  Cloids(sent'[i]) = Cloids(sent'[i - 1])
      BY DEF RetriesRepeatLegs, Cloids
    <3>1. i \in 1..(Len(sent) + 1) /\ i > 1 /\ i - 1 \in 1..Len(sent)
      BY <1>4, <2>7 DEF Consecutive
    <3>2. CASE i \in DOMAIN sent
      BY <1>4, <2>7, <3>1, <3>2 DEF RetriesRepeatLegs, Repeats, Consecutive
    <3>3. CASE i = Len(sent) + 1
      <4>1. sent'[i] = new /\ i - 1 = Len(sent) /\ sent'[i - 1] = Last /\ sent # <<>>
        BY <1>4, <2>7, <3>1, <3>3 DEF Last
      <4>2. Last.end = "uncertain" /\ Last.edits = flight.edits /\ flight.f.type # "twap"
        BY <2>3, <4>1 DEF Repeats
      <4>3. SameLegs(flight.f, Last.f) /\ ~Last.refused
        BY <1>2, <4>1, <4>2 DEF FormsHeld
      <4>4. flight.retry = PrimaryOf(Last)
        BY <1>2, <4>1, <4>2, <4>3 DEF RetryHeld, Doubtful, SameLegs
      <4>5. ActionSound(Last)
        BY <1>4, <4>1, <3>1 DEF TicketType, Last
      <4>6. Last.f \in TicketRec /\ Last.f.type # "twap"
        BY <4>2, <4>3, <4>5 DEF ActionSound, SameLegs
      <4>7. PrimaryOf(Last) \in Primary /\ PrimaryOf(Last) # NoRetry
        BY <4>5, <4>6 DEF ActionSound, Primary, NoRetry
      <4>8. LegsOf(flight.f) = LegsOf(Last.f)
        BY <1>3, <4>3, <4>6, SameLegsOf
      <4>9. Cloids(new) = Cloids(Last)
        <5>1. Cloids(new) = {deriveCloid(PrimaryOf(Last), j) : j \in LegsOf(flight.f)}
          BY <2>5, <4>2, <4>4, <4>7
        <5>2. Cloids(Last) = {deriveCloid(PrimaryOf(Last), j) : j \in LegsOf(Last.f)}
          BY <4>5, <4>6 DEF ActionSound
        <5> QED
          BY <4>8, <5>1, <5>2
      <4> QED
        BY <4>1, <4>9
    <3> QED
      BY <1>4, <3>1, <3>2, <3>3
  <2> QED
    BY <2>9, <2>10, <2>11, <2>12, <2>13
<1> QED
  BY <1>5, <1>6, <1>7

LEMMA TicketReceiptStep ==
  ASSUME TicketInv, NEW end \in {"ok", "rejected", "uncertain"}, receipt(end)
  PROVE  TicketInv'
<1> USE DEF TicketInv
<1> DEFINE a == [Last EXCEPT !.end = end]
<1>1. /\ flight.at = "sent" /\ flight' = NoFlight /\ UNCHANGED <<mid, book, edits>>
      /\ sent' = [sent EXCEPT ![Len(sent)].end = end]
      /\ ticket' = IF end = "ok" THEN [ticket EXCEPT !.size = 0] ELSE ticket
  BY DEF receipt
<1>2. flight'.at = "idle" /\ flight \in FlightRec /\ flight # NoFlight
  BY <1>1 DEF TicketType, NoFlight
<1>3. ticket' \in TicketRec /\ SameLegs(ticket', ticket)
  BY <1>1 DEF TicketType, TicketRec, SameLegs
<1>4. sent # <<>> /\ Last.f = flight.f
  BY <1>1 DEF TicketType
<1>5. Len(sent) \in DOMAIN sent /\ ActionSound(Last)
  BY <1>4 DEF TicketType, Last
<1>6. /\ ActionSound(a) /\ a.end = end /\ a.orders = Last.orders /\ a.f = Last.f
      /\ a.edits = Last.edits
  BY <1>5, ActionMoves
<1>7. sent' = [i \in DOMAIN sent |-> IF i = Len(sent) THEN a ELSE sent[i]]
  BY <1>1, <1>5 DEF Last
<1> HIDE DEF a
<1>8. /\ sent' \in Seq(RangeOf(sent')) /\ sent' # <<>> /\ Last' = a
      /\ DOMAIN sent' = DOMAIN sent /\ (\A i \in DOMAIN sent' : ActionSound(sent'[i]))
      /\ \A i \in DOMAIN sent : sent'[i].edits = sent[i].edits
      /\ RetriesRepeatLegs'
  BY <1>4, <1>6, <1>7, LastMoves
<1>10. \/ retry' = retry
       \/ retry' = NoRetry
       \/ retry' = PrimaryOf(Last) /\ Last.f.type # "twap"
  BY <1>1, <1>4 DEF receipt, twapReceipt, scaleReceipt, orderReceipt, PrimaryOf, Last
<1>11. retry' \in Primary \cup {NoRetry}
  BY <1>5, <1>10 DEF TicketType, ActionSound
<1>12. end = "uncertain" /\ a.f.type # "twap" => retry' = PrimaryOf(a)
  BY <1>4, <1>6 DEF receipt, scaleReceipt, orderReceipt, PrimaryOf, Last
<1>13. TicketType'
  BY <1>1, <1>2, <1>3, <1>8, <1>11 DEF TicketType
<1>14. EditsCounted'
  BY <1>1, <1>8 DEF EditsCounted
<1>15. FormsHeld'
  BY <1>1, <1>2, <1>3, <1>4, <1>6, <1>8 DEF FormsHeld, Tapped, SameLegs
<1>16. RetryHeld'
  BY <1>2, <1>6, <1>8, <1>12 DEF RetryHeld, Tapped, Doubtful
<1> QED
  BY <1>8, <1>13, <1>14, <1>15, <1>16

\* A control of the form writes one field and drops the retry.
LEMMA EditStep ==
  ASSUME TicketInv, TicketAssumption, NEW f \in TicketRec, edit(f)
  PROVE  TicketInv'
<1>1. prefill(f, mid) \in TicketRec
  BY PrefillKeeps DEF TicketInv, TicketType
<1>2. /\ ticket' \in TicketRec /\ edits' = edits + 1 /\ retry' \in {retry, NoRetry}
      /\ UNCHANGED <<mid, book, flight, sent>>
  BY <1>1 DEF edit
<1> QED
  BY <1>2, AfterEdit

LEMMA ControlStep ==
  ASSUME TicketInv,
         \/ onChangeCoin \/ setOrderType \/ onChangePrice \/ setBboMode \/ setStopPrice
         \/ setScale \/ setTwapMinutes \/ setSize \/ onSlide \/ onPickPrice \/ setSizeUnit
         \/ setReduceOnly \/ setTpSl
  PROVE  TicketInv'
<1>1. ticket \in TicketRec /\ book.centre \in Nat
  BY DEF TicketInv, TicketType
<1>2. Typed \subseteq Nat /\ TypedSize \subseteq Nat /\ {1, 2} \subseteq Nat \ {0}
  BY TicketAssumption
<1> USE TicketAssumption, EditStep
<1>3. CASE onChangeCoin
  <2>1. PICK c \in TicketCoin : edit([ticket EXCEPT !.coin = c, !.edited = FALSE])
    BY <1>3 DEF onChangeCoin
  <2>2. [ticket EXCEPT !.coin = c, !.edited = FALSE] \in TicketRec
    BY <1>1 DEF TicketRec
  <2> QED
    BY <2>1, <2>2
<1>4. CASE setOrderType
  <2>1. PICK type \in OrderTypes : edit([ticket EXCEPT !.type = type])
    BY <1>4 DEF setOrderType, select
  <2>2. [ticket EXCEPT !.type = type] \in TicketRec
    BY <1>1 DEF TicketRec
  <2> QED
    BY <2>1, <2>2
<1>5. CASE onChangePrice
  <2>1. PICK p \in Typed : edit([ticket EXCEPT !.price = p, !.edited = TRUE])
    BY <1>5 DEF onChangePrice
  <2>2. [ticket EXCEPT !.price = p, !.edited = TRUE] \in TicketRec
    BY <1>1, <1>2 DEF TicketRec
  <2> QED
    BY <2>1, <2>2
<1>6. CASE setBboMode
  <2>1. PICK m \in BboMode \cup {"custom"} : edit([ticket EXCEPT !.bbo = m])
    BY <1>6 DEF setBboMode, select
  <2>2. [ticket EXCEPT !.bbo = m] \in TicketRec
    BY <1>1 DEF TicketRec
  <2> QED
    BY <2>1, <2>2
<1>7. CASE setStopPrice
  <2>1. PICK p \in Typed : edit([ticket EXCEPT !.stop = p])
    BY <1>7 DEF setStopPrice
  <2>2. [ticket EXCEPT !.stop = p] \in TicketRec
    BY <1>1, <1>2 DEF TicketRec
  <2> QED
    BY <2>1, <2>2
<1>8. CASE setScale
  <2>1. CASE \E p, q \in Typed : edit([ticket EXCEPT !.start = p, !.end = q])
    <3>1. PICK p \in Typed, q \in Typed : edit([ticket EXCEPT !.start = p, !.end = q])
      BY <2>1
    <3>2. [ticket EXCEPT !.start = p, !.end = q] \in TicketRec
      BY <1>1, <1>2 DEF TicketRec
    <3> QED
      BY <3>1, <3>2
  <2>2. CASE \E n \in {1, 2} : edit([ticket EXCEPT !.count = n])
    <3>1. PICK n \in {1, 2} : edit([ticket EXCEPT !.count = n])
      BY <2>2
    <3>2. [ticket EXCEPT !.count = n] \in TicketRec
      BY <1>1, <1>2 DEF TicketRec
    <3> QED
      BY <3>1, <3>2
  <2> QED
    BY <1>8, <2>1, <2>2 DEF setScale
<1>9. CASE setTwapMinutes
  <2>1. PICK m \in {4, 60} : edit([ticket EXCEPT !.minutes = m])
    BY <1>9 DEF setTwapMinutes
  <2>2. [ticket EXCEPT !.minutes = m] \in TicketRec
    BY <1>1 DEF TicketRec
  <2> QED
    BY <2>1, <2>2
<1>10. CASE setSize \/ onSlide
  <2>1. PICK s \in TypedSize : edit([ticket EXCEPT !.size = s])
    BY <1>10 DEF setSize, onSlide
  <2>2. [ticket EXCEPT !.size = s] \in TicketRec
    BY <1>1, <1>2 DEF TicketRec
  <2> QED
    BY <2>1, <2>2
<1>11. CASE onPickPrice
  <2>1. edit([ticket EXCEPT !.price = book.centre + 1, !.edited = TRUE])
    BY <1>11 DEF onPickPrice
  <2>2. ASSUME NEW p \in Nat
        PROVE  [ticket EXCEPT !.price = p, !.edited = TRUE] \in TicketRec
    BY <1>1 DEF TicketRec
  <2>3. book.centre + 1 \in Nat
    BY <1>1
  <2> QED
    BY <2>1, <2>2, <2>3
<1>12. CASE setSizeUnit
  <2>1. PICK u \in {"base", "quote"} : edit([ticket EXCEPT !.unit = u, !.size = 0])
    BY <1>12 DEF setSizeUnit, select
  <2>2. [ticket EXCEPT !.unit = u, !.size = 0] \in TicketRec
    BY <1>1 DEF TicketRec
  <2> QED
    BY <2>1, <2>2
<1>13. CASE setReduceOnly
  <2>1. (~ticket.reduceOnly) \in BOOLEAN
    OBVIOUS
  <2>2. ASSUME NEW b \in BOOLEAN PROVE [ticket EXCEPT !.reduceOnly = b] \in TicketRec
    BY <1>1 DEF TicketRec
  <2>3. [ticket EXCEPT !.reduceOnly = ~@] \in TicketRec
    BY Zenon, <2>1, <2>2
  <2> QED
    BY Zenon, <1>13, <2>3, EditStep, TicketAssumption DEF setReduceOnly
<1>14. CASE setTpSl
  <2>1. CASE edit([ticket EXCEPT !.tpSlOn = ~@])
    <3>1. (~ticket.tpSlOn) \in BOOLEAN
      OBVIOUS
    <3>2. ASSUME NEW b \in BOOLEAN PROVE [ticket EXCEPT !.tpSlOn = b] \in TicketRec
      BY <1>1 DEF TicketRec
    <3>3. [ticket EXCEPT !.tpSlOn = ~@] \in TicketRec
      BY Zenon, <3>1, <3>2
    <3> QED
      BY Zenon, <2>1, <3>3, EditStep, TicketAssumption
  <2>2. CASE \E p, q \in Typed \cup {0} : edit([ticket EXCEPT !.tp = p, !.sl = q])
    <3>1. PICK p \in Typed \cup {0}, q \in Typed \cup {0} :
            edit([ticket EXCEPT !.tp = p, !.sl = q])
      BY <2>2
    <3>2. ASSUME NEW x \in Nat, NEW y \in Nat
          PROVE  [ticket EXCEPT !.tp = x, !.sl = y] \in TicketRec
      BY <1>1 DEF TicketRec
    <3>3. p \in Nat /\ q \in Nat
      BY <1>2
    <3> QED
      BY <3>1, <3>2, <3>3
  <2> QED
    BY <1>14, <2>1, <2>2 DEF setTpSl
<1> QED
  BY <1>3, <1>4, <1>5, <1>6, <1>7, <1>8, <1>9, <1>10, <1>11, <1>12, <1>13, <1>14

LEMMA TicketInitInv ==
  ASSUME TicketInit
  PROVE  TicketInv
<1>1. ticket \in TicketRec
  <2>1. (CHOOSE c \in TicketCoin : TRUE) \in TicketCoin
    BY TicketAssumption
  <2> HIDE DEF TicketAssumption
  <2> QED
    BY <2>1 DEF TicketInit, TicketRec, OrderTypes, BboMode
<1>2. sent = <<>> /\ DOMAIN sent = {} /\ sent \in Seq(RangeOf(sent))
  BY DEF TicketInit
<1>3. flight = NoFlight /\ flight.at = "idle" /\ edits \in Nat /\ retry = NoRetry
      /\ mid \in Nat /\ book \in [centre : Nat, depth : Nat]
  BY DEF TicketInit, NoFlight
<1>4. TicketType
  BY <1>1, <1>2, <1>3 DEF TicketType
<1> QED
  BY <1>2, <1>3, <1>4 DEF TicketInv, EditsCounted, FormsHeld, RetryHeld, RetriesRepeatLegs,
     Consecutive, Tapped

\* RetriesRepeatLegs: an order resubmitted unedited after an uncertain receipt carries
\* the cloids of the first try on every leg, whatever the prices and the user did in
\* between, as long as the builder refused no submit in between.
THEOREM RetriesKeepTheirCloids == TicketSpec => []RetriesRepeatLegs
<1>1. TicketInit => TicketInv
  BY TicketInitInv
<1>2. TicketInv /\ [TicketNext]_ticketVars => TicketInv'
  <2> SUFFICES ASSUME TicketInv, [TicketNext]_ticketVars
               PROVE  TicketInv'
    OBVIOUS
  <2>1. /\ ticket \in TicketRec /\ mid \in Nat /\ book \in [centre : Nat, depth : Nat]
        /\ SameLegs(ticket, ticket)
    BY DEF TicketInv, TicketType, SameLegs
  <2>2. Mid \subseteq Nat /\ TypedSize \subseteq Nat
    BY TicketAssumption
  <2>3. CASE \/ onChangeCoin \/ setOrderType \/ onChangePrice \/ setBboMode \/ setStopPrice
             \/ setScale \/ setTwapMinutes \/ setSize \/ onSlide \/ onPickPrice \/ setSizeUnit
             \/ setReduceOnly \/ setTpSl
    BY <2>3, ControlStep
  <2>4. CASE setMargin \/ setTif
    <3>1. /\ ticket' \in TicketRec /\ edits' = edits + 1 /\ retry' \in {retry, NoRetry}
          /\ UNCHANGED <<mid, book, flight, sent>>
      BY <2>1, <2>4 DEF setMargin, setTif, passThrough
    <3> QED
      BY <3>1, AfterEdit
  <2>5. CASE selectedCoin
    <3>1. PICK c \in TicketCoin, s \in TypedSize :
            /\ ticket' = prefill([ticket EXCEPT !.coin = c, !.edited = FALSE, !.unit = "base",
                                                !.size = s], mid)
            /\ edits' = edits + 1
            /\ UNCHANGED <<mid, book, retry, doubt, flight, sent>>
      BY <2>5 DEF selectedCoin
    <3>2. [ticket EXCEPT !.coin = c, !.edited = FALSE, !.unit = "base", !.size = s] \in TicketRec
      BY <2>1, <2>2 DEF TicketRec
    <3>3. ticket' \in TicketRec
      BY <2>1, <3>1, <3>2, PrefillKeeps
    <3> QED
      BY <3>1, <3>3, AfterEdit
  <2>6. CASE midMoves
    <3>1. PICK m \in Mid : /\ mid' = m /\ ticket' = prefill(ticket, m)
                           /\ UNCHANGED <<book, retry, doubt, flight, sent, edits>>
      BY <2>6 DEF midMoves
    <3>2. ticket' \in TicketRec /\ SameLegs(ticket', ticket)
      BY <2>1, <2>2, <3>1, PrefillKeeps
    <3> QED
      BY <2>1, <2>2, <3>1, <3>2, FeedMoves
  <2>7. CASE bookMoves
    <3>1. /\ book' \in [centre : Nat, depth : Nat]
          /\ UNCHANGED <<ticket, mid, retry, doubt, flight, sent, edits>>
      BY <2>2, <2>7 DEF bookMoves
    <3> QED
      BY <2>1, <3>1, FeedMoves
  <2>8. CASE \E side \in Side : onSubmitInner(side)
    BY <2>8, SubmitTapStep
  <2>9. CASE \E ok \in BOOLEAN : setLeverage(ok)
    BY <2>9, LeverageStep
  <2>10. CASE placeOrder
    BY <2>10, PlaceStep
  <2>11. CASE \E end \in {"ok", "rejected", "uncertain"} : receipt(end)
    BY <2>11, TicketReceiptStep
  <2>12. CASE UNCHANGED ticketVars
    BY <2>1, <2>12, FeedMoves DEF ticketVars
  <2> QED
    BY <2>3, <2>4, <2>5, <2>6, <2>7, <2>8, <2>9, <2>10, <2>11, <2>12 DEF TicketNext
<1>3. TicketInv => RetriesRepeatLegs
  BY DEF TicketInv
<1> QED
  BY <1>1, <1>2, <1>3, PTL DEF TicketSpec

---------------------------------------------------------------------------
(* The app's dead-man switch.  Once an arm has landed undisturbed there is  *)
(* one request at most on its way, the one of the last beat, and the        *)
(* schedule outlasts its delay; without one it outlasts the next beat's.    *)

MdRequest == [at : Nat, time : Nat \cup {Off}, counts : BOOLEAN]

MdType ==
  /\ mdNow \in Nat /\ ttlSetting \in TtlOption
  /\ beatAt \in Nat \cup {Off} /\ schedule \in Nat \cup {Off}
  /\ disturbed \in BOOLEAN
  /\ requested \subseteq MdRequest
  /\ budgetRef.armedUntil \in Nat

\* The clock stops for a due beat and for a request as late as it may be.
MdPunctual ==
  /\ beatAt # Off => mdNow <= beatAt /\ beatAt <= mdNow + heartbeatMs(ttlSetting)
  /\ \A r \in requested : r.at <= mdNow /\ mdNow <= r.at + MaxDelay

MdKept ==
  ~disturbed /\ beatAt # Off =>
    /\ schedule # Off /\ budgetRef.armedUntil = schedule
    /\ \/ requested = {} /\ schedule > beatAt + MaxDelay
       \/ \E r \in requested :
            /\ requested = {r}
            /\ r.time = r.at + ttlSetting /\ beatAt = r.at + heartbeatMs(ttlSetting)
            /\ schedule > r.at + MaxDelay

MdInv == MdType /\ MdPunctual /\ MdKept /\ PresentUserKeepsOrders

\* A request reaches the exchange in less than a beat, and a TTL is longer than a beat
\* and two requests: with the code's TTLs of one minute and more, beats of half a TTL
\* and a timeout of ten seconds it is.
BeatsKeepUp ==
  /\ MaxDelay < BeatFloor
  /\ \A ttl \in TtlOption : ttl > heartbeatMs(ttl) + 2 * MaxDelay

LEMMA BeatIsNat ==
  ASSUME NEW ttl \in TtlOption
  PROVE  ttl \in Nat /\ heartbeatMs(ttl) \in Nat /\ heartbeatMs(ttl) >= BeatFloor
<1>1. ttl \in Nat /\ ttl \div 2 \in Nat /\ BeatFloor \in Nat
  BY ManualDeadManAssumption
<1> QED
  BY <1>1 DEF heartbeatMs, Larger

\* What the heartbeat sends.
LEMMA ArmSends ==
  ASSUME MdType, NEW b, NEW ttl \in TtlOption, NEW r \in Arm(b, ttl)
  PROVE  r \in MdRequest /\ r.at = mdNow /\ r.time = mdNow + ttl
<1>1. (~FreeRefresh(b)) \in BOOLEAN
  BY DEF FreeRefresh
<1>2. ASSUME NEW x \in BOOLEAN
      PROVE  /\ Request(mdNow + ttl, x) \in MdRequest
             /\ Request(mdNow + ttl, x).at = mdNow /\ Request(mdNow + ttl, x).time = mdNow + ttl
  BY BeatIsNat DEF Request, MdRequest, MdType
<1>3. r = Request(mdNow + ttl, ~FreeRefresh(b))
  BY DEF Arm
<1> QED
  BY Zenon, <1>1, <1>2, <1>3

\* A step that leaves the timer stopped or the switch disturbed.
LEMMA MdDisturbed ==
  ASSUME MdInv, MdType', MdPunctual', fired' = fired, disturbed' \/ beatAt' = Off
  PROVE  MdInv'
BY DEF MdInv, MdKept, PresentUserKeepsOrders

LEMMA TimerStarts ==
  ASSUME MdInv, NEW b, NEW ttl \in TtlOption, NEW others, others \subseteq MdRequest,
         \A r \in others : r.at <= mdNow /\ mdNow <= r.at + MaxDelay, StartTimer(b, ttl, others)
  PROVE  /\ beatAt' \in Nat /\ mdNow <= beatAt' /\ beatAt' <= mdNow + heartbeatMs(ttl)
         /\ requested' \subseteq MdRequest
         /\ \A r \in requested' : r.at <= mdNow /\ mdNow <= r.at + MaxDelay
<1>1. beatAt' = mdNow + heartbeatMs(ttl) /\ requested' = others \cup Arm(b, ttl)
  BY DEF StartTimer
<1>2. MdType /\ mdNow \in Nat /\ heartbeatMs(ttl) \in Nat /\ MaxDelay \in Nat
  BY BeatIsNat, ManualDeadManAssumption DEF MdInv, MdType
<1>3. \A r \in Arm(b, ttl) : r \in MdRequest /\ r.at = mdNow
  BY <1>2, ArmSends
<1> QED
  BY <1>1, <1>2, <1>3

LEMMA EffectStep ==
  ASSUME MdInv, NEW on, NEW ttl \in TtlOption, NEW open1, NEW b, EffectRuns(on, ttl, open1, b),
         ttlSetting' = ttl, mdNow' = mdNow, schedule' = schedule, fired' = fired,
         budgetRef' \in {budgetRef, NoBudget}
  PROVE  MdInv'
<1> DEFINE cleared == IF Guarding THEN requested \cup {Request(Off, FALSE)} ELSE requested
<1>1. /\ disturbed' = TRUE
      /\ StartTimer(b, ttl, cleared) \/ (beatAt' = Off /\ requested' = cleared)
  <2>1. disturbed' = TRUE
    BY DEF EffectRuns
  <2>2. CASE on /\ open1 /\ foreground
    BY Zenon, <2>1, <2>2 DEF EffectRuns
  <2>3. CASE ~(on /\ open1 /\ foreground)
    BY Zenon, <2>1, <2>3 DEF EffectRuns
  <2> QED
    BY Zenon, <2>2, <2>3
<1>2. Request(Off, FALSE) \in MdRequest /\ Request(Off, FALSE).at = mdNow
  BY DEF Request, MdRequest, MdInv, MdType
<1>3. mdNow \in Nat /\ MaxDelay \in Nat
  BY ManualDeadManAssumption DEF MdInv, MdType
<1>4. /\ cleared \subseteq MdRequest
      /\ \A r \in cleared : r.at <= mdNow /\ mdNow <= r.at + MaxDelay
  <2> DEFINE clear == Request(Off, FALSE)
  <2>0. clear \in MdRequest /\ clear.at = mdNow
    BY <1>2
  <2> HIDE DEF clear
  <2>1. /\ clear.at <= mdNow /\ mdNow <= clear.at + MaxDelay
        /\ \A r \in requested : r.at <= mdNow /\ mdNow <= r.at + MaxDelay
        /\ requested \subseteq MdRequest
    BY <1>3, <2>0 DEF MdInv, MdType, MdPunctual
  <2>2. cleared \subseteq requested \cup {clear}
    BY DEF clear
  <2> HIDE DEF cleared
  <2> QED
    BY <2>0, <2>1, <2>2
<1> HIDE DEF cleared
<1>5. /\ beatAt' \in Nat \cup {Off}
      /\ beatAt' # Off => mdNow <= beatAt' /\ beatAt' <= mdNow + heartbeatMs(ttl)
      /\ requested' \subseteq MdRequest
      /\ \A r \in requested' : r.at <= mdNow /\ mdNow <= r.at + MaxDelay
  BY <1>1, <1>4, TimerStarts
<1>6. budgetRef'.armedUntil \in Nat
  BY DEF MdInv, MdType, NoBudget
<1>7. MdType'
  BY <1>1, <1>5, <1>6 DEF MdInv, MdType
<1>8. MdPunctual'
  BY <1>5 DEF MdPunctual
<1> QED
  BY <1>1, <1>7, <1>8, MdDisturbed

LEMMA AppStateStep ==
  ASSUME MdInv, onAppState
  PROVE  MdInv'
<1>1. UNCHANGED <<mdNow, ttlSetting, budgetRef, schedule, fired>>
  BY DEF onAppState
<1>2. CASE beatAt' = Off /\ requested' = requested /\ disturbed' = disturbed
  <2>1. MdType'
    BY <1>1, <1>2 DEF MdInv, MdType
  <2>2. MdPunctual'
    BY <1>1, <1>2 DEF MdInv, MdPunctual
  <2> QED
    BY <1>1, <1>2, <2>1, <2>2, MdDisturbed
<1>3. CASE StartTimer(budgetRef, ttlSetting, requested) /\ disturbed' = TRUE
  <2>1. /\ beatAt' \in Nat /\ mdNow <= beatAt' /\ beatAt' <= mdNow + heartbeatMs(ttlSetting)
        /\ requested' \subseteq MdRequest
        /\ \A r \in requested' : r.at <= mdNow /\ mdNow <= r.at + MaxDelay
    BY <1>3, TimerStarts DEF MdInv, MdType, MdPunctual
  <2>2. MdType'
    BY <1>1, <1>3, <2>1 DEF MdInv, MdType
  <2>3. MdPunctual'
    BY <1>1, <2>1 DEF MdPunctual
  <2> QED
    BY <1>1, <1>3, <2>2, <2>3, MdDisturbed
<1>4. CASE UNCHANGED <<beatAt, requested, disturbed>>
  BY <1>1, <1>4 DEF MdInv, MdType, MdPunctual, MdKept, PresentUserKeepsOrders
<1> QED
  BY <1>2, <1>3, <1>4 DEF onAppState

LEMMA BeatStep ==
  ASSUME MdInv, BeatsKeepUp, beat
  PROVE  MdInv'
<1> DEFINE hb == heartbeatMs(ttlSetting)
           r == Request(mdNow + ttlSetting, FALSE)
<1>1. /\ mdNow \in Nat /\ ttlSetting \in TtlOption /\ ttlSetting \in Nat /\ MaxDelay \in Nat
      /\ hb \in Nat /\ hb > MaxDelay
  BY BeatIsNat, ManualDeadManAssumption DEF MdInv, MdType, BeatsKeepUp
<1>2. /\ beatAt = mdNow /\ beatAt # Off
      /\ UNCHANGED <<mdNow, ttlSetting, budgetRef, schedule, fired>>
      /\ disturbed' = (disturbed \/ Arm(budgetRef, ttlSetting) = {})
      /\ StartTimer(budgetRef, ttlSetting, requested)
  BY <1>1 DEF beat, pref, StartTimer, Off
<1>3. /\ beatAt' = mdNow + hb /\ requested' = requested \cup Arm(budgetRef, ttlSetting)
  BY <1>2 DEF StartTimer
<1>4. /\ requested' \subseteq MdRequest
      /\ \A q \in requested' : q.at <= mdNow /\ mdNow <= q.at + MaxDelay
  BY <1>1, <1>2, TimerStarts DEF MdInv, MdType, MdPunctual
<1>5. disturbed' \in BOOLEAN
  BY <1>2 DEF MdInv, MdType
<1> HIDE DEF hb
<1>6. MdType'
  BY <1>1, <1>2, <1>3, <1>4, <1>5 DEF MdInv, MdType
<1>7. MdPunctual'
  BY <1>1, <1>2, <1>3, <1>4 DEF MdPunctual, hb
<1>8. CASE disturbed'
  BY <1>2, <1>6, <1>7, <1>8, MdDisturbed
<1>9. CASE ~disturbed'
  <2>1. ~disturbed
    BY <1>2, <1>9
  <2>2. schedule \in Nat /\ budgetRef.armedUntil = schedule
    BY <1>2, <2>1 DEF MdInv, MdType, MdKept
  <2>3. ~\E q \in requested : beatAt = q.at + heartbeatMs(ttlSetting)
    <3> SUFFICES ASSUME NEW q \in requested, beatAt = q.at + heartbeatMs(ttlSetting)
                 PROVE  FALSE
      OBVIOUS
    <3>1. q.at \in Nat /\ mdNow <= q.at + MaxDelay
      BY DEF MdInv, MdType, MdPunctual, MdRequest
    <3> QED
      BY <1>1, <1>2, <3>1 DEF hb
  <2>4. requested = {} /\ schedule > mdNow + MaxDelay
    BY <1>2, <2>1, <2>3 DEF MdInv, MdKept
  <2>5. FreeRefresh(budgetRef)
    BY <1>1, <2>2, <2>4 DEF FreeRefresh
  <2>6. PICK q \in MdRequest : /\ requested' = {q}
                               /\ q.at = mdNow /\ q.time = mdNow + ttlSetting
    <3>1. Arm(budgetRef, ttlSetting) = {Request(mdNow + ttlSetting, ~FreeRefresh(budgetRef))}
      BY <2>5 DEF Arm, SkipsArm
    <3>2. Request(mdNow + ttlSetting, ~FreeRefresh(budgetRef)) \in Arm(budgetRef, ttlSetting)
      BY <3>1
    <3>3. MdType
      BY DEF MdInv
    <3> QED
      BY <1>1, <1>3, <2>4, <3>1, <3>2, <3>3, ArmSends
  <2>7. MdKept'
    BY <1>1, <1>2, <1>3, <2>2, <2>4, <2>6 DEF MdKept, hb, Off
  <2> QED
    BY <1>2, <1>6, <1>7, <2>7 DEF MdInv, PresentUserKeepsOrders
<1> QED
  BY <1>8, <1>9

LEMMA LandStep ==
  ASSUME MdInv, BeatsKeepUp, NEW r \in requested, land(r)
  PROVE  MdInv'
<1> DEFINE hb == heartbeatMs(ttlSetting)
<1>1. /\ mdNow \in Nat /\ ttlSetting \in TtlOption /\ ttlSetting \in Nat /\ MaxDelay \in Nat
      /\ hb \in Nat /\ ttlSetting > hb + 2 * MaxDelay
  BY BeatIsNat, ManualDeadManAssumption DEF MdInv, MdType, BeatsKeepUp
<1>2. /\ r.at \in Nat /\ r.time \in Nat \cup {Off}
      /\ r.at <= mdNow /\ mdNow <= r.at + MaxDelay
  BY DEF MdInv, MdType, MdPunctual, MdRequest
<1>3. /\ requested' = requested \ {r} /\ schedule' = r.time
      /\ budgetRef' = IF r.time = Off THEN budgetRef
                      ELSE nextArm(budgetRef, r.at, r.time, r.counts)
      /\ UNCHANGED <<mdNow, ttlSetting, beatAt, fired>>
  BY DEF land, pref
<1>4. IF r.time # Off /\ requested = {r} /\ beatAt # Off /\ r.time = r.at + ttlSetting
      THEN disturbed' = FALSE ELSE disturbed' = disturbed
  BY DEF land
<1>5. r.time # Off => budgetRef'.armedUntil = r.time
  BY <1>3 DEF nextArm
<1>6. MdType'
  BY <1>2, <1>3, <1>4, <1>5 DEF MdInv, MdType
<1>7. MdPunctual'
  BY <1>3 DEF MdInv, MdPunctual
<1> HIDE DEF hb
<1>8. CASE disturbed' \/ beatAt' = Off
  BY <1>3, <1>6, <1>7, <1>8, MdDisturbed
<1>9. CASE ~disturbed' /\ beatAt' # Off
  <2>1. r.time # Off /\ requested = {r} /\ r.time = r.at + ttlSetting
    <3>1. CASE ~disturbed
      <4>1. PICK q \in requested : requested = {q} /\ q.time = q.at + ttlSetting
        BY <1>3, <1>9, <3>1 DEF MdInv, MdKept
      <4> QED
        BY <1>1, <1>2, <4>1 DEF Off
    <3>2. CASE disturbed
      BY <1>4, <1>9, <3>2
    <3> QED
      BY <3>1, <3>2
  <2>2. beatAt \in Nat /\ beatAt <= mdNow + hb
    BY <1>3, <1>9 DEF MdInv, MdType, MdPunctual, hb
  <2>3. requested' = {} /\ schedule' > beatAt + MaxDelay
    BY <1>1, <1>2, <1>3, <2>1, <2>2
  <2>4. MdKept'
    BY <1>3, <1>5, <2>1, <2>3 DEF MdKept
  <2> QED
    BY <1>3, <1>6, <1>7, <2>4 DEF MdInv, PresentUserKeepsOrders
<1> QED
  BY <1>8, <1>9

LEMMA FailArmStep ==
  ASSUME MdInv, NEW r \in requested, failArm(r)
  PROVE  MdInv'
<1>1. /\ requested' = requested \ {r} /\ schedule' \in {schedule, r.time} /\ disturbed' = TRUE
      /\ UNCHANGED <<mdNow, ttlSetting, beatAt, budgetRef, fired>>
  BY DEF failArm, pref
<1>2. r.time \in Nat \cup {Off}
  BY DEF MdInv, MdType, MdRequest
<1>3. MdType'
  BY <1>1, <1>2 DEF MdInv, MdType
<1>4. MdPunctual'
  BY <1>1 DEF MdInv, MdPunctual
<1> QED
  BY <1>1, <1>3, <1>4, MdDisturbed

\* The cancel runs only on a switch that is off or disturbed.
LEMMA FiresStep ==
  ASSUME MdInv, fires
  PROVE  MdInv'
<1>1. /\ schedule # Off /\ schedule <= mdNow /\ schedule' = Off
      /\ fired' = IF beatAt = Off \/ disturbed THEN "away" ELSE "present"
      /\ UNCHANGED <<mdNow, ttlSetting, beatAt, budgetRef, requested, disturbed>>
  BY DEF fires, pref
<1>2. /\ mdNow \in Nat /\ schedule \in Nat /\ MaxDelay \in Nat
  BY <1>1, ManualDeadManAssumption DEF MdInv, MdType
<1>3. beatAt = Off \/ disturbed
  <2> SUFFICES ASSUME beatAt # Off, ~disturbed PROVE FALSE
    OBVIOUS
  <2>1. CASE schedule > beatAt + MaxDelay
    <3>1. beatAt \in Nat /\ mdNow <= beatAt
      BY DEF MdInv, MdType, MdPunctual
    <3> QED
      BY <1>1, <1>2, <2>1, <3>1
  <2>2. CASE \E r \in requested : schedule > r.at + MaxDelay
    <3>1. PICK r \in requested : schedule > r.at + MaxDelay
      BY <2>2
    <3>2. r.at \in Nat /\ mdNow <= r.at + MaxDelay
      BY DEF MdInv, MdType, MdPunctual, MdRequest
    <3> QED
      BY <1>1, <1>2, <3>1, <3>2
  <2> QED
    BY <2>1, <2>2 DEF MdInv, MdKept
<1>4. fired' = "away"
  BY <1>1, <1>3
<1>5. MdType' /\ MdPunctual'
  BY <1>1 DEF MdInv, MdType, MdPunctual
<1> QED
  BY <1>1, <1>3, <1>4, <1>5 DEF MdInv, MdKept, PresentUserKeepsOrders

LEMMA PassStep ==
  ASSUME MdInv, passTime
  PROVE  MdInv'
<1>1. /\ beatAt # mdNow /\ (\A r \in requested : mdNow < r.at + MaxDelay)
      /\ mdNow' = mdNow + 1
      /\ UNCHANGED <<ttlSetting, beatAt, budgetRef, requested, schedule, disturbed, fired>>
  BY DEF passTime, pref
<1>2. mdNow \in Nat /\ MaxDelay \in Nat /\ heartbeatMs(ttlSetting) \in Nat
  BY BeatIsNat, ManualDeadManAssumption DEF MdInv, MdType
<1>3. MdType'
  BY <1>1, <1>2 DEF MdInv, MdType
<1>4. \A r \in requested : r.at \in Nat
  BY DEF MdInv, MdType, MdRequest
<1>5. beatAt # Off => beatAt \in Nat
  BY DEF MdInv, MdType
<1>6. MdPunctual'
  BY <1>1, <1>2, <1>4, <1>5 DEF MdInv, MdPunctual
<1>7. MdKept'
  BY <1>1 DEF MdInv, MdKept
<1> QED
  BY <1>1, <1>3, <1>6, <1>7 DEF MdInv, PresentUserKeepsOrders

\* PresentUserKeepsOrders: if the beats keep up with the TTL and the requests, an arm
\* that landed undisturbed is refreshed before its cancel runs, for as long as nothing
\* disturbs the switch.
THEOREM PresentUsersKeepOrders ==
  ASSUME BeatsKeepUp
  PROVE  ManualDeadManSpec => []PresentUserKeepsOrders
<1>1. ManualDeadManInit => MdInv
  <2> SUFFICES ASSUME ManualDeadManInit PROVE MdInv
    OBVIOUS
  <2>1. /\ mdNow = 0 /\ ttlSetting \in TtlOption /\ beatAt = Off /\ budgetRef.armedUntil = 0
        /\ requested = {} /\ schedule = Off /\ disturbed = FALSE /\ fired = "never"
    BY DEF ManualDeadManInit, NoBudget
  <2>2. MdType
    <3>1. mdNow \in Nat /\ ttlSetting \in TtlOption /\ disturbed \in BOOLEAN
      BY <2>1
    <3>2. beatAt \in Nat \cup {Off} /\ schedule \in Nat \cup {Off} /\ budgetRef.armedUntil \in Nat
      BY <2>1
    <3>3. requested \subseteq MdRequest
      BY <2>1
    <3> QED
      BY <3>1, <3>2, <3>3 DEF MdType
  <2>3. MdPunctual /\ MdKept
    BY <2>1 DEF MdPunctual, MdKept
  <2>4. PresentUserKeepsOrders
    BY <2>1 DEF PresentUserKeepsOrders
  <2> QED
    BY <2>2, <2>3, <2>4 DEF MdInv
<1>2. MdInv /\ [ManualDeadManNext]_mdVars => MdInv'
  <2> SUFFICES ASSUME MdInv, [ManualDeadManNext]_mdVars
               PROVE  MdInv'
    OBVIOUS
  <2>1. ttlSetting \in TtlOption
    BY DEF MdInv, MdType
  <2>2. CASE setEnabled
    <3>1. /\ EffectRuns(~mdEnabled, ttlSetting, unlocked, budgetRef)
          /\ UNCHANGED <<mdNow, ttlSetting, budgetRef, schedule, fired>>
      BY <2>2 DEF setEnabled
    <3> QED
      BY Zenon, <2>1, <3>1, EffectStep
  <2>3. CASE \E ttl \in TtlOption : setTtlMinutes(ttl)
    <3>1. PICK ttl \in TtlOption :
            /\ EffectRuns(mdEnabled, ttl, unlocked, budgetRef) /\ ttlSetting' = ttl
            /\ UNCHANGED <<mdNow, budgetRef, schedule, fired>>
      BY <2>3 DEF setTtlMinutes
    <3> QED
      BY Zenon, <3>1, EffectStep
  <2>4. CASE setAddress
    <3>1. /\ EffectRuns(mdEnabled, ttlSetting, ~unlocked, NoBudget) /\ budgetRef' = NoBudget
          /\ UNCHANGED <<mdNow, ttlSetting, schedule, fired>>
      BY <2>4 DEF setAddress
    <3> QED
      BY Zenon, <2>1, <3>1, EffectStep
  <2>5. CASE onAppState
    BY <2>5, AppStateStep
  <2>6. CASE beat
    BY <2>6, BeatStep
  <2>7. CASE \E r \in requested : land(r) \/ failArm(r)
    BY <2>7, LandStep, FailArmStep
  <2>8. CASE fires
    BY <2>8, FiresStep
  <2>9. CASE passTime
    BY <2>9, PassStep
  <2>10. CASE UNCHANGED mdVars
    BY <2>10 DEF mdVars, pref, MdInv, MdType, MdPunctual, MdKept, PresentUserKeepsOrders
  <2> QED
    BY <2>2, <2>3, <2>4, <2>5, <2>6, <2>7, <2>8, <2>9, <2>10 DEF ManualDeadManNext
<1>3. MdInv => PresentUserKeepsOrders
  BY DEF MdInv
<1> QED
  BY <1>1, <1>2, <1>3, PTL DEF ManualDeadManSpec

---------------------------------------------------------------------------
(* Notification settings.  Until something parts them, the keychain holds  *)
(* what memory holds, handlers of one setting never overlap, and the stage *)
(* of the handler under way says which of two values the engine's row has  *)
(* by now: what the screen showed before it or what it writes.             *)

FetchKind  == {"fetchPushCategoryPrefs", "fetchQuietHours"}
ToggleKind == {"enable", "disable", "signOut"}

IsRecord(c) == DOMAIN c = {"what", "cat", "value", "prev", "owner", "mounted", "stage", "id"}

\* A call with the arguments its handler gives it, in a stage it goes through
\* while the app lives.
CallFits(c) ==
  \/ c.what \in FetchKind /\ c.cat = "all" /\ c.stage \in {"sent", "landed"}
  \/ c.what \in ToggleKind /\ c.cat = "all" /\ c.stage \in {"sent", "landed", "done", "enabled"}
  \/ /\ c.what = "setPushCategoryPrefs" /\ c.cat \in Category /\ c.value \in BOOLEAN
     /\ c.mounted /\ c.stage \in {"sent", "landed"}
  \/ /\ c.what = "saveQuietHours" /\ c.cat = "all"
     /\ c.value \in QuietHours /\ c.prev \in QuietHours
     /\ c.mounted /\ c.stage \in {"sent", "landed"}

CallShape(c) ==
  /\ IsRecord(c)
  /\ c.owner = psOwner /\ psOwner \in PsOwner
  /\ CallFits(c)

PsType ==
  /\ psOwner \in PsOwner \cup {SignedOut}
  /\ pushEnabled \in BOOLEAN /\ pushToken \in BOOLEAN
  /\ categoryPrefs = NotShown \/ categoryPrefs \in [Category -> BOOLEAN]
  /\ quietHours = NotShown \/ quietHours \in QuietHours
  /\ prefRows \in [PsOwner -> [Category -> BOOLEAN]]
  /\ quietRows \in [PsOwner -> QuietHours]

KeychainAgrees == keychain = [enabled |-> pushEnabled, token |-> pushToken]

\* One call of a kind and setting at a time, and the switch's alone.
CallsApart ==
  /\ \A c \in psCalls : CallShape(c)
  /\ \A c, d \in psCalls : c.what = d.what /\ c.cat = d.cat => c = d
  /\ \A c, d \in Handlers : IsToggle(c) => c = d

\* Rows are fetched and shown only while the switch is on and somebody is in.
SwitchShows ==
  /\ psOwner = SignedOut => ~pushEnabled
  /\ ~pushEnabled => /\ categoryPrefs = NotShown /\ quietHours = NotShown
                     /\ \A c \in psCalls : ~IsFetch(c)

Held(on) == IF on THEN psOwner ELSE SignedOut

\* The engine has the token as the switch says, or as its handler made it.
ToggleAgrees(c) ==
  /\ tokenRow = Held(IF c.stage = "sent" THEN pushEnabled ELSE c.what = "enable")
  /\ c.stage = "enabled" => pushEnabled = (c.what = "enable")
  /\ c.stage # "enabled" => pushToken = pushEnabled
  /\ c.stage = "sent" => (c.what = "enable" <=> ~pushEnabled)

TokenAgrees ==
  /\ \A c \in psCalls : IsToggle(c) => ToggleAgrees(c)
  /\ (\A c \in psCalls : ~IsToggle(c)) => tokenRow = Held(pushEnabled) /\ pushToken = pushEnabled

\* What is shown of a category is the engine's row, or what a handler has sent.
PrefsAgree ==
  /\ \A c \in psCalls : c.what = "fetchPushCategoryPrefs" =>
       categoryPrefs = NotShown /\ (c.stage = "landed" => c.value = prefRows[psOwner])
  /\ \A c \in psCalls : c.what = "setPushCategoryPrefs" =>
       /\ categoryPrefs # NotShown /\ categoryPrefs[c.cat] = c.value
       /\ prefRows[psOwner][c.cat] = (IF c.stage = "sent" THEN ~c.value ELSE c.value)
  /\ categoryPrefs # NotShown =>
       \A k \in Category : \/ categoryPrefs[k] = prefRows[psOwner][k]
                           \/ \E c \in psCalls : c.what = "setPushCategoryPrefs" /\ c.cat = k

QuietAgrees ==
  /\ \A c \in psCalls : c.what = "fetchQuietHours" =>
       quietHours = NotShown /\ (c.stage = "landed" => c.value = quietRows[psOwner])
  /\ \A c \in psCalls : c.what = "saveQuietHours" =>
       quietHours = c.value /\ quietRows[psOwner] = (IF c.stage = "sent" THEN c.prev ELSE c.value)
  /\ quietHours # NotShown =>
       quietHours = quietRows[psOwner] \/ \E c \in psCalls : c.what = "saveQuietHours"

Together ==
  /\ PsType /\ KeychainAgrees /\ CallsApart /\ SwitchShows
  /\ TokenAgrees /\ PrefsAgree /\ QuietAgrees
PsInv == parted \in BOOLEAN /\ (~parted => Together)

LEMMA StageEdit ==
  ASSUME NEW c, IsRecord(c), NEW st
  PROVE  LET d == [c EXCEPT !.stage = st] IN
         /\ IsRecord(d) /\ d.stage = st
         /\ d.what = c.what /\ d.cat = c.cat /\ d.value = c.value /\ d.prev = c.prev
         /\ d.owner = c.owner /\ d.mounted = c.mounted
BY DEF IsRecord

LEMMA LandEdit ==
  ASSUME NEW c, IsRecord(c), NEW v
  PROVE  LET d == [c EXCEPT !.stage = "landed", !.value = v] IN
         /\ IsRecord(d) /\ d.stage = "landed" /\ d.value = v
         /\ d.what = c.what /\ d.cat = c.cat /\ d.prev = c.prev
         /\ d.owner = c.owner /\ d.mounted = c.mounted
BY DEF IsRecord

LEMMA FetchShape ==
  ASSUME NEW k \in FetchKind, psOwner \in PsOwner
  PROVE  /\ CallShape(Fetch(k)) /\ Fetch(k).what = k /\ Fetch(k).stage = "sent"
         /\ Fetch(k).cat = "all"
BY DEF FetchKind, CallShape, CallFits, Fetch, Send, IsRecord

LEMMA TapShape ==
  ASSUME Together, NEW c, TapStarts(c), ~parted', c.owner = psOwner, IsRecord(c), CallFits(c),
         c.what \notin FetchKind
  PROVE  /\ ~parted /\ psOwner \in PsOwner
         /\ \A d \in Handlers : /\ ~IsToggle(c) /\ ~IsToggle(d)
                                /\ ~(d.what = c.what /\ d.cat = c.cat)
         /\ CallsApart'
<1>1. /\ ~parted /\ psOwner \in PsOwner /\ psCalls' = psCalls \cup {c} /\ psOwner' = psOwner
      /\ \A d \in Handlers : /\ ~IsToggle(c) /\ ~IsToggle(d)
                             /\ ~(d.what = c.what /\ d.cat = c.cat)
  BY DEF Together, PsType, TapStarts, psMemory
<1>2. \A d \in psCalls : CallShape(d)'
  BY <1>1 DEF Together, CallsApart, CallShape, CallFits, IsRecord, QuietHours
<1>3. CallShape(c)'
  BY <1>1 DEF CallShape, CallFits, IsRecord, QuietHours
<1>4. c \notin Handlers => \A d \in psCalls : ~(d.what = c.what /\ d.cat = c.cat)
  BY <1>1 DEF Handlers, IsFetch, FetchKind
<1>5. Handlers' = Handlers \cup {c}
  BY <1>1 DEF Handlers, IsFetch, FetchKind
<1> QED BY <1>1, <1>2, <1>3, <1>4, <1>5 DEF Together, CallsApart, Handlers, IsFetch, FetchKind, IsToggle

LEMMA ToggleTap ==
  ASSUME Together, NEW c, TapStarts(c), UNCHANGED psScreen, ~parted',
         c.owner = psOwner, IsRecord(c), IsToggle(c), c.cat = "all",
         \/ c.stage = "sent" /\ (c.what = "enable" <=> ~pushEnabled)
         \/ c.stage = "done" /\ ~pushEnabled /\ c.what # "enable"
  PROVE  Together'
<1>1. CallFits(c) /\ c.what \notin FetchKind
  BY DEF CallFits, IsToggle, ToggleKind, FetchKind
<1>2. /\ psOwner \in PsOwner /\ CallsApart' /\ Handlers = {}
  BY <1>1, TapShape
<1>3. /\ psCalls' = psCalls \cup {c}
      /\ psOwner' = psOwner /\ pushEnabled' = pushEnabled /\ pushToken' = pushToken
      /\ keychain' = keychain /\ categoryPrefs' = categoryPrefs /\ quietHours' = quietHours
      /\ tokenRow' = tokenRow /\ prefRows' = prefRows /\ quietRows' = quietRows
  BY DEF TapStarts, psMemory, psRows, psScreen
<1>4. \A d \in psCalls : IsFetch(d) /\ ~IsToggle(d)
  BY <1>2 DEF Handlers, IsFetch, IsToggle
<1>5. tokenRow = Held(pushEnabled) /\ pushToken = pushEnabled
  BY <1>4 DEF Together, TokenAgrees
<1>6. PsType' /\ KeychainAgrees' /\ SwitchShows'
  BY <1>1, <1>3 DEF Together, PsType, KeychainAgrees, SwitchShows, IsFetch, FetchKind, QuietHours
<1>7. TokenAgrees'
  BY <1>3, <1>4, <1>5 DEF TokenAgrees, ToggleAgrees, Held, Together, PsType
<1>8. PrefsAgree' /\ QuietAgrees'
  BY <1>1, <1>3 DEF Together, PrefsAgree, QuietAgrees, FetchKind, IsToggle
<1> QED BY <1>2, <1>6, <1>7, <1>8 DEF Together

LEMMA CategoryTap ==
  ASSUME Together, NEW cat \in Category, onToggleCategory(cat), ~parted'
  PROVE  Together'
<1> DEFINE c == Send("setPushCategoryPrefs", cat, ~categoryPrefs[cat], categoryPrefs)
<1>1. /\ TapStarts(c) /\ categoryPrefs # NotShown
      /\ categoryPrefs' = [categoryPrefs EXCEPT ![cat] = ~@] /\ quietHours' = quietHours
  BY DEF onToggleCategory
<1>2. /\ c.what = "setPushCategoryPrefs" /\ c.cat = cat /\ c.value = ~categoryPrefs[cat]
      /\ c.stage = "sent" /\ c.owner = psOwner /\ c.mounted /\ IsRecord(c)
  BY DEF Send, IsRecord
<1>3. /\ categoryPrefs \in [Category -> BOOLEAN] /\ categoryPrefs' \in [Category -> BOOLEAN]
      /\ categoryPrefs[cat] \in BOOLEAN /\ c.value \in BOOLEAN
      /\ categoryPrefs'[cat] = c.value
      /\ \A k \in Category : k # cat => categoryPrefs'[k] = categoryPrefs[k]
      /\ categoryPrefs' # NotShown
  BY <1>1, <1>2, PushSettingsAssumption DEF Together, PsType
<1> HIDE DEF c
<1>4. CallFits(c) /\ c.what \notin FetchKind
  BY <1>2, <1>3 DEF CallFits, FetchKind
<1>5. /\ psOwner \in PsOwner /\ CallsApart'
      /\ \A d \in Handlers : /\ ~IsToggle(c) /\ ~IsToggle(d)
                             /\ ~(d.what = c.what /\ d.cat = c.cat)
  BY <1>1, <1>2, <1>4, TapShape
<1>6. /\ psCalls' = psCalls \cup {c}
      /\ psOwner' = psOwner /\ pushEnabled' = pushEnabled /\ pushToken' = pushToken
      /\ keychain' = keychain
      /\ tokenRow' = tokenRow /\ prefRows' = prefRows /\ quietRows' = quietRows
  BY <1>1 DEF TapStarts, psMemory, psRows
<1>7. pushEnabled
  BY <1>1 DEF Together, SwitchShows, PsType
<1>8. \A d \in psCalls : d.what # "fetchPushCategoryPrefs"
  BY <1>1 DEF Together, PrefsAgree
<1>9. \A d \in psCalls : d.what = "setPushCategoryPrefs" => d.cat # cat /\ d.cat \in Category
  BY <1>2, <1>5 DEF Together, CallsApart, CallShape, CallFits, Handlers, IsFetch, FetchKind, ToggleKind
<1>10. prefRows[psOwner][cat] = categoryPrefs[cat]
  BY <1>1, <1>9 DEF Together, PrefsAgree
<1>11. PsType' /\ KeychainAgrees' /\ SwitchShows'
  BY <1>3, <1>6, <1>7, <1>1 DEF Together, PsType, KeychainAgrees, SwitchShows, QuietHours
<1>12. TokenAgrees'
  BY <1>2, <1>6 DEF TokenAgrees, ToggleAgrees, Held, Together, IsToggle
<1>13. PrefsAgree'
  <2>1. \A d \in psCalls' : d.what = "setPushCategoryPrefs" =>
       /\ categoryPrefs'[d.cat] = d.value
       /\ prefRows'[psOwner'][d.cat] = (IF d.stage = "sent" THEN ~d.value ELSE d.value)
    BY <1>2, <1>3, <1>6, <1>9, <1>10 DEF Together, PrefsAgree
  <2>2. \A k \in Category : \/ categoryPrefs'[k] = prefRows'[psOwner'][k]
                            \/ \E d \in psCalls' : d.what = "setPushCategoryPrefs" /\ d.cat = k
    BY <1>1, <1>2, <1>3, <1>6 DEF Together, PrefsAgree
  <2> QED BY <2>1, <2>2, <1>2, <1>3, <1>6, <1>8 DEF PrefsAgree
<1>14. QuietAgrees'
  BY <1>1, <1>2, <1>6 DEF Together, QuietAgrees
<1> QED BY <1>5, <1>11, <1>12, <1>13, <1>14 DEF Together

LEMMA QuietTap ==
  ASSUME Together, NEW next \in QuietHours, writeQuietHours(next), ~parted'
  PROVE  Together'
<1> DEFINE c == Send("saveQuietHours", "all", next, quietHours)
<1>1. /\ TapStarts(c) /\ quietHours # NotShown
      /\ quietHours' = next /\ categoryPrefs' = categoryPrefs
  BY DEF writeQuietHours, saveQuietHours
<1>2. /\ c.what = "saveQuietHours" /\ c.cat = "all" /\ c.value = next /\ c.prev = quietHours
      /\ c.stage = "sent" /\ c.owner = psOwner /\ c.mounted /\ IsRecord(c)
  BY DEF Send, IsRecord
<1>3. quietHours \in QuietHours
  BY <1>1 DEF Together, PsType
<1> HIDE DEF c
<1>4. CallFits(c) /\ c.what \notin FetchKind
  BY <1>2, <1>3 DEF CallFits, FetchKind
<1>5. /\ psOwner \in PsOwner /\ CallsApart'
      /\ \A d \in Handlers : /\ ~IsToggle(c) /\ ~IsToggle(d)
                             /\ ~(d.what = c.what /\ d.cat = c.cat)
  BY <1>1, <1>2, <1>4, TapShape
<1>6. /\ psCalls' = psCalls \cup {c}
      /\ psOwner' = psOwner /\ pushEnabled' = pushEnabled /\ pushToken' = pushToken
      /\ keychain' = keychain
      /\ tokenRow' = tokenRow /\ prefRows' = prefRows /\ quietRows' = quietRows
  BY <1>1 DEF TapStarts, psMemory, psRows
<1>7. pushEnabled
  BY <1>1 DEF Together, SwitchShows, PsType
<1>8. \A d \in psCalls : d.what \notin {"fetchQuietHours", "saveQuietHours"}
  BY <1>1, <1>2, <1>5 DEF Together, QuietAgrees, CallsApart, CallShape, CallFits, Handlers, IsFetch,
     FetchKind, ToggleKind
<1>9. quietHours = quietRows[psOwner]
  BY <1>1, <1>8 DEF Together, QuietAgrees
<1>10. next # NotShown
  BY PushSettingsAssumption DEF QuietHours
<1>11. PsType' /\ KeychainAgrees' /\ SwitchShows'
  BY <1>1, <1>6, <1>7 DEF Together, PsType, KeychainAgrees, SwitchShows, QuietHours
<1>12. TokenAgrees'
  BY <1>2, <1>6 DEF TokenAgrees, ToggleAgrees, Held, Together, IsToggle
<1>13. PrefsAgree'
  BY <1>1, <1>2, <1>6 DEF Together, PrefsAgree
<1>14. QuietAgrees'
  BY <1>1, <1>2, <1>6, <1>8, <1>9 DEF QuietAgrees
<1> QED BY <1>5, <1>11, <1>12, <1>13, <1>14 DEF Together

\* A call that changes in its place, and one that goes.
LEMMA SettingMoves ==
  ASSUME Together, NEW c \in psCalls, NEW d, IsRecord(d), CallFits(d),
         d.what = c.what, d.cat = c.cat, d.owner = c.owner,
         psCalls' = (psCalls \ {c}) \cup {d}, psOwner' = psOwner
  PROVE  CallsApart'
<1>1. \A e \in psCalls : CallShape(e) /\ CallShape(e)'
  BY DEF Together, CallsApart, CallShape, CallFits, IsRecord, QuietHours
<1>2. CallShape(d)'
  BY <1>1 DEF CallShape, CallFits, IsRecord, QuietHours
<1>3. \A e \in psCalls \ {c} : ~(e.what = d.what /\ e.cat = d.cat)
  BY DEF Together, CallsApart
<1>4. \A e, f \in psCalls : e.what = f.what /\ e.cat = f.cat => e = f
  BY DEF Together, CallsApart
<1>5. ASSUME NEW e \in Handlers', NEW f \in Handlers', IsToggle(e) PROVE e = f
  <2>1. \A g, h \in Handlers : IsToggle(g) => g = h
    BY DEF Together, CallsApart
  <2>2. e # d => e \in Handlers
    BY DEF Handlers
  <2>3. f # d => f \in Handlers
    BY DEF Handlers
  <2>4. d \in Handlers' => c \in Handlers
    BY DEF Handlers, IsFetch
  <2>5. IsToggle(d) => IsToggle(c)
    BY DEF IsToggle
  <2>6. e # d => e # c /\ e \in Handlers'
    BY DEF Handlers
  <2>7. f # d => f # c
    BY DEF Handlers
  <2> QED BY <1>5, <2>1, <2>2, <2>3, <2>4, <2>5, <2>6, <2>7
<1> QED BY <1>1, <1>2, <1>3, <1>4, <1>5 DEF CallsApart

LEMMA SettingGoes ==
  ASSUME Together, psCalls' \subseteq psCalls, psOwner' = psOwner
  PROVE  CallsApart'
BY DEF Together, CallsApart, CallShape, CallFits, IsRecord, QuietHours, Handlers

LEMMA Kinds ==
  ASSUME Together, NEW c \in psCalls
  PROVE  /\ psOwner \in PsOwner /\ c.owner = psOwner /\ IsRecord(c) /\ CallFits(c)
         /\ c.stage \in {"sent", "landed", "done", "enabled"}
         /\ c.what = "setPushCategoryPrefs" => c.cat \in Category /\ c.value \in BOOLEAN
         /\ IsFetch(c) \/ IsToggle(c) \/ c.what \in {"setPushCategoryPrefs", "saveQuietHours"}
         /\ c.what # "setPushCategoryPrefs" => c.cat = "all"
         /\ IsToggle(c) => \A d \in psCalls : d # c => IsFetch(d)
BY DEF Together, CallsApart, CallShape, CallFits, FetchKind, ToggleKind, IsFetch, IsToggle, Handlers

LEMMA LandsKeeps ==
  ASSUME Together, NEW c \in psCalls, Lands(c)
  PROVE  Together'
<1> DEFINE d == [c EXCEPT !.stage = "landed", !.value = read(c)]
<1>1. /\ psOwner \in PsOwner /\ c.owner = psOwner /\ IsRecord(c) /\ CallFits(c)
      /\ c.what = "setPushCategoryPrefs" => c.cat \in Category /\ c.value \in BOOLEAN
      /\ IsFetch(c) \/ IsToggle(c) \/ c.what \in {"setPushCategoryPrefs", "saveQuietHours"}
      /\ IsToggle(c) => \A e \in psCalls : e # c => IsFetch(e)
      /\ c.stage = "sent"
  BY Kinds DEF Lands
<1>2. /\ tokenRow' = registerRow(c)
      /\ prefRows' = IF c.what = "setPushCategoryPrefs" THEN setPrefs(c) ELSE prefRows
      /\ quietRows' = IF c.what = "saveQuietHours" THEN setQuiet(c) ELSE quietRows
      /\ psCalls' = (psCalls \ {c}) \cup {d}
      /\ psOwner' = psOwner /\ pushEnabled' = pushEnabled /\ pushToken' = pushToken
      /\ keychain' = keychain /\ categoryPrefs' = categoryPrefs /\ quietHours' = quietHours
  BY <1>1 DEF Lands, psMemory, psScreen
<1>3. /\ IsRecord(d) /\ d.stage = "landed" /\ d.value = read(c)
      /\ d.what = c.what /\ d.cat = c.cat /\ d.prev = c.prev
      /\ d.owner = c.owner /\ d.mounted = c.mounted
  BY <1>1, LandEdit
<1> HIDE DEF d
<1>4. ~IsFetch(c) => d.value = c.value
  BY <1>3 DEF read, IsFetch
<1>5. CallFits(d)
  BY <1>1, <1>3, <1>4 DEF CallFits, FetchKind, ToggleKind, IsFetch
<1>6. CallsApart'
  BY <1>2, <1>3, <1>5, SettingMoves
<1>7. ASSUME IsFetch(c) PROVE PsType' /\ TokenAgrees' /\ PrefsAgree' /\ QuietAgrees'
  <2>1. ~IsToggle(c) /\ tokenRow' = tokenRow /\ prefRows' = prefRows /\ quietRows' = quietRows
    BY <1>2, <1>7 DEF registerRow, Leaving, IsFetch, IsToggle
  <2>2. PsType' /\ TokenAgrees'
    BY <1>2, <1>3, <2>1 DEF Together, PsType, TokenAgrees, ToggleAgrees, Held, IsToggle, QuietHours
  <2>3. PrefsAgree'
    <3>1. d.what = "fetchPushCategoryPrefs" => d.value = prefRows[psOwner]
      BY <1>1, <1>3 DEF read
    <3> QED BY <1>2, <1>3, <1>7, <2>1, <3>1 DEF Together, PrefsAgree, IsFetch
  <2>4. QuietAgrees'
    <3>1. d.what = "fetchQuietHours" => d.value = quietRows[psOwner]
      BY <1>1, <1>3 DEF read
    <3> QED BY <1>2, <1>3, <1>7, <2>1, <3>1 DEF Together, QuietAgrees, IsFetch
  <2> QED BY <2>2, <2>3, <2>4
<1>8. ASSUME IsToggle(c) PROVE PsType' /\ TokenAgrees' /\ PrefsAgree' /\ QuietAgrees'
  <2>1. prefRows' = prefRows /\ quietRows' = quietRows /\ ~IsFetch(c) /\ ~IsFetch(d) /\ IsToggle(d)
        /\ \A e \in psCalls : e # c => ~IsToggle(e)
    BY <1>1, <1>2, <1>3, <1>8 DEF IsToggle, IsFetch
  <2>2. /\ tokenRow = Held(pushEnabled) /\ pushToken = pushEnabled
        /\ c.what = "enable" <=> ~pushEnabled
    BY <1>1, <1>8 DEF Together, TokenAgrees, ToggleAgrees
  <2>3. tokenRow' = IF c.what = "enable" THEN psOwner ELSE SignedOut
    BY <1>1, <1>2, <1>8, <2>2 DEF registerRow, Leaving, IsToggle, Held, Together, PsType
  <2>4. PsType' /\ TokenAgrees'
    BY <1>2, <1>3, <2>1, <2>2, <2>3 DEF Together, PsType, TokenAgrees, ToggleAgrees, Held, QuietHours
  <2>5. PrefsAgree' /\ QuietAgrees'
    BY <1>2, <1>3, <1>8, <2>1 DEF Together, PrefsAgree, QuietAgrees, IsToggle, IsFetch
  <2> QED BY <2>4, <2>5
<1>9. ASSUME c.what = "setPushCategoryPrefs" PROVE PsType' /\ TokenAgrees' /\ PrefsAgree' /\ QuietAgrees'
  <2>1. quietRows' = quietRows /\ ~IsFetch(c) /\ ~IsFetch(d) /\ ~IsToggle(c) /\ ~IsToggle(d)
        /\ tokenRow' = tokenRow /\ d.value = c.value
    BY <1>2, <1>3, <1>4, <1>9 DEF IsFetch, IsToggle, registerRow, Leaving
  <2>2. /\ prefRows' \in [PsOwner -> [Category -> BOOLEAN]]
        /\ prefRows'[psOwner][c.cat] = c.value
        /\ \A k \in Category : k # c.cat => prefRows'[psOwner][k] = prefRows[psOwner][k]
    <3>1. prefRows' = [prefRows EXCEPT ![psOwner] = [prefRows[psOwner] EXCEPT ![c.cat] = c.value]]
      BY <1>1, <1>2, <1>9 DEF setPrefs
    <3>2. prefRows \in [PsOwner -> [Category -> BOOLEAN]]
      BY DEF Together, PsType
    <3> QED BY <1>1, <1>9, <3>1, <3>2
  <2>3. PsType' /\ TokenAgrees'
    BY <1>2, <1>3, <2>1, <2>2 DEF Together, PsType, TokenAgrees, ToggleAgrees, Held, QuietHours
  <2>4. \A e \in psCalls : e.what = "setPushCategoryPrefs" /\ e # c => e.cat # c.cat /\ e.cat \in Category
    BY <1>9, Kinds DEF Together, CallsApart
  <2>5. categoryPrefs # NotShown /\ categoryPrefs[c.cat] = c.value
    BY <1>9 DEF Together, PrefsAgree
  <2>6. PrefsAgree'
    <3>1. \A e \in psCalls' : e.what # "fetchPushCategoryPrefs"
      BY <1>2, <2>1, <2>5 DEF Together, PrefsAgree, IsFetch
    <3>2. \A e \in psCalls' : e.what = "setPushCategoryPrefs" =>
            /\ categoryPrefs[e.cat] = e.value
            /\ prefRows'[psOwner][e.cat] = (IF e.stage = "sent" THEN ~e.value ELSE e.value)
      BY <1>2, <1>3, <2>1, <2>2, <2>4, <2>5 DEF Together, PrefsAgree
    <3>3. \A k \in Category : \/ categoryPrefs[k] = prefRows'[psOwner][k]
                              \/ \E e \in psCalls' : e.what = "setPushCategoryPrefs" /\ e.cat = k
      BY <1>2, <1>3, <1>9, <2>2, <2>5 DEF Together, PrefsAgree
    <3> QED BY <1>2, <2>5, <3>1, <3>2, <3>3 DEF PrefsAgree
  <2>7. QuietAgrees'
    BY <1>2, <1>3, <1>9, <2>1 DEF Together, QuietAgrees
  <2> QED BY <2>3, <2>6, <2>7
<1>10. ASSUME c.what = "saveQuietHours" PROVE PsType' /\ TokenAgrees' /\ PrefsAgree' /\ QuietAgrees'
  <2>1. prefRows' = prefRows /\ ~IsFetch(c) /\ ~IsFetch(d) /\ ~IsToggle(c) /\ ~IsToggle(d)
        /\ tokenRow' = tokenRow /\ d.value = c.value /\ c.value \in QuietHours
    BY <1>1, <1>2, <1>3, <1>4, <1>10 DEF IsFetch, IsToggle, registerRow, Leaving, CallFits, FetchKind,
       ToggleKind
  <2>2. quietRows' \in [PsOwner -> QuietHours] /\ quietRows'[psOwner] = c.value
    BY <1>1, <1>2, <1>10, <2>1 DEF setQuiet, Together, PsType
  <2>3. PsType' /\ TokenAgrees'
    BY <1>2, <1>3, <2>1, <2>2 DEF Together, PsType, TokenAgrees, ToggleAgrees, Held, QuietHours
  <2>4. \A e \in psCalls : e.what = "saveQuietHours" => e = c
    BY <1>10, Kinds DEF Together, CallsApart
  <2>5. quietHours = c.value /\ quietHours # NotShown
    BY <1>10, <2>1, PushSettingsAssumption DEF Together, QuietAgrees, QuietHours
  <2>6. PrefsAgree'
    BY <1>2, <1>3, <1>10, <2>1 DEF Together, PrefsAgree
  <2>7. QuietAgrees'
    BY <1>2, <1>3, <1>10, <2>1, <2>2, <2>4, <2>5 DEF Together, QuietAgrees
  <2> QED BY <2>3, <2>6, <2>7
<1>11. KeychainAgrees' /\ SwitchShows'
  BY <1>2, <1>3 DEF Together, KeychainAgrees, SwitchShows, IsFetch
<1> QED BY <1>1, <1>6, <1>7, <1>8, <1>9, <1>10, <1>11 DEF Together

LEMMA AnsweredKeeps ==
  ASSUME Together, NEW c \in psCalls, Answered(c)
  PROVE  Together'
<1> DEFINE d == [c EXCEPT !.stage = "done"]
<1>1. /\ psOwner \in PsOwner /\ c.owner = psOwner /\ IsRecord(c) /\ CallFits(c)
      /\ c.what = "setPushCategoryPrefs" => c.cat \in Category /\ c.value \in BOOLEAN
      /\ IsFetch(c) \/ IsToggle(c) \/ c.what \in {"setPushCategoryPrefs", "saveQuietHours"}
      /\ c.what # "setPushCategoryPrefs" => c.cat = "all"
      /\ IsToggle(c) => \A e \in psCalls : e # c => IsFetch(e)
      /\ c.stage = "landed"
  BY Kinds DEF Answered
<1>2. /\ psCalls' = IF IsToggle(c) THEN (psCalls \ {c}) \cup {d} ELSE psCalls \ {c}
      /\ categoryPrefs' = IF c.what = "fetchPushCategoryPrefs" THEN c.value ELSE categoryPrefs
      /\ quietHours' = IF c.what = "fetchQuietHours" THEN c.value ELSE quietHours
      /\ psOwner' = psOwner /\ pushEnabled' = pushEnabled /\ pushToken' = pushToken
      /\ keychain' = keychain
      /\ tokenRow' = tokenRow /\ prefRows' = prefRows /\ quietRows' = quietRows
  BY DEF Answered, psMemory, psRows
<1>3. /\ IsRecord(d) /\ d.stage = "done" /\ d.value = c.value
      /\ d.what = c.what /\ d.cat = c.cat /\ d.prev = c.prev
      /\ d.owner = c.owner /\ d.mounted = c.mounted
  BY <1>1, StageEdit
<1> HIDE DEF d
<1>4. CASE IsToggle(c)
  <2>1. ~IsFetch(c) /\ ~IsFetch(d) /\ IsToggle(d)
    BY <1>3, <1>4 DEF IsFetch, IsToggle
  <2>2. CallFits(d)
    BY <1>1, <1>3, <1>4 DEF CallFits, FetchKind, ToggleKind, IsToggle
  <2>3. CallsApart'
    BY <1>2, <1>3, <1>4, <2>2, SettingMoves
  <2>4. PsType' /\ KeychainAgrees' /\ SwitchShows'
    BY <1>2, <1>3, <1>4, <2>1 DEF Together, PsType, KeychainAgrees, SwitchShows, IsFetch, QuietHours
  <2>5. TokenAgrees'
    BY <1>1, <1>2, <1>3, <1>4, <2>1 DEF Together, TokenAgrees, ToggleAgrees, Held, IsToggle, IsFetch
  <2>6. PrefsAgree' /\ QuietAgrees'
    BY <1>2, <1>3, <1>4, <2>1 DEF Together, PrefsAgree, QuietAgrees, IsToggle, IsFetch
  <2> QED BY <2>3, <2>4, <2>5, <2>6 DEF Together
<1>5. CASE ~IsToggle(c)
  <2>1. psCalls' = psCalls \ {c} /\ CallsApart'
    BY <1>2, <1>5, SettingGoes
  <2>2. KeychainAgrees' /\ TokenAgrees'
    BY <1>2, <1>5, <2>1 DEF Together, KeychainAgrees, TokenAgrees, ToggleAgrees, Held
  <2>3. SwitchShows'
    BY <1>2, <2>1 DEF Together, SwitchShows, IsFetch
  <2>4. \A e \in psCalls' : ~(e.what = c.what /\ e.cat = c.cat)
    BY <2>1 DEF Together, CallsApart
  <2>5. PsType'
    BY <1>1, <1>2 DEF Together, PsType, PrefsAgree, QuietAgrees, QuietHours
  <2>6. PrefsAgree'
    <3>1. CASE c.what = "fetchPushCategoryPrefs"
      <4>1. \A e \in psCalls' : e.what \notin {"fetchPushCategoryPrefs", "setPushCategoryPrefs"}
        BY <1>1, <2>1, <2>4, <3>1, Kinds DEF Together, PrefsAgree
      <4>2. categoryPrefs' = prefRows'[psOwner']
        BY <1>1, <1>2, <3>1 DEF Together, PrefsAgree
      <4> QED BY <4>1, <4>2 DEF PrefsAgree
    <3>2. CASE c.what = "setPushCategoryPrefs"
      <4>1. categoryPrefs[c.cat] = prefRows[psOwner][c.cat]
        BY <1>1, <3>2 DEF Together, PrefsAgree
      <4> QED BY <1>2, <2>1, <3>2, <4>1 DEF Together, PrefsAgree
    <3>3. CASE c.what \notin {"fetchPushCategoryPrefs", "setPushCategoryPrefs"}
      BY <1>2, <2>1, <3>3 DEF Together, PrefsAgree
    <3> QED BY <3>1, <3>2, <3>3
  <2>7. QuietAgrees'
    <3>1. CASE c.what = "fetchQuietHours"
      <4>1. \A e \in psCalls : e.what # "saveQuietHours"
        BY <3>1, PushSettingsAssumption, Kinds
           DEF Together, QuietAgrees, CallFits, QuietHours, FetchKind, ToggleKind
      <4>2. \A e \in psCalls' : e.what \notin {"fetchQuietHours", "saveQuietHours"}
        BY <1>1, <2>1, <2>4, <3>1, <4>1, Kinds
      <4>3. quietHours' = quietRows'[psOwner']
        BY <1>1, <1>2, <3>1 DEF Together, QuietAgrees
      <4> QED BY <4>2, <4>3 DEF QuietAgrees
    <3>2. CASE c.what = "saveQuietHours"
      <4>1. quietHours = quietRows[psOwner]
        BY <1>1, <3>2 DEF Together, QuietAgrees
      <4> QED BY <1>2, <2>1, <3>2, <4>1 DEF Together, QuietAgrees
    <3>3. CASE c.what \notin {"fetchQuietHours", "saveQuietHours"}
      BY <1>2, <2>1, <3>3 DEF Together, QuietAgrees
    <3> QED BY <3>1, <3>2, <3>3
  <2> QED BY <2>1, <2>2, <2>3, <2>5, <2>6, <2>7 DEF Together
<1> QED BY <1>4, <1>5

LEMMA FailsKeeps ==
  ASSUME Together, NEW c \in psCalls, Fails(c), ~parted'
  PROVE  Together'
<1>1. /\ psOwner \in PsOwner /\ c.owner = psOwner /\ CallFits(c)
      /\ c.what = "setPushCategoryPrefs" => c.cat \in Category /\ c.value \in BOOLEAN
      /\ IsFetch(c) \/ IsToggle(c) \/ c.what \in {"setPushCategoryPrefs", "saveQuietHours"}
      /\ c.what # "setPushCategoryPrefs" => c.cat = "all"
      /\ IsToggle(c) => \A e \in psCalls : e # c => IsFetch(e)
      /\ ~Leaving(c) /\ (c.stage = "sent" \/ IsFetch(c))
  BY Kinds DEF Fails, IsFetch, Leaving
<1>2. /\ psCalls' = psCalls \ {c}
      /\ psOwner' = psOwner /\ pushEnabled' = pushEnabled /\ pushToken' = pushToken
      /\ keychain' = keychain
      /\ tokenRow' = tokenRow /\ prefRows' = prefRows /\ quietRows' = quietRows
  BY <1>1 DEF Fails, psMemory, psRows
<1>3. CallsApart' /\ KeychainAgrees'
  BY <1>2, SettingGoes DEF Together, KeychainAgrees
<1>4. TokenAgrees'
  <2>1. CASE IsToggle(c)
    <3>1. c.what = "enable" /\ c.stage = "sent" /\ \A e \in psCalls' : ~IsToggle(e)
      BY <1>1, <1>2, <2>1 DEF IsToggle, Leaving, IsFetch
    <3>2. tokenRow = Held(pushEnabled) /\ pushToken = pushEnabled
      BY <2>1, <3>1 DEF Together, TokenAgrees, ToggleAgrees
    <3> QED BY <1>2, <3>1, <3>2 DEF TokenAgrees, Held
  <2>2. CASE ~IsToggle(c)
    BY <1>2, <2>2 DEF Together, TokenAgrees, ToggleAgrees, Held
  <2> QED BY <2>1, <2>2
<1>5. \A e \in psCalls' : ~(e.what = c.what /\ e.cat = c.cat)
  BY <1>2 DEF Together, CallsApart
<1>6. /\ categoryPrefs' = NotShown \/ categoryPrefs' \in [Category -> BOOLEAN]
      /\ ~pushEnabled => categoryPrefs' = NotShown
      /\ PrefsAgree'
  <2>1. CASE c.what = "fetchPushCategoryPrefs"
    <3>1. categoryPrefs' = NotShown /\ categoryPrefs = NotShown
      BY <2>1 DEF Fails, Together, PrefsAgree
    <3> QED BY <1>2, <3>1 DEF Together, PrefsAgree
  <2>2. CASE c.what = "setPushCategoryPrefs"
    <3>1. c.mounted /\ c.stage = "sent"
      BY <1>1, <2>2 DEF CallFits, FetchKind, ToggleKind, IsFetch
    <3>2. /\ categoryPrefs # NotShown /\ categoryPrefs \in [Category -> BOOLEAN]
          /\ prefRows[psOwner][c.cat] = ~c.value
      BY <2>2, <3>1 DEF Together, PrefsAgree, PsType
    <3>3. categoryPrefs' = [categoryPrefs EXCEPT ![c.cat] = ~c.value]
      BY <2>2, <3>1, <3>2 DEF Fails, takenBack
    <3>4. /\ categoryPrefs' \in [Category -> BOOLEAN] /\ categoryPrefs' # NotShown
          /\ categoryPrefs'[c.cat] = ~c.value
          /\ \A k \in Category : k # c.cat => categoryPrefs'[k] = categoryPrefs[k]
      BY <1>1, <2>2, <3>2, <3>3, PushSettingsAssumption
    <3>5. /\ pushEnabled
          /\ \A e \in psCalls : e.what # "fetchPushCategoryPrefs"
      BY <3>2 DEF Together, SwitchShows, PrefsAgree, PsType
    <3>6. \A e \in psCalls' : e.what = "setPushCategoryPrefs" =>
            /\ e.cat # c.cat /\ e.cat \in Category
            /\ categoryPrefs[e.cat] = e.value
            /\ prefRows[psOwner][e.cat] = (IF e.stage = "sent" THEN ~e.value ELSE e.value)
      BY <1>2, <1>5, <2>2, Kinds DEF Together, PrefsAgree
    <3>7. \A k \in Category : \/ categoryPrefs'[k] = prefRows[psOwner][k]
                              \/ \E e \in psCalls' : e.what = "setPushCategoryPrefs" /\ e.cat = k
      BY <1>2, <3>2, <3>4 DEF Together, PrefsAgree
    <3> QED BY <1>2, <3>4, <3>5, <3>6, <3>7 DEF PrefsAgree
  <2>3. CASE c.what \notin {"fetchPushCategoryPrefs", "setPushCategoryPrefs"}
    <3>1. categoryPrefs' = categoryPrefs
      BY <2>3 DEF Fails
    <3> QED BY <1>2, <2>3, <3>1 DEF Together, PrefsAgree, PsType, SwitchShows
  <2> QED BY <2>1, <2>2, <2>3
<1>7. /\ quietHours' = NotShown \/ quietHours' \in QuietHours
      /\ ~pushEnabled => quietHours' = NotShown
      /\ QuietAgrees'
  <2>1. CASE c.what = "fetchQuietHours"
    <3>1. quietHours' = NotShown /\ quietHours = NotShown
      BY <2>1 DEF Fails, Together, QuietAgrees
    <3> QED BY <1>2, <3>1 DEF Together, QuietAgrees
  <2>2. CASE c.what = "saveQuietHours"
    <3>1. c.mounted /\ c.stage = "sent" /\ c.prev \in QuietHours /\ c.value \in QuietHours
      BY <1>1, <2>2 DEF CallFits, FetchKind, ToggleKind, IsFetch
    <3>2. quietHours # NotShown /\ quietRows[psOwner] = c.prev
      BY <2>2, <3>1, PushSettingsAssumption DEF Together, QuietAgrees, QuietHours
    <3>3. quietHours' = c.prev
      BY <2>2, <3>1 DEF Fails
    <3>4. pushEnabled /\ \A e \in psCalls' : e.what \notin {"fetchQuietHours", "saveQuietHours"}
      BY <1>1, <1>2, <1>5, <2>2, <3>2, Kinds DEF Together, SwitchShows, QuietAgrees, PsType
    <3> QED BY <1>2, <3>1, <3>2, <3>3, <3>4 DEF QuietAgrees
  <2>3. CASE c.what \notin {"fetchQuietHours", "saveQuietHours"}
    <3>1. quietHours' = quietHours
      BY <2>3 DEF Fails
    <3> QED BY <1>2, <2>3, <3>1 DEF Together, QuietAgrees, PsType, SwitchShows
  <2> QED BY <2>1, <2>2, <2>3
<1>8. PsType' /\ SwitchShows'
  BY <1>2, <1>6, <1>7 DEF Together, PsType, SwitchShows, IsFetch, QuietHours
<1> QED BY <1>3, <1>4, <1>6, <1>7, <1>8 DEF Together

LEMMA SetEnabledKeeps ==
  ASSUME Together, NEW c \in psCalls, setPushEnabled(c, TRUE)
  PROVE  Together'
<1> DEFINE on == c.what = "enable"
           d == [c EXCEPT !.stage = "enabled"]
           rest == (psCalls \ {c}) \cup {d}
<1>1. c.stage = "done" /\ IsToggle(c)
  BY Kinds DEF setPushEnabled, Together, CallsApart, CallShape, CallFits, IsToggle, ToggleKind
<1>2. /\ psOwner \in PsOwner /\ c.owner = psOwner /\ IsRecord(c) /\ CallFits(c) /\ c.cat = "all"
      /\ \A e \in psCalls : e # c => IsFetch(e)
  BY <1>1, Kinds DEF IsToggle
<1>3. /\ pushEnabled' = on /\ keychain' = [keychain EXCEPT !.enabled = on]
      /\ psCalls' = IF pushEnabled = on THEN rest
                    ELSE {e \in rest : ~IsFetch(e)} \cup Fetching(on)
      /\ categoryPrefs' = IF pushEnabled /\ ~on THEN NotShown ELSE categoryPrefs
      /\ quietHours' = IF pushEnabled /\ ~on THEN NotShown ELSE quietHours
      /\ psOwner' = psOwner /\ pushToken' = pushToken
      /\ tokenRow' = tokenRow /\ prefRows' = prefRows /\ quietRows' = quietRows
  BY DEF setPushEnabled, psRows, psScreen
<1>4. /\ IsRecord(d) /\ d.stage = "enabled"
      /\ d.what = c.what /\ d.cat = c.cat /\ d.owner = c.owner
  BY <1>2, StageEdit
<1> DEFINE switched == pushEnabled # on
<1> HIDE DEF d
<1>5. CallFits(d) /\ IsToggle(d) /\ ~IsFetch(d) /\ ~IsFetch(c)
  BY <1>1, <1>2, <1>4 DEF CallFits, FetchKind, ToggleKind, IsToggle, IsFetch
<1>6. tokenRow = Held(on) /\ on \in BOOLEAN /\ pushEnabled \in BOOLEAN
  BY <1>1 DEF Together, TokenAgrees, ToggleAgrees, PsType
<1>7. \A e \in psCalls' : e # d => IsFetch(e)
  BY <1>2, <1>3 DEF Fetching, Fetch, Send, IsFetch
<1>8. d \in psCalls'
  BY <1>3, <1>5
<1>9. TokenAgrees'
  BY <1>3, <1>4, <1>5, <1>6, <1>7, <1>8 DEF TokenAgrees, ToggleAgrees, Held, IsToggle, IsFetch
<1>10. KeychainAgrees'
  BY <1>3 DEF Together, KeychainAgrees
<1>11. CASE pushEnabled = on
  <2>1. psCalls' = rest /\ pushEnabled' = pushEnabled /\ categoryPrefs' = categoryPrefs
        /\ quietHours' = quietHours
    BY <1>3, <1>11
  <2>2. CallsApart'
    BY <1>3, <1>4, <1>5, <2>1, SettingMoves
  <2>3. PsType' /\ SwitchShows'
    BY <1>3, <1>5, <2>1 DEF Together, PsType, SwitchShows, IsFetch, QuietHours
  <2>4. PrefsAgree' /\ QuietAgrees'
    BY <1>1, <1>3, <1>4, <2>1 DEF Together, PrefsAgree, QuietAgrees, IsToggle
  <2> QED BY <1>9, <1>10, <2>2, <2>3, <2>4 DEF Together
<1>12. CASE pushEnabled # on
  <2>1. /\ psCalls' = {d} \cup Fetching(on)
        /\ categoryPrefs' = NotShown /\ quietHours' = NotShown
    BY <1>2, <1>3, <1>5, <1>6, <1>12 DEF Together, SwitchShows
  <2>2. \A e \in Fetching(on) : /\ on /\ e.what \in FetchKind /\ e = Fetch(e.what)
                                /\ CallShape(e) /\ e.stage = "sent" /\ e.cat = "all"
    BY <1>2, FetchShape DEF Fetching, FetchKind
  <2>3. CallsApart'
    <3>1. \A e \in psCalls' : CallShape(e)'
      BY <1>2, <1>3, <1>4, <1>5, <2>1, <2>2 DEF CallShape, CallFits, IsRecord, QuietHours
    <3>2. \A e, f \in psCalls' : e.what = f.what /\ e.cat = f.cat => e = f
      BY <1>4, <1>5, <2>1, <2>2 DEF IsFetch, FetchKind
    <3>3. Handlers' = {d}
      BY <1>5, <1>7, <1>8 DEF Handlers, IsFetch
    <3> QED BY <3>1, <3>2, <3>3 DEF CallsApart
  <2>4. PsType' /\ SwitchShows'
    BY <1>2, <1>3, <1>5, <1>6, <2>1, <2>2, PushSettingsAssumption
       DEF Together, PsType, SwitchShows, IsFetch, QuietHours
  <2>5. PrefsAgree' /\ QuietAgrees'
    <3>1. \A e \in psCalls' : e.what \notin {"setPushCategoryPrefs", "saveQuietHours"}
      BY <1>5, <2>1, <2>2 DEF IsToggle, FetchKind
    <3>2. \A e \in psCalls' : IsFetch(e) => e.stage # "landed"
      BY <1>5, <2>1, <2>2
    <3> QED BY <2>1, <3>1, <3>2 DEF PrefsAgree, QuietAgrees, IsFetch
  <2> QED BY <1>9, <1>10, <2>3, <2>4, <2>5 DEF Together
<1> QED BY <1>11, <1>12

LEMMA SetTokenKeeps ==
  ASSUME Together, NEW c \in psCalls, setPushToken(c, TRUE)
  PROVE  Together'
<1> DEFINE on == c.what = "enable"
<1>1. c.stage = "enabled" /\ IsToggle(c)
  BY Kinds DEF setPushToken, Together, CallsApart, CallShape, CallFits, IsToggle, ToggleKind
<1>2. psOwner \in PsOwner /\ \A e \in psCalls : e # c => IsFetch(e)
  BY <1>1, Kinds DEF IsToggle
<1>3. /\ pushToken' = on /\ keychain' = [keychain EXCEPT !.token = on]
      /\ psOwner' = (IF c.what = "signOut" THEN SignedOut ELSE psOwner)
      /\ psCalls' = psCalls \ {c}
      /\ pushEnabled' = pushEnabled /\ categoryPrefs' = categoryPrefs /\ quietHours' = quietHours
      /\ tokenRow' = tokenRow /\ prefRows' = prefRows /\ quietRows' = quietRows
  BY DEF setPushToken, psRows, psScreen
<1>4. tokenRow = Held(on) /\ pushEnabled = on
  BY <1>1 DEF Together, TokenAgrees, ToggleAgrees
<1>5. \A e \in psCalls' : IsFetch(e) /\ ~IsToggle(e)
  BY <1>2, <1>3 DEF IsFetch, IsToggle
<1>6. KeychainAgrees'
  BY <1>3, <1>4 DEF Together, KeychainAgrees
<1>7. TokenAgrees'
  BY <1>3, <1>4, <1>5 DEF TokenAgrees, Held
<1>8. CASE c.what = "signOut"
  <2>1. /\ ~pushEnabled /\ psCalls' = {} /\ categoryPrefs' = NotShown /\ quietHours' = NotShown
    BY <1>3, <1>4, <1>5, <1>8 DEF Together, SwitchShows
  <2>2. PsType' /\ CallsApart' /\ SwitchShows' /\ PrefsAgree' /\ QuietAgrees'
    BY <1>3, <1>8, <2>1, PushSettingsAssumption
       DEF Together, PsType, CallsApart, SwitchShows, PrefsAgree, QuietAgrees, Handlers, QuietHours
  <2> QED BY <1>6, <1>7, <2>2 DEF Together
<1>9. CASE c.what # "signOut"
  <2>1. psOwner' = psOwner /\ CallsApart'
    BY <1>3, <1>9, SettingGoes
  <2>2. PsType' /\ SwitchShows'
    BY <1>3, <2>1 DEF Together, PsType, SwitchShows, IsFetch, QuietHours
  <2>3. PrefsAgree' /\ QuietAgrees'
    BY <1>1, <1>3, <2>1 DEF Together, PrefsAgree, QuietAgrees, IsToggle
  <2> QED BY <1>6, <1>7, <2>1, <2>2, <2>3 DEF Together
<1> QED BY <1>8, <1>9

\* Without a wallet there is nothing under way.
LEMMA SignInKeeps ==
  ASSUME Together, NEW o \in PsOwner, SignIn(o)
  PROVE  Together'
<1>1. /\ psOwner = SignedOut /\ psOwner' = o
      /\ pushEnabled' = pushEnabled /\ pushToken' = pushToken /\ keychain' = keychain
      /\ categoryPrefs' = categoryPrefs /\ quietHours' = quietHours /\ psCalls' = psCalls
      /\ tokenRow' = tokenRow /\ prefRows' = prefRows /\ quietRows' = quietRows
  BY DEF SignIn, psScreen, psRows
<1>2. psCalls = {}
  BY <1>1, PushSettingsAssumption DEF Together, CallsApart, CallShape
<1>3. ~pushEnabled /\ categoryPrefs = NotShown /\ quietHours = NotShown
      /\ tokenRow = SignedOut /\ pushToken = pushEnabled
  BY <1>1, <1>2 DEF Together, SwitchShows, TokenAgrees, Held
<1> QED BY <1>1, <1>2, <1>3, PushSettingsAssumption
        DEF Together, PsType, KeychainAgrees, CallsApart, SwitchShows, TokenAgrees, Held, PrefsAgree,
            QuietAgrees, Handlers, QuietHours

\* The screen is mounted anew, with the rows still to be fetched and no write of
\* a row under way; the switch may be.
LEMMA AnewKeeps ==
  ASSUME Together, psOwner' = psOwner, pushEnabled' = pushEnabled, pushToken' = pushToken,
         keychain' = keychain, categoryPrefs' = NotShown, quietHours' = NotShown,
         tokenRow' = tokenRow, prefRows' = prefRows, quietRows' = quietRows,
         \A c \in Handlers : IsToggle(c),
         psCalls' = {[c EXCEPT !.mounted = FALSE] : c \in Handlers} \cup Fetching(pushEnabled)
  PROVE  Together'
<1>1. \A e \in Fetching(pushEnabled) :
        /\ pushEnabled /\ psOwner \in PsOwner /\ e.what \in FetchKind /\ e = Fetch(e.what)
        /\ CallShape(e) /\ e.stage = "sent" /\ e.cat = "all"
  BY FetchShape DEF Fetching, FetchKind, Together, PsType
<1>2. ASSUME NEW c \in Handlers
      PROVE  LET d == [c EXCEPT !.mounted = FALSE] IN
             /\ IsRecord(d) /\ d.what = c.what /\ d.cat = c.cat /\ d.owner = c.owner
             /\ d.stage = c.stage /\ c.cat = "all" /\ c \in psCalls /\ c.what \in ToggleKind
             /\ c.owner = psOwner /\ psOwner \in PsOwner
             /\ CallFits(d) /\ d.what \in ToggleKind
  <2>1. IsRecord(c) /\ c.what \in ToggleKind /\ c.cat = "all" /\ CallFits(c) /\ c \in psCalls
        /\ c.owner = psOwner /\ psOwner \in PsOwner
    BY Kinds DEF Handlers, IsToggle, ToggleKind
  <2> DEFINE d == [c EXCEPT !.mounted = FALSE]
  <2>2. IsRecord(d) /\ d.what = c.what /\ d.cat = c.cat /\ d.owner = c.owner /\ d.stage = c.stage
    BY <2>1 DEF IsRecord
  <2> HIDE DEF d
  <2>3. CallFits(d)
    BY <2>1, <2>2 DEF CallFits, FetchKind, ToggleKind
  <2>4. QED BY <2>1, <2>2, <2>3 DEF d
<1>3. \A c, e \in Handlers : c = e
  BY DEF Together, CallsApart
<1>4. \A d \in psCalls' : \/ d \in Fetching(pushEnabled)
                          \/ \E c \in Handlers : d = [c EXCEPT !.mounted = FALSE]
  OBVIOUS
<1>5. CallsApart'
  <2>1. \A d \in psCalls' : CallShape(d)'
    BY <1>1, <1>2, <1>4 DEF CallShape, CallFits, IsRecord, QuietHours
  <2>2. ASSUME NEW d \in psCalls', NEW e \in psCalls', d.what = e.what PROVE d = e
    <3>1. CASE d.what \in FetchKind
      <4>1. ASSUME NEW f \in psCalls', f \notin Fetching(pushEnabled) PROVE f.what \in ToggleKind
        <5>1. PICK c \in Handlers : f = [c EXCEPT !.mounted = FALSE]
          BY <1>4, <4>1
        <5> QED BY <1>2, <5>1
      <4>2. d \in Fetching(pushEnabled) /\ e \in Fetching(pushEnabled)
        BY <2>2, <3>1, <4>1 DEF FetchKind, ToggleKind
      <4> QED BY <1>1, <2>2, <4>2
    <3>2. CASE d.what \notin FetchKind
      BY <1>1, <1>3, <1>4, <2>2, <3>2
    <3> QED BY <3>1, <3>2
  <2>3. \A d, e \in Handlers' : d = e
    BY <1>1, <1>3, <1>4 DEF Handlers, IsFetch, FetchKind
  <2> QED BY <2>1, <2>2, <2>3 DEF CallsApart
<1>6. TokenAgrees'
  <2>1. CASE Handlers = {}
    <3>1. \A d \in psCalls' : ~IsToggle(d)
      BY <1>1, <1>4, <2>1 DEF IsToggle, FetchKind
    <3>2. \A c \in psCalls : ~IsToggle(c)
      BY <2>1 DEF Handlers, IsToggle, IsFetch
    <3> QED BY <3>1, <3>2 DEF Together, TokenAgrees, Held
  <2>2. ASSUME NEW c \in Handlers PROVE TokenAgrees'
    <3> DEFINE d == [c EXCEPT !.mounted = FALSE]
    <3>1. d \in psCalls' /\ d.what = c.what /\ d.stage = c.stage /\ c \in psCalls
          /\ c.what \in ToggleKind
      BY <1>2
    <3>2. \A e \in psCalls' : IsToggle(e) => e = d
      BY <1>1, <1>3, <1>4 DEF IsToggle, FetchKind
    <3> HIDE DEF d
    <3>3. IsToggle(c) /\ IsToggle(d)
      BY <3>1 DEF IsToggle, ToggleKind
    <3> QED BY <3>1, <3>2, <3>3 DEF Together, TokenAgrees, ToggleAgrees, Held
  <2> QED BY <2>1, <2>2
<1>7. PsType' /\ KeychainAgrees' /\ SwitchShows'
  <2>1. ~pushEnabled => \A d \in psCalls' : ~IsFetch(d)
    BY <1>1, <1>2, <1>4 DEF IsFetch, ToggleKind
  <2> QED BY <2>1, PushSettingsAssumption
          DEF Together, PsType, KeychainAgrees, SwitchShows, IsFetch, QuietHours
<1>8. PrefsAgree' /\ QuietAgrees'
  <2>1. \A d \in psCalls' : d.what \notin {"setPushCategoryPrefs", "saveQuietHours"}
    BY <1>1, <1>2, <1>4 DEF FetchKind, ToggleKind
  <2>2. \A d \in psCalls' : IsFetch(d) => d.stage # "landed"
    BY <1>1, <1>2, <1>4 DEF IsFetch, ToggleKind
  <2> QED BY <2>1, <2>2 DEF PrefsAgree, QuietAgrees, IsFetch
<1> QED BY <1>5, <1>6, <1>7, <1>8 DEF Together

LEMMA LaunchKeeps ==
  ASSUME Together, Launch, Handlers = {}
  PROVE  Together'
<1>1. /\ psOwner' = psOwner /\ pushEnabled' = pushEnabled /\ pushToken' = pushToken
      /\ keychain' = keychain /\ categoryPrefs' = NotShown /\ quietHours' = NotShown
      /\ tokenRow' = tokenRow /\ prefRows' = prefRows /\ quietRows' = quietRows
  BY DEF Launch, hydrate, psRows, Together, KeychainAgrees
<1>2. keychain.enabled = pushEnabled
  BY DEF Together, KeychainAgrees
<1>3. psCalls' = Fetching(pushEnabled)
  BY <1>2 DEF Launch
<1>4. psCalls' = {[c EXCEPT !.mounted = FALSE] : c \in Handlers} \cup Fetching(pushEnabled)
  BY <1>3
<1> QED BY <1>1, <1>4, AnewKeeps

\* When no handler is under way and nothing has parted them, the screen, the
\* switch and the engine's rows agree (SettingsScreen, pushPrefsStore).
THEOREM SettingsStayTogether == PushSettingsSpec => []SettingsAgree
<1>1. PushSettingsInit => PsInv
  <2> SUFFICES ASSUME PushSettingsInit PROVE PsInv
    OBVIOUS
  <2>1. Disabled \in QuietHours /\ AllOn \in [Category -> BOOLEAN]
    BY PushSettingsAssumption DEF Disabled, QuietHours, AllOn
  <2> QED BY <2>1, PushSettingsAssumption
          DEF PushSettingsInit, PsInv, Together, PsType, KeychainAgrees, CallsApart, SwitchShows,
              TokenAgrees, Held, PrefsAgree, QuietAgrees, Handlers
<1>2. PsInv /\ [PushSettingsNext]_psVars => PsInv'
  <2> SUFFICES ASSUME PsInv, [PushSettingsNext]_psVars PROVE PsInv'
    OBVIOUS
  <2>1. parted' \in BOOLEAN /\ (~parted' => ~parted)
    BY DEF PsInv, PushSettingsNext, psVars, onToggleNotifications, onSignOut, TapStarts, Remount,
       Launch, onToggleCategory, writeQuietHours, SignIn, Lands, Answered, Fails, Continue
  <2> SUFFICES ASSUME ~parted' PROVE Together'
    BY <2>1 DEF PsInv
  <2>2. Together
    BY <2>1 DEF PsInv
  <2>3. CASE onToggleNotifications
    <3> DEFINE c == Send(IF pushEnabled THEN "disable" ELSE "enable", "all", NotShown, NotShown)
               d == IF pushEnabled /\ ~pushToken THEN [c EXCEPT !.stage = "done"] ELSE c
    <3>1. TapStarts(d) /\ UNCHANGED psScreen
      BY <2>3 DEF onToggleNotifications
    <3>2. c.owner = psOwner /\ IsRecord(c) /\ IsToggle(c) /\ c.cat = "all" /\ c.stage = "sent"
          /\ (c.what = "enable" <=> ~pushEnabled)
      BY DEF Send, IsRecord, IsToggle
    <3> HIDE DEF c
    <3>3. d.what = c.what
      BY <3>2, StageEdit
    <3>4. Handlers = {}
      BY <3>1, <3>2, <3>3 DEF TapStarts, IsToggle
    <3>5. d = c
      BY <2>2, <3>4 DEF Together, TokenAgrees, Handlers, IsToggle, IsFetch
    <3> QED BY <2>2, <3>1, <3>2, <3>5, ToggleTap
  <2>4. CASE onSignOut
    <3> DEFINE c == Send("signOut", "all", NotShown, NotShown)
               d == IF pushToken THEN c ELSE [c EXCEPT !.stage = "done"]
    <3>1. TapStarts(d) /\ UNCHANGED psScreen
      BY <2>4 DEF onSignOut
    <3>2. c.owner = psOwner /\ IsRecord(c) /\ c.what = "signOut" /\ c.cat = "all" /\ c.stage = "sent"
      BY DEF Send, IsRecord
    <3> HIDE DEF c
    <3>3. /\ d.what = "signOut" /\ d.owner = psOwner /\ IsRecord(d) /\ d.cat = "all"
          /\ d.stage = IF pushToken THEN "sent" ELSE "done"
      BY <3>2, StageEdit
    <3> HIDE DEF d
    <3>4. Handlers = {} /\ IsToggle(d)
      BY <3>1, <3>3 DEF TapStarts, IsToggle
    <3>5. pushToken = pushEnabled
      BY <2>2, <3>4 DEF Together, TokenAgrees, Handlers, IsToggle, IsFetch
    <3> QED BY <2>2, <3>1, <3>3, <3>4, <3>5, ToggleTap DEF Together, PsType
  <2>5. CASE Remount
    <3>1. \A c \in Handlers : IsToggle(c)
      BY <2>5 DEF Remount
    <3> QED BY <2>2, <2>5, <3>1, AnewKeeps DEF Remount, psMemory, psRows
  <2>6. CASE Launch
    <3>1. Handlers = {}
      BY <2>6 DEF Launch
    <3> QED BY <2>2, <2>6, <3>1, LaunchKeeps
  <2>7. ASSUME NEW cat \in Category, onToggleCategory(cat) PROVE Together'
    BY <2>2, <2>7, CategoryTap
  <2>8. ASSUME NEW next \in QuietHours, writeQuietHours(next) PROVE Together'
    BY <2>2, <2>8, QuietTap
  <2>9. ASSUME NEW o \in PsOwner, SignIn(o) PROVE Together'
    BY <2>2, <2>9, SignInKeeps
  <2>10. ASSUME NEW c \in psCalls, Lands(c) PROVE Together'
    BY <2>2, <2>10, LandsKeeps
  <2>11. ASSUME NEW c \in psCalls, Answered(c) PROVE Together'
    BY <2>2, <2>11, AnsweredKeeps
  <2>12. ASSUME NEW c \in psCalls, Fails(c) PROVE Together'
    BY <2>2, <2>12, FailsKeeps
  <2>13. ASSUME NEW c \in psCalls, Continue(c) PROVE Together'
    <3>1. setPushEnabled(c, TRUE) \/ setPushToken(c, TRUE)
      BY <2>13 DEF Continue
    <3> QED BY <2>2, <3>1, SetEnabledKeeps, SetTokenKeeps
  <2>14. CASE UNCHANGED psVars
    BY <2>2, <2>14
       DEF psVars, psMemory, psScreen, psRows, Together, PsType, KeychainAgrees, CallsApart, CallShape,
           CallFits, IsRecord, SwitchShows, TokenAgrees, ToggleAgrees, Held, PrefsAgree, QuietAgrees,
           Handlers, QuietHours
  <2> QED BY <2>3, <2>4, <2>5, <2>6, <2>7, <2>8, <2>9, <2>10, <2>11, <2>12, <2>13, <2>14
          DEF PushSettingsNext
<1>3. PsInv => SettingsAgree
  <2> SUFFICES ASSUME PsInv, ~parted, Handlers = {} PROVE
        /\ categoryPrefs # NotShown => categoryPrefs = prefRows[psOwner]
        /\ quietHours # NotShown => quietHours = quietRows[psOwner]
        /\ tokenRow = IF pushEnabled THEN psOwner ELSE SignedOut
    BY DEF SettingsAgree
  <2>1. Together /\ \A c \in psCalls : IsFetch(c)
    BY DEF PsInv, Handlers
  <2>2. tokenRow = IF pushEnabled THEN psOwner ELSE SignedOut
    BY <2>1 DEF Together, TokenAgrees, Held, IsFetch, IsToggle
  <2>3. quietHours # NotShown => quietHours = quietRows[psOwner]
    BY <2>1 DEF Together, QuietAgrees, IsFetch
  <2>4. ASSUME categoryPrefs # NotShown PROVE categoryPrefs = prefRows[psOwner]
    <3>1. psOwner \in PsOwner
      BY <2>1, <2>4 DEF Together, SwitchShows, PsType
    <3>2. /\ categoryPrefs \in [Category -> BOOLEAN] /\ prefRows[psOwner] \in [Category -> BOOLEAN]
      BY <2>1, <2>4, <3>1 DEF Together, PsType
    <3>3. \A k \in Category : categoryPrefs[k] = prefRows[psOwner][k]
      BY <2>1, <2>4 DEF Together, PrefsAgree, IsFetch
    <3> QED BY <3>2, <3>3
  <2> QED BY <2>2, <2>3, <2>4
<1> QED BY <1>1, <1>2, <1>3, PTL DEF PushSettingsSpec

---------------------------------------------------------------------------
(* The account panels: they are of an effect that has run.                 *)

PanelInv == effectRun \in Nat /\ panel \in Nat /\ panel <= effectRun

LEMMA PanelStep ==
  ASSUME PanelInv, [MonitorNext]_monitorVars
  PROVE  PanelInv' /\ panel' >= panel
<1>1. CASE switchView
  BY <1>1 DEF PanelInv, switchView, onScreen
<1>2. ASSUME NEW r \in requests, setPanel(r) PROVE PanelInv' /\ panel' >= panel
  BY <1>2 DEF PanelInv, setPanel, active
<1>3. ASSUME UNCHANGED <<effectRun, panel>> PROVE PanelInv' /\ panel' >= panel
  BY <1>3 DEF PanelInv
<1>4. ASSUME NEW r \in requests,
             \/ answersRequest(r) \/ setPortfolio(r) \/ setTwaps(r) \/ setSliceFills(r)
             \/ refetched(r) \/ loadFails(r)
      PROVE  UNCHANGED <<effectRun, panel>>
  BY <1>4 DEF answersRequest, setPortfolio, setTwaps, setSliceFills, refetched, loadFails, onScreen
<1>5. ASSUME NEW v \in View, sliceExecutes(v) PROVE UNCHANGED <<effectRun, panel>>
  BY <1>5 DEF sliceExecutes, onScreen
<1>6. ASSUME NEW n \in Tids(Slices), onSlice(n) PROVE UNCHANGED <<effectRun, panel>>
  BY <1>6 DEF onSlice
<1>7. ASSUME runQuery \/ cancelTwap \/ subscribe \/ timerFires \/ UNCHANGED monitorVars
      PROVE  UNCHANGED <<effectRun, panel>>
  BY <1>7 DEF runQuery, cancelTwap, subscribe, timerFires, monitorVars, onScreen
<1> QED
  BY <1>1, <1>2, <1>3, <1>4, <1>5, <1>6, <1>7 DEF MonitorNext

\* A late answer never takes the account panels back to an earlier wallet or
\* network (the effects' `active` guards in TradeScreen).
THEOREM PanelsMoveForward == MonitorSpec => PanelNeverGoesBack
<1>1. MonitorInit => PanelInv
  BY DEF MonitorInit, PanelInv
<1>2. PanelInv /\ [MonitorNext]_monitorVars => PanelInv'
  BY PanelStep
<1>3. PanelInv /\ [MonitorNext]_monitorVars => [panel' >= panel]_monitorVars
  BY PanelStep
<1> QED
  BY <1>1, <1>2, <1>3, PTL DEF MonitorSpec, PanelNeverGoesBack
=============================================================================
