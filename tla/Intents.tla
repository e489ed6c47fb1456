------------------------------ MODULE Intents ------------------------------
(***************************************************************************)
(* The mobile app's order intents: the ledger that gives every order a     *)
(* client order id (cloid) and a durable row before it is signed, the      *)
(* screens that submit, retry, close and cancel through it, and the        *)
(* recovery that asks the exchange for the orders whose receipt was lost.  *)
(*                                                                         *)
(* JavaScript runs one handler at a time, so what happens between two      *)
(* awaits is one action; everything is interleaved at the awaits, and the  *)
(* app may die there or between two writes of one handler.                 *)
(***************************************************************************)
EXTENDS Naturals, FiniteSets, Sequences

CONSTANTS
  Network,       \* the networks the user may switch between
  Cloid,         \* client order ids that may be minted
  Call,          \* slots for calls that are in flight at the same time
  MaxLedgers,    \* bound: ledger instances created over one history
  MaxTaps        \* bound: submits, closes and cancels tapped

VARIABLES
  exch,     \* exch[n][c]: what the exchange of network n knows of order c, the first
            \* order of the action signed under that cloid
  legs,     \* the <<n, c>> whose action has another order resting at the exchange: a
            \* bracket's TP or SL, a further rung of a ladder
  wire,     \* signed requests that have left the phone and not arrived
  db,       \* db[n][c]: the row of the intents table (scope = wallet x network)
  led,      \* every IntentLedger made so far, each with its cache and recovery
  cur,      \* index in led of the ledger in the store, 0 when reset
  net,      \* the selected network
  call,     \* the calls of the screens that wait for an answer
  form,     \* the trade form: retryCloid, submittingRef, and its mounting
  minted,   \* which screen minted each cloid
  taps

intentVars == <<exch, legs, wire, db, led, cur, net, call, form, minted, taps>>

NoRow == [st |-> "absent", oid |-> FALSE]
Terminal == {"filled", "rejected", "canceled"}
Row == [st : {"absent", "pending", "submitted", "open"} \cup Terminal, oid : BOOLEAN]
NoCloid == "no cloid"
NoAnswer == "no answer"
Free == [kind |-> "free"]

---------------------------------------------------------------------------
(* The ledger.  A write goes to the cache of one instance and to its       *)
(* scope's row in the database.                                            *)

Put(L, D, i, c, r) ==
  [led |-> [L EXCEPT ![i].cache[c] = r], db |-> [D EXCEPT ![L[i].scope][c] = r]]

Same == [led |-> led, db |-> db]

intentStatusFromKind(kind) ==
  CASE kind \in {"resting", "waiting"} -> "open"
    [] kind \in Terminal -> kind
    [] OTHER -> "submitted"

\* normalizeOrderStatus, for the statuses the exchange reports: a receipt has
\* an error object for a rejection; a query has the bare word "rejected", which
\* has a message but ends in no "Rejected", so its kind is unknown.
kindOfReceipt(s) == IF s = "error" THEN "rejected" ELSE s
kindOfQuery(s) == IF s = "rejected" THEN "unknown" ELSE s

shouldSubmit(r) == r.st \in {"absent", "pending", "submitted"}

reconcile(i, c, kind, oid) ==
  LET r == led[i].cache[c]
      next == intentStatusFromKind(kind)
  IN  IF r = NoRow \/ (r.st \in Terminal /\ next \notin Terminal)
      THEN Same
      ELSE Put(led, db, i, c, [st |-> next, oid |-> r.oid \/ oid])

markCanceled(i, c) ==
  LET r == led[i].cache[c]
  IN  IF r = NoRow \/ r.st \in Terminal THEN Same
      ELSE Put(led, db, i, c, [r EXCEPT !.st = "canceled"])

\* open, then markSubmitted: the row is on disk before anything is signed.
openAndMark(i, c) == Put(led, db, i, c, [led[i].cache[c] EXCEPT !.st = "submitted"])

Store(w) == led' = w.led /\ db' = w.db

\* init: a new instance hydrated from its scope and pruned of some terminal
\* rows (age and count stand open), whose recovery starts from pending().
hydrated(D, n, old) == [c \in Cloid |-> IF c \in old THEN NoRow ELSE D[n][c]]
recoverable(cache) == {c \in Cloid : cache[c].st \in {"pending", "submitted"}}

init(D, n, old) ==
  LET cache == hydrated(D, n, old)
  IN  [scope |-> n, cache |-> cache, todo |-> recoverable(cache),
       asked |-> NoCloid, answer |-> NoAnswer]

Stale(n) == SUBSET {c \in Cloid : db[n][c].st \in Terminal}

---------------------------------------------------------------------------
\* The intents table, keyed by scope and cloid.
EmptyTable == [n \in Network |-> [c \in Cloid |-> NoRow]]

FreshForm == [retry |-> NoCloid, submitting |-> FALSE]

IntentInit ==
  /\ exch = [n \in Network |-> [c \in Cloid |-> "none"]]
  /\ legs = {} /\ wire = {}
  /\ db = EmptyTable
  /\ \E n \in Network : net = n /\ led = <<init(db, n, {})>>
  /\ cur = 1
  /\ call = [k \in Call |-> Free]
  /\ form = FreshForm
  /\ minted = [c \in Cloid |-> "none"]
  /\ taps = 0

Unminted == {c \in Cloid : minted[c] = "none"}

\* The App effect that (re)scopes the ledger when the wallet or the network
\* changes; the recovery of the older instance goes on.
Rescope(n) ==
  /\ Len(led) < MaxLedgers
  /\ \E old \in Stale(n) :
       /\ db' = [db EXCEPT ![n] = hydrated(db, n, old)]
       /\ led' = Append(led, init(db, n, old))
  /\ cur' = Len(led) + 1

\* Settings: another network.  The trade tab stays mounted, its state with it.
switchNetwork ==
  /\ cur # 0
  /\ \E n \in Network \ {net} : net' = n /\ Rescope(n)
  /\ UNCHANGED <<exch, legs, wire, call, form, minted, taps>>

\* The lock screen replaces the tabs: the wallet leaves memory, the ledger
\* store is reset and the trade form is unmounted; calls stay in flight.
lock ==
  /\ cur # 0
  /\ cur' = 0 /\ form' = FreshForm
  /\ call' = [k \in Call |-> IF call[k] = Free THEN Free ELSE [call[k] EXCEPT !.mounted = FALSE]]
  /\ UNCHANGED <<exch, legs, wire, db, led, net, minted, taps>>

unlock ==
  /\ cur = 0 /\ Rescope(net)
  /\ UNCHANGED <<exch, legs, wire, net, call, form, minted, taps>>

---------------------------------------------------------------------------
(* The trade screen.                                                       *)

\* A handler keeps the service (ledger and network) it was rendered with.
Rendered(kind, stage, c) ==
  [kind |-> kind, stage |-> stage, inst |-> cur, scope |-> net, cloid |-> c,
   mounted |-> TRUE, answer |-> NoAnswer, uncertain |-> {}]

Tapped(k, rec) ==
  /\ cur # 0 /\ taps < MaxTaps /\ call[k] = Free
  /\ taps' = taps + 1
  /\ call' = [call EXCEPT ![k] = rec]

\* onSubmit: one submit at a time; the handler keeps the retry cloid as well.
\* A TWAP has no cloid.
onSubmit(k) ==
  /\ ~form.submitting
  /\ \E kind \in {"order", "twap"} :
       Tapped(k, Rendered(kind, "prelude", IF kind = "order" THEN form.retry ELSE NoCloid))
  /\ form' = [form EXCEPT !.submitting = TRUE]
  /\ UNCHANGED <<exch, legs, wire, db, led, cur, net, minted>>

\* The call ends: finally releases submittingRef, and the form keeps the
\* cloid to retry; a form that was unmounted meanwhile keeps nothing.
Ends(k, retry) ==
  /\ call' = [call EXCEPT ![k] = Free]
  /\ form' = IF call[k].kind \notin {"order", "twap"} \/ ~call[k].mounted THEN form
             ELSE IF call[k].kind = "twap" THEN [form EXCEPT !.submitting = FALSE]
             ELSE [retry |-> retry, submitting |-> FALSE]

\* The builder approval lets everything through; a failed setLeverage aborts.
preludeFails(k) ==
  /\ call[k].kind \in {"order", "twap"} /\ call[k].stage = "prelude"
  /\ Ends(k, form.retry)
  /\ UNCHANGED <<exch, legs, wire, db, led, cur, net, minted, taps>>

Chosen(k) == IF call[k].cloid # NoCloid THEN {call[k].cloid} ELSE Unminted

\* Mutant: the request leaves before its row is written.
submitBuilt_SignsFirst(k) ==
  \E c \in Chosen(k) :
    LET r == led[call[k].inst].cache[c]
    IN  /\ minted' = [minted EXCEPT ![c] = IF @ = "none" THEN call[k].kind ELSE @]
        /\ IF shouldSubmit(r)
           THEN /\ UNCHANGED <<led, db>>
                /\ wire' = wire \cup {[what |-> "order", net |-> call[k].scope, cloid |-> c]}
                /\ call' = [call EXCEPT ![k].stage = "sent", ![k].cloid = c]
                /\ UNCHANGED form
           ELSE Store(Same) /\ Ends(k, NoCloid) /\ UNCHANGED wire

\* submitBuilt: open the row of the action's first order (the others get none),
\* refuse to send again what is live or settled, mark it submitted, sign and
\* send.  One stretch of code up to the await.
submitBuilt(k) ==
  \E c \in Chosen(k) :
    LET r == led[call[k].inst].cache[c]
    IN  /\ minted' = [minted EXCEPT ![c] = IF @ = "none" THEN call[k].kind ELSE @]
        /\ IF shouldSubmit(r)
           THEN /\ Store(openAndMark(call[k].inst, c))
                /\ wire' = wire \cup {[what |-> "order", net |-> call[k].scope, cloid |-> c]}
                /\ call' = [call EXCEPT ![k].stage = "sent", ![k].cloid = c]
                /\ UNCHANGED form
           ELSE Store(Same) /\ Ends(k, NoCloid) /\ UNCHANGED wire

place(k) ==
  /\ call[k].kind \in {"order", "close"} /\ call[k].stage = "prelude"
  /\ submitBuilt(k)
  /\ UNCHANGED <<exch, legs, cur, net, taps>>

\* placeTwap: no row and no cloid; whatever comes back only ends the call.
placeTwap(k) ==
  /\ call[k].kind = "twap" /\ call[k].stage = "prelude"
  /\ Ends(k, form.retry)
  /\ UNCHANGED <<exch, legs, wire, db, led, cur, net, minted, taps>>

\* edit, onChangeCoin, onChangePrice, onSlide: clearRetry.
clearRetry ==
  /\ cur # 0 /\ form.retry # NoCloid
  /\ form' = [form EXCEPT !.retry = NoCloid]
  /\ UNCHANGED <<exch, legs, wire, db, led, cur, net, call, minted, taps>>

\* The banner's review: an unconfirmed intent becomes the cloid to retry.
reviewLatest ==
  /\ cur # 0
  /\ \E c \in recoverable(led[cur].cache) :
       c # form.retry /\ form' = [form EXCEPT !.retry = c]
  /\ UNCHANGED <<exch, legs, wire, db, led, cur, net, call, minted, taps>>

---------------------------------------------------------------------------
(* The positions screen.  Its services are built at the tap, each close    *)
(* mints its own cloid, and several may be in flight.                      *)

\* Closes of the position whose calls ended without a receipt.
Uncertain(n) == {c \in Cloid : /\ minted[c] = "close" /\ db[n][c].st = "submitted"
                              /\ \A k \in Call : call[k] = Free \/ call[k].cloid # c}

marketClose(k) ==
  /\ Tapped(k, [Rendered("close", "prelude", NoCloid) EXCEPT !.uncertain = Uncertain(net)])
  /\ UNCHANGED <<exch, legs, wire, db, led, cur, net, form, minted>>

cancelOrder(k) ==
  \E c \in Cloid :
    /\ exch[net][c] = "resting"
    /\ Tapped(k, Rendered("cancel", "sent", c))
    /\ wire' = wire \cup {[what |-> "cancel", net |-> net, cloid |-> c]}
    /\ UNCHANGED <<exch, legs, db, led, cur, net, form, minted>>

---------------------------------------------------------------------------
(* The exchange, from how the app uses it: it never holds two orders of    *)
(* one cloid, and it answers a duplicate with the order it already has.    *)
(* The other orders of an action have their own fate, whatever the first   *)
(* one's; the app keeps no row of them.                                    *)

Waiting(m) == {k \in Call : /\ call[k].kind \notin {"free", "twap"} /\ call[k].stage = "sent"
                            /\ call[k].answer = NoAnswer
                            /\ (call[k].kind = "cancel") = (m.what = "cancel")
                            /\ <<call[k].scope, call[k].cloid>> = <<m.net, m.cloid>>}

arrives(m) ==
  /\ \E s \in (IF m.what = "cancel"
               THEN {IF exch[m.net][m.cloid] = "resting" THEN "canceled" ELSE exch[m.net][m.cloid]}
               ELSE IF exch[m.net][m.cloid] # "none" THEN {exch[m.net][m.cloid]}
               ELSE {"resting", "filled", "rejected"}) :
       LET answer == IF m.what = "order" THEN (IF s = "rejected" THEN "error" ELSE s)
                     ELSE IF exch[m.net][m.cloid] = "resting" THEN "ok" ELSE "error"
       IN  /\ exch' = [exch EXCEPT ![m.net][m.cloid] = s]
           /\ legs' \in {legs} \cup IF m.what = "order" /\ exch[m.net][m.cloid] = "none"
                                   THEN {legs \cup {<<m.net, m.cloid>>}} ELSE {}
           /\ \/ Waiting(m) = {} /\ UNCHANGED call
              \/ \E k \in Waiting(m) : call' = [call EXCEPT ![k].answer = answer]
  /\ wire' = wire \ {m}
  /\ UNCHANGED <<db, led, cur, net, form, minted, taps>>

isLost(m) ==
  /\ wire' = wire \ {m}
  /\ UNCHANGED <<exch, legs, db, led, cur, net, call, form, minted, taps>>

fills(n, c) ==
  /\ exch[n][c] = "resting"
  /\ exch' = [exch EXCEPT ![n][c] = "filled"]
  /\ UNCHANGED <<legs, wire, db, led, cur, net, call, form, minted, taps>>

\* The other orders of an action fill or are cancelled; a cancel tapped for one
\* finds no row of its oid and changes nothing in the app.
legsEnd(n, c) ==
  /\ <<n, c>> \in legs /\ legs' = legs \ {<<n, c>>}
  /\ UNCHANGED <<exch, wire, db, led, cur, net, call, form, minted, taps>>

---------------------------------------------------------------------------
\* Of the statuses in an order's answer only the first is looked at.
firstOrderStatus(k) == kindOfReceipt(call[k].answer)

\* Any status with an error makes a cancel's answer one.
responseError(k) == call[k].answer = "error"

\* A cancel that was accepted marks the row that has the order's oid.
cancelRow(i, c, refused) ==
  IF ~refused /\ led[i].cache[c].oid THEN markCanceled(i, c) ELSE Same

\* The answer of submitBuilt: the row follows it, the form forgets the cloid.
answered(k) ==
  /\ call[k].kind \notin {"free", "twap"} /\ call[k].answer # NoAnswer
  /\ LET i == call[k].inst
         c == call[k].cloid
     IN  Store(IF call[k].kind = "cancel" THEN cancelRow(i, c, responseError(k))
               ELSE reconcile(i, c, firstOrderStatus(k), firstOrderStatus(k) # "rejected"))
  /\ Ends(k, NoCloid)
  /\ UNCHANGED <<exch, legs, wire, cur, net, minted, taps>>

\* The catch of submitBuilt leaves the row submitted.
uncertainRow(k) == Same

\* A timeout or a network error, the request still under way or not: the
\* receipt is uncertain and the form keeps the cloid for an explicit retry.
throws(k) ==
  /\ call[k].kind \notin {"free", "twap"} /\ call[k].stage = "sent"
  /\ Store(uncertainRow(k))
  /\ Ends(k, call[k].cloid)
  /\ UNCHANGED <<exch, legs, wire, cur, net, minted, taps>>

---------------------------------------------------------------------------
(* reconcilePendingIntents: one query after the other, the answer applied  *)
(* when it comes.                                                          *)

orderStatus(i) ==
  /\ led[i].asked = NoCloid
  /\ \E c \in led[i].todo :
       led' = [led EXCEPT ![i].asked = c, ![i].answer = exch[led[i].scope][c]]
  /\ UNCHANGED <<exch, legs, wire, db, cur, net, call, form, minted, taps>>

\* Mutant: an order the exchange does not know is taken for rejected.
recovered_OrphanRejected(i) ==
  IF led[i].answer = "none" THEN reconcile(i, led[i].asked, "rejected", FALSE)
  ELSE reconcile(i, led[i].asked, kindOfQuery(led[i].answer), TRUE)

\* unknownOid leaves the row as it is.
recovered(i) ==
  IF led[i].answer = "none" THEN Same
  ELSE reconcile(i, led[i].asked, kindOfQuery(led[i].answer), TRUE)

Asked(L, i) ==
  [L EXCEPT ![i].todo = @ \ {led[i].asked}, ![i].asked = NoCloid, ![i].answer = NoAnswer]

statusArrives(i) ==
  /\ led[i].asked # NoCloid
  /\ db' = recovered(i).db /\ led' = Asked(recovered(i).led, i)
  /\ UNCHANGED <<exch, legs, wire, cur, net, call, form, minted, taps>>

statusFails(i) ==
  /\ led[i].asked # NoCloid
  /\ led' = Asked(led, i)
  /\ UNCHANGED <<exch, legs, wire, db, cur, net, call, form, minted, taps>>

---------------------------------------------------------------------------
\* The app is killed: nothing but the database and what is on the wire stays.
Dies(D) ==
  /\ Len(led) < MaxLedgers
  /\ \E old \in Stale(net) :
       /\ db' = [D EXCEPT ![net] = hydrated(D, net, old)]
       /\ led' = Append([i \in DOMAIN led |-> [led[i] EXCEPT !.todo = {}, !.asked = NoCloid, !.answer = NoAnswer]],
                        init(D, net, old))
  /\ cur' = Len(led) + 1
  /\ call' = [k \in Call |-> Free]
  /\ form' = FreshForm
  /\ UNCHANGED <<exch, legs, wire, net, taps>>

appDies == Dies(db) /\ UNCHANGED minted

\* ... after open wrote the row and before markSubmitted did.
appDiesAfterOpen ==
  \E k \in Call : \E c \in Unminted :
    /\ call[k].kind \in {"order", "close"} /\ call[k].stage = "prelude" /\ call[k].cloid = NoCloid
    /\ Dies([db EXCEPT ![call[k].scope][c] = [st |-> "pending", oid |-> FALSE]])
    /\ minted' = [minted EXCEPT ![c] = call[k].kind]

IntentNext ==
  \/ switchNetwork \/ lock \/ unlock \/ clearRetry \/ reviewLatest
  \/ appDies \/ appDiesAfterOpen
  \/ \E k \in Call : \/ onSubmit(k) \/ preludeFails(k) \/ place(k) \/ placeTwap(k)
                     \/ marketClose(k) \/ cancelOrder(k) \/ answered(k) \/ throws(k)
  \/ \E m \in wire : arrives(m) \/ isLost(m)
  \/ \E n \in Network, c \in Cloid : fills(n, c) \/ legsEnd(n, c)
  \/ \E i \in DOMAIN led : orderStatus(i) \/ statusArrives(i) \/ statusFails(i)

IntentSpec == IntentInit /\ [][IntentNext]_intentVars

---------------------------------------------------------------------------
\* The first order of an action - an order, the entry of a bracket, the first
\* rung of a ladder - that rests at the exchange, or is on its way there, has
\* an unsettled row in the database of its own network: however calls, crashes,
\* re-scopes, prunes and recoveries interleave, it is never forgotten nor
\* recorded as over (exchange.ts submitBuilt, intentLedger.ts open).  Nothing
\* of the kind holds for the action's other orders: legs is in no row, and a
\* row may be settled, or pruned, while they rest.  A TWAP has no row at all.
NothingForgotten ==
  \A n \in Network, c \in Cloid :
    (exch[n][c] = "resting" \/ (exch[n][c] = "none" /\ [what |-> "order", net |-> n, cloid |-> c] \in wire))
      => db[n][c].st \in {"submitted", "open"}

\* A settled row tells the truth of the action's first order: the exchange
\* settled that order, and the same way; a lost receipt is never turned into a failure or a fill
\* (ledgerRecovery.ts: an orphan stays submitted; submitBuilt's catch).
LedgerHonest ==
  \A n \in Network, c \in Cloid : db[n][c].st \in Terminal => exch[n][c] = db[n][c].st

\* What the positions screen says of a close whose receipt was lost: that it
\* is "deduped by cloid on retry - never re-issued as a fresh order".  So a
\* close tapped while an earlier one is uncertain is sent under its cloid.
CloseNotReissued ==
  \A k \in Call :
    call[k].kind = "close" /\ call[k].stage = "sent" /\ call[k].uncertain # {}
      => call[k].cloid \in call[k].uncertain
=============================================================================
