--------------------------- MODULE IntentsProofs ---------------------------
(***************************************************************************)
(* Theorems about the app's order intents, for any number of networks,     *)
(* orders, calls in flight and ledger instances: the exchange and the      *)
(* database never disagree in a way that loses an order.                   *)
(***************************************************************************)
EXTENDS Intents, SequenceTheorems, TLAPS

OrderState == {"none", "resting"} \cup Terminal
Origin     == {"none", "order", "close"}
Answer     == OrderState \cup {NoAnswer, "error", "ok"}

LedgerRec ==
  [scope : Network, cache : [Cloid -> Row], todo : SUBSET Cloid, asked : Cloid \cup {NoCloid},
   answer : Answer]

CallRec ==
  [kind : {"order", "twap", "close", "cancel"}, stage : {"prelude", "sent"}, inst : Nat,
   scope : Network, cloid : Cloid \cup {NoCloid}, mounted : BOOLEAN, answer : Answer,
   uncertain : SUBSET Cloid]

Request(what, n, c) == [what |-> what, net |-> n, cloid |-> c]

IntentType ==
  /\ exch \in [Network -> [Cloid -> OrderState]]
  /\ wire \subseteq [what : {"order", "cancel"}, net : Network, cloid : Cloid]
  /\ db \in [Network -> [Cloid -> Row]]
  /\ net \in Network
  /\ minted \in [Cloid -> Origin]

FormType == form \in [retry : Cloid \cup {NoCloid}, submitting : BOOLEAN]

LedgersType == led \in Seq(LedgerRec)

CallsType ==
  /\ call \in [Call -> CallRec \cup {Free}]
  /\ \A k \in Call : call[k].kind \notin {"free", "twap"} /\ call[k].stage = "sent"
                       => call[k].cloid \in Cloid

\* The store's ledger is of the selected network, and a handler's of its own.
StoreScoped == cur # 0 => cur \in DOMAIN led /\ led[cur].scope = net
CallScoped(r) == r # Free => r.inst \in DOMAIN led /\ led[r.inst].scope = r.scope
CallsScoped == \A k \in Call : CallScoped(call[k])

\* An answer that settles an order was true when the exchange gave it, and an order
\* settles once.
ReceiptTrue(r) ==
  r # Free /\ r.kind # "twap" /\ r.answer # NoAnswer =>
    /\ r.stage = "sent"
    /\ r.kind = "cancel" => (r.answer # "error" => exch[r.scope][r.cloid] = "canceled")
    /\ r.kind # "cancel" => (kindOfReceipt(r.answer) \in Terminal
                                => exch[r.scope][r.cloid] = kindOfReceipt(r.answer))
ReceiptsTrue == \A k \in Call : ReceiptTrue(call[k])

QueryTrue(l) ==
  l.asked # NoCloid /\ l.answer \in Terminal => exch[l.scope][l.asked] = l.answer
QueriesTrue == \A i \in DOMAIN led : QueryTrue(led[i])

OnlyMinted ==
  \A n \in Network, c \in Cloid :
    exch[n][c] # "none" \/ Request("order", n, c) \in wire => minted[c] # "none"

\* A row agrees with the order it stands for.
RowGood(row, e, sent) ==
  /\ row.st \in Terminal => e = row.st
  /\ e = "resting" \/ (e = "none" /\ sent) => row.st \in {"submitted", "open"}
RowsGood ==
  \A n \in Network, c \in Cloid : RowGood(db[n][c], exch[n][c], Request("order", n, c) \in wire)

IntentInv ==
  /\ IntentType /\ LedgersType /\ CallsType /\ FormType
  /\ StoreScoped /\ CallsScoped /\ ReceiptsTrue /\ QueriesTrue /\ OnlyMinted /\ RowsGood

----------------------------------------------------------------------------
(* What the ledger writes.                                                  *)

\* A list of ledgers that differs from led at most in what the caches hold.
SameButCaches(L) ==
  /\ L \in Seq(LedgerRec) /\ DOMAIN L = DOMAIN led
  /\ \A j \in DOMAIN led : /\ L[j].scope = led[j].scope
                           /\ L[j].asked = led[j].asked /\ L[j].answer = led[j].answer

\* A write changes nothing, or puts one row that is unsettled or true.
TrueWrite(w) ==
  \/ w = Same
  \/ \E i \in DOMAIN led, c \in Cloid, r \in Row :
       /\ w = Put(led, db, i, c, r)
       /\ r.st \in {"submitted", "open"} \cup Terminal
       /\ r.st \in Terminal => exch[led[i].scope][c] = r.st

LEMMA LedgerAt ==
  ASSUME IntentInv, NEW i \in DOMAIN led
  PROVE  /\ led[i] \in LedgerRec /\ led[i].scope \in Network
         /\ led[i].cache \in [Cloid -> Row] /\ led[i].todo \in SUBSET Cloid
         /\ led[i].asked \in Cloid \cup {NoCloid} /\ led[i].answer \in Answer
<1>1. led[i] \in LedgerRec
  BY DEF IntentInv, LedgersType
<1> QED BY <1>1 DEF LedgerRec

LEMMA PutKeeps ==
  ASSUME IntentInv, NEW i \in DOMAIN led, NEW c \in Cloid, NEW r \in Row
  PROVE  /\ SameButCaches(Put(led, db, i, c, r).led)
         /\ Put(led, db, i, c, r).db \in [Network -> [Cloid -> Row]]
         /\ \A n \in Network, d \in Cloid : Put(led, db, i, c, r).db[n][d] =
              IF n = led[i].scope /\ d = c THEN r ELSE db[n][d]
<1> DEFINE x == [led[i] EXCEPT !.cache[c] = r]
           L == [led EXCEPT ![i] = x]
           D == [db EXCEPT ![led[i].scope][c] = r]
<1>1. led \in Seq(LedgerRec) /\ led[i] \in LedgerRec /\ db \in [Network -> [Cloid -> Row]]
  BY DEF IntentInv, LedgersType, IntentType
<1>2. /\ x \in LedgerRec /\ x.scope = led[i].scope /\ x.asked = led[i].asked
      /\ x.answer = led[i].answer /\ led[i].scope \in Network
  BY <1>1 DEF LedgerRec
<1>3. Put(led, db, i, c, r).led = L /\ Put(led, db, i, c, r).db = D
  BY DEF Put
<1>4. D \in [Network -> [Cloid -> Row]]
      /\ \A n \in Network, d \in Cloid : D[n][d] = IF n = led[i].scope /\ d = c THEN r ELSE db[n][d]
  BY <1>1, <1>2
<1> HIDE DEF x
<1>5. L \in Seq(LedgerRec) /\ DOMAIN L = DOMAIN led
  BY <1>1, <1>2, ExceptSeq
<1>6. \A j \in DOMAIN led : L[j] = IF j = i THEN x ELSE led[j]
  BY <1>1
<1> HIDE DEF L, D
<1> QED BY <1>2, <1>3, <1>4, <1>5, <1>6 DEF SameButCaches

LEMMA WriteKeeps ==
  ASSUME IntentInv, NEW w, TrueWrite(w)
  PROVE  /\ SameButCaches(w.led)
         /\ w.db \in [Network -> [Cloid -> Row]]
         /\ \A n \in Network, c \in Cloid :
              RowGood(w.db[n][c], exch[n][c], Request("order", n, c) \in wire)
<1>1. CASE w = Same
  BY <1>1 DEF Same, IntentInv, IntentType, LedgersType, RowsGood, SameButCaches
<1>2. ASSUME NEW i \in DOMAIN led, NEW c \in Cloid, NEW r \in Row,
             w = Put(led, db, i, c, r), r.st \in {"submitted", "open"} \cup Terminal,
             r.st \in Terminal => exch[led[i].scope][c] = r.st
      PROVE  /\ SameButCaches(w.led)
             /\ w.db \in [Network -> [Cloid -> Row]]
             /\ \A n \in Network, d \in Cloid :
                  RowGood(w.db[n][d], exch[n][d], Request("order", n, d) \in wire)
  <2>1. \A n \in Network, d \in Cloid : w.db[n][d] =
          IF n = led[i].scope /\ d = c THEN r ELSE db[n][d]
    BY <1>2, PutKeeps
  <2>2. \A e, sent : (r.st \in Terminal => e = r.st) => RowGood(r, e, sent)
    BY <1>2 DEF RowGood, Terminal
  <2>3. \A n \in Network, d \in Cloid :
          RowGood(w.db[n][d], exch[n][d], Request("order", n, d) \in wire)
    BY <1>2, <2>1, <2>2 DEF IntentInv, RowsGood
  <2> QED BY <1>2, <2>3, PutKeeps
<1> QED BY <1>1, <1>2 DEF TrueWrite

LEMMA SubmitWrites ==
  ASSUME IntentInv, NEW i \in DOMAIN led, NEW c \in Cloid
  PROVE  TrueWrite(openAndMark(i, c))
<1> DEFINE r == [led[i].cache[c] EXCEPT !.st = "submitted"]
<1>1. led[i].cache[c] \in Row
  BY LedgerAt
<1>2. r \in Row /\ r.st = "submitted"
  BY <1>1 DEF Row
<1>3. openAndMark(i, c) = Put(led, db, i, c, r)
  BY DEF openAndMark
<1> HIDE DEF r
<1> QED BY <1>2, <1>3 DEF TrueWrite, Terminal

LEMMA StatusOfKind ==
  ASSUME NEW k
  PROVE  /\ intentStatusFromKind(k) \in {"open", "submitted"} \cup Terminal
         /\ intentStatusFromKind(k) \in Terminal => intentStatusFromKind(k) = k
BY DEF intentStatusFromKind, Terminal

\* A receipt or a query that settles the order settles the row the same way.
LEMMA ReconcileWrites ==
  ASSUME IntentInv, NEW i \in DOMAIN led, NEW c \in Cloid, NEW kind, NEW oid \in BOOLEAN,
         kind \in Terminal => exch[led[i].scope][c] = kind
  PROVE  TrueWrite(reconcile(i, c, kind, oid))
<1> DEFINE q == led[i].cache[c]
           next == intentStatusFromKind(kind)
           r == [st |-> next, oid |-> q.oid \/ oid]
<1>1. q \in Row
  BY LedgerAt
<1>2. next \in {"open", "submitted"} \cup Terminal /\ (next \in Terminal => next = kind)
  BY StatusOfKind
<1>3. reconcile(i, c, kind, oid) = Same \/ reconcile(i, c, kind, oid) = Put(led, db, i, c, r)
  BY DEF reconcile
<1> HIDE DEF next
<1>4. r \in Row /\ r.st = next
  BY <1>1, <1>2 DEF Row, Terminal
<1> HIDE DEF r
<1> QED BY <1>2, <1>3, <1>4 DEF TrueWrite

LEMMA CancelWrites ==
  ASSUME IntentInv, NEW i \in DOMAIN led, NEW c \in Cloid, NEW refused,
         ~refused => exch[led[i].scope][c] = "canceled"
  PROVE  TrueWrite(cancelRow(i, c, refused))
<1> DEFINE q == led[i].cache[c]
           r == [q EXCEPT !.st = "canceled"]
<1>1. q \in Row
  BY LedgerAt
<1>2. r \in Row /\ r.st = "canceled"
  BY <1>1 DEF Row, Terminal
<1>3. \/ cancelRow(i, c, refused) = Same
      \/ ~refused /\ cancelRow(i, c, refused) = Put(led, db, i, c, r)
  BY DEF cancelRow, markCanceled
<1> HIDE DEF r
<1> QED BY <1>2, <1>3 DEF TrueWrite, Terminal

----------------------------------------------------------------------------
(* Calls, ledgers and the exchange each change without the others.          *)

\* Ledgers come and never change their network.
LedgersGrow ==
  DOMAIN led \subseteq DOMAIN led' /\ \A j \in DOMAIN led : led'[j].scope = led[j].scope

\* The exchange settles an order once.
Settles ==
  \A n \in Network, c \in Cloid : exch[n][c] \in Terminal => exch'[n][c] = exch[n][c]

CallGood(r) ==
  /\ r \in CallRec \cup {Free}
  /\ r.kind \notin {"free", "twap"} /\ r.stage = "sent" => r.cloid \in Cloid

LEMMA CallAt ==
  ASSUME IntentInv, NEW k \in Call
  PROVE  /\ CallGood(call[k]) /\ CallScoped(call[k]) /\ ReceiptTrue(call[k])
         /\ call[k].kind # "free" => call[k] \in CallRec /\ call[k] # Free
BY DEF IntentInv, CallsType, CallGood, CallsScoped, ReceiptsTrue, Free

\* A receipt stays true whatever the exchange does next.
LEMMA ReceiptStays ==
  ASSUME Settles, NEW r, CallGood(r), ReceiptTrue(r)
  PROVE  /\ r # Free /\ r.kind # "twap" /\ r.answer # NoAnswer =>
              /\ r.stage = "sent"
              /\ r.kind = "cancel" => (r.answer # "error" => exch'[r.scope][r.cloid] = "canceled")
              /\ r.kind # "cancel" => (kindOfReceipt(r.answer) \in Terminal
                                          => exch'[r.scope][r.cloid] = kindOfReceipt(r.answer))
<1> SUFFICES ASSUME r # Free, r.kind # "twap", r.answer # NoAnswer
    PROVE /\ r.stage = "sent"
          /\ r.kind = "cancel" => (r.answer # "error" => exch'[r.scope][r.cloid] = "canceled")
          /\ r.kind # "cancel" => (kindOfReceipt(r.answer) \in Terminal
                                      => exch'[r.scope][r.cloid] = kindOfReceipt(r.answer))
  OBVIOUS
<1>1. r.stage = "sent" /\ r.scope \in Network /\ r.kind # "free"
  BY DEF CallGood, CallRec, ReceiptTrue
<1>2. r.cloid \in Cloid
  BY <1>1 DEF CallGood
<1>3. exch[r.scope][r.cloid] \in Terminal => exch'[r.scope][r.cloid] = exch[r.scope][r.cloid]
  BY <1>1, <1>2 DEF Settles
<1>4. "canceled" \in Terminal
  BY DEF Terminal
<1> QED BY <1>1, <1>3, <1>4 DEF ReceiptTrue

\* Calls that stay, and one that becomes r.
LEMMA CallsKeep ==
  ASSUME IntentInv, LedgersGrow, Settles, NEW k \in Call, NEW r,
         call' = [call EXCEPT ![k] = r], CallGood(r), CallScoped(r),
         r # Free /\ r.kind # "twap" /\ r.answer # NoAnswer =>
           /\ r.stage = "sent"
           /\ r.kind = "cancel" => (r.answer # "error" => exch'[r.scope][r.cloid] = "canceled")
           /\ r.kind # "cancel" => (kindOfReceipt(r.answer) \in Terminal
                                       => exch'[r.scope][r.cloid] = kindOfReceipt(r.answer))
  PROVE  CallsType' /\ CallsScoped' /\ ReceiptsTrue'
<1>1. \A j \in Call : call'[j] = IF j = k THEN r ELSE call[j]
  BY DEF IntentInv, CallsType
<1>2. CallsType'
  BY <1>1 DEF IntentInv, CallsType, CallGood
<1>3. CallsScoped'
  <2>1. \A q : CallScoped(q) => CallScoped(q)'
    BY DEF CallScoped, LedgersGrow
  <2> QED BY <1>1, <2>1 DEF IntentInv, CallsScoped, CallScoped
<1>4. ReceiptsTrue'
  <2> SUFFICES ASSUME NEW j \in Call PROVE ReceiptTrue(call[j])'
    BY DEF ReceiptsTrue
  <2>1. CASE j = k
    BY <1>1, <2>1 DEF ReceiptTrue
  <2>2. CASE j # k
    BY <1>1, <2>2, CallAt, ReceiptStays DEF ReceiptTrue
  <2> QED BY <2>1, <2>2
<1> QED BY <1>2, <1>3, <1>4

LEMMA CallsSame ==
  ASSUME IntentInv, LedgersGrow, Settles, UNCHANGED call
  PROVE  CallsType' /\ CallsScoped' /\ ReceiptsTrue'
<1>1. CallsType'
  BY DEF IntentInv, CallsType
<1>2. CallsScoped'
  BY DEF IntentInv, CallsScoped, CallScoped, LedgersGrow
<1>3. ReceiptsTrue'
  <2> SUFFICES ASSUME NEW j \in Call PROVE ReceiptTrue(call[j])'
    BY DEF ReceiptsTrue
  <2> QED BY CallAt, ReceiptStays DEF ReceiptTrue
<1> QED BY <1>1, <1>2, <1>3

\* The end of a call frees its slot.
LEMMA CallEnds ==
  ASSUME IntentInv, LedgersGrow, Settles, NEW k \in Call, NEW retry \in Cloid \cup {NoCloid},
         Ends(k, retry)
  PROVE  CallsType' /\ CallsScoped' /\ ReceiptsTrue' /\ FormType'
<1>1. CallGood(Free) /\ CallScoped(Free)
  BY DEF CallGood, CallScoped, Free
<1>2. CallsType' /\ CallsScoped' /\ ReceiptsTrue'
  BY <1>1, CallsKeep DEF Ends
<1>3. FormType'
  BY DEF Ends, IntentInv, FormType
<1> QED BY <1>2, <1>3

\* Only a screen moves: the ledgers, the database and the exchange stay.
LEMMA ScreenStep ==
  ASSUME IntentInv, UNCHANGED <<exch, wire, db, led, net, minted>>, cur' \in {cur, 0},
         FormType', CallsType', CallsScoped', ReceiptsTrue'
  PROVE  IntentInv'
<1>1. IntentType' /\ LedgersType' /\ StoreScoped'
  BY DEF IntentInv, IntentType, LedgersType, StoreScoped
<1>2. QueriesTrue' /\ OnlyMinted' /\ RowsGood'
  BY DEF IntentInv, QueriesTrue, QueryTrue, OnlyMinted, RowsGood, RowGood
<1> QED BY <1>1, <1>2 DEF IntentInv

LEMMA Idle == UNCHANGED led => LedgersGrow
BY DEF LedgersGrow

LEMMA Calm == UNCHANGED exch => Settles
BY DEF Settles
----------------------------------------------------------------------------
(* The screens.                                                             *)

LEMMA TapStep ==
  ASSUME IntentInv, NEW k \in Call, NEW r, Tapped(k, r),
         r \in CallRec, r.inst = cur, r.scope = net, r.answer = NoAnswer,
         r.kind \notin {"free", "twap"} /\ r.stage = "sent" => r.cloid \in Cloid,
         UNCHANGED <<led, exch>>
  PROVE  CallsType' /\ CallsScoped' /\ ReceiptsTrue'
<1>1. CallGood(r)
  BY DEF CallGood
<1>2. CallScoped(r)
  BY DEF CallScoped, Tapped, IntentInv, StoreScoped
<1> QED BY <1>1, <1>2, CallsKeep, Idle, Calm DEF Tapped

LEMMA RenderedCall ==
  ASSUME IntentInv, cur # 0, NEW kind \in {"order", "twap", "close", "cancel"},
         NEW stage \in {"prelude", "sent"}, NEW c \in Cloid \cup {NoCloid}
  PROVE  LET r == Rendered(kind, stage, c)
         IN  /\ r \in CallRec /\ r.inst = cur /\ r.scope = net /\ r.answer = NoAnswer
             /\ r.kind = kind /\ r.stage = stage /\ r.cloid = c
<1>1. cur \in Nat /\ net \in Network
  BY LenProperties DEF IntentInv, StoreScoped, IntentType, LedgersType
<1> QED BY <1>1 DEF Rendered, CallRec, Answer

LEMMA SubmitStep == ASSUME IntentInv, NEW k \in Call, onSubmit(k) PROVE IntentInv'
<1>1. PICK kind \in {"order", "twap"} :
        Tapped(k, Rendered(kind, "prelude", IF kind = "order" THEN form.retry ELSE NoCloid))
  BY DEF onSubmit
<1>2. (IF kind = "order" THEN form.retry ELSE NoCloid) \in Cloid \cup {NoCloid}
  BY DEF IntentInv, FormType
<1>3. UNCHANGED <<exch, wire, db, led, cur, net, minted>> /\ cur # 0 /\ FormType'
  BY <1>1 DEF onSubmit, Tapped, IntentInv, FormType
<1>4. CallsType' /\ CallsScoped' /\ ReceiptsTrue'
  BY <1>1, <1>2, <1>3, RenderedCall, TapStep
<1> QED BY <1>3, <1>4, ScreenStep

LEMMA CloseStep == ASSUME IntentInv, NEW k \in Call, marketClose(k) PROVE IntentInv'
<1> DEFINE q == Rendered("close", "prelude", NoCloid)
           r == [q EXCEPT !.uncertain = Uncertain(net)]
<1>1. Tapped(k, r) /\ UNCHANGED <<exch, wire, db, led, cur, net, form, minted>> /\ cur # 0
  BY DEF marketClose, Tapped
<1>2. q \in CallRec /\ q.inst = cur /\ q.scope = net /\ q.answer = NoAnswer /\ q.stage = "prelude"
  BY <1>1, RenderedCall
<1>3. Uncertain(net) \in SUBSET Cloid
  BY DEF Uncertain
<1> HIDE DEF q
<1>4. r \in CallRec /\ r.inst = cur /\ r.scope = net /\ r.answer = NoAnswer /\ r.stage = "prelude"
  BY <1>2, <1>3 DEF CallRec
<1> HIDE DEF r
<1>5. CallsType' /\ CallsScoped' /\ ReceiptsTrue'
  BY <1>1, <1>4, TapStep
<1> QED BY <1>1, <1>5, ScreenStep DEF IntentInv, FormType

LEMMA CancelStep == ASSUME IntentInv, NEW k \in Call, cancelOrder(k) PROVE IntentInv'
<1>1. PICK c \in Cloid :
        /\ exch[net][c] = "resting" /\ Tapped(k, Rendered("cancel", "sent", c))
        /\ wire' = wire \cup {Request("cancel", net, c)}
        /\ UNCHANGED <<exch, db, led, cur, net, form, minted>>
  BY DEF cancelOrder, Request
<1>2. CallsType' /\ CallsScoped' /\ ReceiptsTrue'
  <2> DEFINE r == Rendered("cancel", "sent", c)
  <2>1. /\ r \in CallRec /\ r.inst = cur /\ r.scope = net /\ r.answer = NoAnswer
        /\ r.kind = "cancel" /\ r.stage = "sent" /\ r.cloid = c
    BY <1>1, RenderedCall DEF Tapped
  <2> HIDE DEF r
  <2> QED BY <1>1, <2>1, TapStep DEF r
<1>3. \A n \in Network, d \in Cloid : Request("order", n, d) \in wire' => Request("order", n, d) \in wire
  BY <1>1 DEF Request
<1>4. IntentType'
  BY <1>1 DEF IntentInv, IntentType, Request
<1>5. LedgersType' /\ FormType' /\ StoreScoped' /\ QueriesTrue'
  BY <1>1 DEF IntentInv, LedgersType, FormType, StoreScoped, QueriesTrue, QueryTrue
<1>6. OnlyMinted' /\ RowsGood'
  BY <1>1, <1>3 DEF IntentInv, OnlyMinted, RowsGood, RowGood
<1> QED BY <1>2, <1>4, <1>5, <1>6 DEF IntentInv

LEMMA LockStep == ASSUME IntentInv, lock PROVE IntentInv'
<1>1. /\ UNCHANGED <<exch, wire, db, led, net, minted>> /\ cur' = 0 /\ FormType'
      /\ call' = [k \in Call |-> IF call[k] = Free THEN Free ELSE [call[k] EXCEPT !.mounted = FALSE]]
  BY DEF lock, FormType, FreshForm
<1>2. ASSUME NEW k \in Call, call[k] # Free
      PROVE  LET r == [call[k] EXCEPT !.mounted = FALSE]
             IN  /\ r \in CallRec /\ r.kind = call[k].kind /\ r.stage = call[k].stage
                 /\ r.inst = call[k].inst /\ r.scope = call[k].scope /\ r.cloid = call[k].cloid
                 /\ r.answer = call[k].answer
  BY <1>2, CallAt DEF CallGood, CallRec
<1>3. \A k \in Call : \/ call'[k] = Free
                      \/ /\ call[k] # Free /\ call'[k] \in CallRec /\ call'[k].kind = call[k].kind
                         /\ call'[k].stage = call[k].stage /\ call'[k].inst = call[k].inst
                         /\ call'[k].scope = call[k].scope /\ call'[k].cloid = call[k].cloid
                         /\ call'[k].answer = call[k].answer
  BY <1>1, <1>2
<1>4. CallsType'
  <2>1. call' \in [Call -> CallRec \cup {Free}]
    BY <1>1, <1>3
  <2>2. \A k \in Call : call'[k].kind \notin {"free", "twap"} /\ call'[k].stage = "sent" => call'[k].cloid \in Cloid
    BY <1>3, CallAt DEF CallGood, Free
  <2> QED BY <2>1, <2>2 DEF CallsType
<1>5. CallsScoped'
  BY <1>1, <1>3, CallAt DEF CallsScoped, CallScoped
<1>6. ReceiptsTrue'
  BY <1>1, <1>3, CallAt DEF ReceiptsTrue, ReceiptTrue
<1> QED BY <1>1, <1>4, <1>5, <1>6, ScreenStep

LEMMA FormStep ==
  ASSUME IntentInv,
         \/ clearRetry \/ reviewLatest
         \/ \E k \in Call : preludeFails(k) \/ placeTwap(k)
  PROVE  IntentInv'
<1>1. UNCHANGED <<exch, wire, db, led, cur, net, minted>>
  BY DEF clearRetry, reviewLatest, preludeFails, placeTwap
<1>2. CASE clearRetry \/ reviewLatest
  <2>1. UNCHANGED call /\ \E c \in Cloid \cup {NoCloid} : form' = [form EXCEPT !.retry = c]
    BY <1>2 DEF clearRetry, reviewLatest, recoverable
  <2>2. FormType'
    BY <2>1 DEF IntentInv, FormType
  <2> QED BY <1>1, <2>1, <2>2, CallsSame, Idle, Calm, ScreenStep
<1>3. ASSUME NEW k \in Call, preludeFails(k) \/ placeTwap(k) PROVE IntentInv'
  <2>1. Ends(k, form.retry) /\ form.retry \in Cloid \cup {NoCloid}
    BY <1>3 DEF preludeFails, placeTwap, IntentInv, FormType
  <2> QED BY <1>1, <2>1, CallEnds, Idle, Calm, ScreenStep
<1> QED BY <1>2, <1>3

----------------------------------------------------------------------------
(* The ledger's writes.                                                     *)

\* A true write, while the exchange and the wire stay.
LEMMA WriteStep ==
  ASSUME IntentInv, NEW w, TrueWrite(w), Store(w), UNCHANGED <<exch, wire, cur, net, minted>>,
         FormType', CallsType', CallsScoped', ReceiptsTrue'
  PROVE  IntentInv'
<1>1. /\ SameButCaches(led') /\ db' \in [Network -> [Cloid -> Row]]
      /\ \A n \in Network, c \in Cloid :
           RowGood(db'[n][c], exch[n][c], Request("order", n, c) \in wire)
  BY WriteKeeps DEF Store
<1>2. IntentType' /\ LedgersType' /\ StoreScoped'
  BY <1>1 DEF IntentInv, IntentType, LedgersType, StoreScoped, SameButCaches
<1>3. QueriesTrue' /\ OnlyMinted'
  BY <1>1 DEF IntentInv, QueriesTrue, QueryTrue, SameButCaches, OnlyMinted
<1>4. RowsGood'
  BY <1>1 DEF RowsGood, RowGood
<1> QED BY <1>2, <1>3, <1>4 DEF IntentInv

LEMMA WriteGrows == ASSUME IntentInv, NEW w, TrueWrite(w), Store(w) PROVE LedgersGrow
BY WriteKeeps DEF Store, SameButCaches, LedgersGrow

LEMMA AnswerStep == ASSUME IntentInv, NEW k \in Call, answered(k) PROVE IntentInv'
<1> DEFINE r == call[k]
<1>1. /\ r.kind \notin {"free", "twap"} /\ r.answer # NoAnswer /\ Ends(k, NoCloid)
      /\ UNCHANGED <<exch, wire, cur, net, minted>>
  BY DEF answered
<1>2. /\ r \in CallRec /\ r # Free /\ r.stage = "sent" /\ r.cloid \in Cloid
      /\ r.inst \in DOMAIN led /\ led[r.inst].scope = r.scope
  BY <1>1, CallAt DEF CallGood, CallScoped, ReceiptTrue
<1>3. PICK w : TrueWrite(w) /\ Store(w)
  <2>1. CASE r.kind = "cancel"
    <3>1. Store(cancelRow(r.inst, r.cloid, responseError(k)))
      BY <2>1 DEF answered
    <3>2. ~responseError(k) => exch[led[r.inst].scope][r.cloid] = "canceled"
      BY <1>1, <1>2, <2>1, CallAt DEF ReceiptTrue, responseError
    <3> QED BY <1>2, <3>1, <3>2, CancelWrites
  <2>2. CASE r.kind # "cancel"
    <3> DEFINE kind == firstOrderStatus(k)
    <3>1. Store(reconcile(r.inst, r.cloid, kind, kind # "rejected"))
      BY <2>2 DEF answered
    <3>2. kind \in Terminal => exch[led[r.inst].scope][r.cloid] = kind
      BY <1>1, <1>2, <2>2, CallAt DEF ReceiptTrue, firstOrderStatus
    <3>3. (kind # "rejected") \in BOOLEAN
      OBVIOUS
    <3> HIDE DEF kind
    <3> QED BY <1>2, <3>1, <3>2, <3>3, ReconcileWrites
  <2> QED BY <2>1, <2>2
<1>4. CallsType' /\ CallsScoped' /\ ReceiptsTrue' /\ FormType'
  BY <1>1, <1>3, CallEnds, WriteGrows, Calm
<1> QED BY <1>1, <1>3, <1>4, WriteStep
\* The catch of a lost receipt writes nothing.
LEMMA ThrowStep == ASSUME IntentInv, NEW k \in Call, throws(k) PROVE IntentInv'
<1>1. /\ Store(Same) /\ Ends(k, call[k].cloid) /\ UNCHANGED <<exch, wire, cur, net, minted>>
      /\ call[k].kind \notin {"free", "twap"} /\ call[k].stage = "sent"
  BY DEF throws, uncertainRow
<1>2. TrueWrite(Same) /\ call[k].cloid \in Cloid
  BY <1>1, CallAt DEF TrueWrite, CallGood
<1>3. CallsType' /\ CallsScoped' /\ ReceiptsTrue' /\ FormType'
  BY <1>1, <1>2, CallEnds, WriteGrows, Calm
<1> QED BY <1>1, <1>2, <1>3, WriteStep

\* The row is written before the request leaves, under the same network.
LEMMA PlaceStep == ASSUME IntentInv, NEW k \in Call, place(k) PROVE IntentInv'
<1> DEFINE q == call[k]
<1>1. q.kind \in {"order", "close"} /\ UNCHANGED <<exch, cur, net>>
  BY DEF place
<1>2. /\ q \in CallRec /\ q # Free /\ q.inst \in DOMAIN led /\ led[q.inst].scope = q.scope
      /\ q.scope \in Network
  BY <1>1, CallAt DEF CallScoped, CallRec
<1>3. PICK c \in Chosen(k) :
        /\ minted' = [minted EXCEPT ![c] = IF minted[c] = "none" THEN q.kind ELSE minted[c]]
        /\ \/ /\ Store(openAndMark(q.inst, c))
              /\ wire' = wire \cup {Request("order", q.scope, c)}
              /\ call' = [call EXCEPT ![k].stage = "sent", ![k].cloid = c]
              /\ UNCHANGED form
           \/ Store(Same) /\ Ends(k, NoCloid) /\ UNCHANGED wire
  BY DEF place, submitBuilt, Request
<1>4. c \in Cloid
  BY <1>2 DEF Chosen, Unminted, CallRec
<1>5. minted' \in [Cloid -> Origin] /\ minted'[c] # "none"
      /\ \A d \in Cloid : minted[d] # "none" => minted'[d] # "none"
  <2> DEFINE v == IF minted[c] = "none" THEN q.kind ELSE minted[c]
  <2>1. minted \in [Cloid -> Origin] /\ v \in Origin /\ v # "none"
    BY <1>1, <1>4 DEF IntentInv, IntentType, Origin
  <2>2. minted' = [minted EXCEPT ![c] = v]
    BY <1>3
  <2> HIDE DEF v
  <2> QED BY <1>4, <2>1, <2>2
<1>6. CASE /\ Store(openAndMark(q.inst, c)) /\ wire' = wire \cup {Request("order", q.scope, c)}
           /\ call' = [call EXCEPT ![k].stage = "sent", ![k].cloid = c] /\ UNCHANGED form
  <2> DEFINE w == openAndMark(q.inst, c)
             p == [q EXCEPT !.stage = "sent", !.cloid = c]
  <2>1. TrueWrite(w) /\ Store(w)
    BY <1>2, <1>4, <1>6, SubmitWrites
  <2>2. /\ SameButCaches(led') /\ db' \in [Network -> [Cloid -> Row]]
        /\ \A n \in Network, d \in Cloid :
             RowGood(db'[n][d], exch[n][d], Request("order", n, d) \in wire)
    BY <2>1, WriteKeeps DEF Store
  <2>3. db'[q.scope][c].st = "submitted"
    <3> DEFINE r == [led[q.inst].cache[c] EXCEPT !.st = "submitted"]
    <3>1. r \in Row /\ r.st = "submitted"
      BY <1>2, <1>4, LedgerAt DEF Row
    <3>2. db' = Put(led, db, q.inst, c, r).db
      BY <1>6 DEF Store, openAndMark
    <3> HIDE DEF r, q
    <3> QED BY <1>2, <1>4, <3>1, <3>2, PutKeeps
  <2>4. /\ p \in CallRec /\ p.kind = q.kind /\ p.inst = q.inst /\ p.scope = q.scope
        /\ p.answer = q.answer /\ p.stage = "sent" /\ p.cloid = c
    BY <1>2, <1>4 DEF CallRec
  <2>5. q.answer = NoAnswer
    BY <1>1, <1>2, CallAt DEF place, ReceiptTrue
  <2>6. call' = [call EXCEPT ![k] = p]
    BY <1>2, <1>6 DEF CallRec, IntentInv, CallsType
  <2>7. LedgersGrow /\ Settles
    BY <1>1, <2>1, WriteGrows, Calm
  <2> HIDE DEF w, p, q
  <2>8. CallGood(p) /\ CallScoped(p)
    BY <1>2, <1>4, <2>4 DEF CallGood, CallScoped
  <2>9. CallsType' /\ CallsScoped' /\ ReceiptsTrue'
    BY <2>4, <2>5, <2>6, <2>7, <2>8, CallsKeep
  <2>10. \A n \in Network, d \in Cloid : Request("order", n, d) \in wire' =>
           Request("order", n, d) \in wire \/ (n = q.scope /\ d = c)
    BY <1>6 DEF Request
  <2>11. IntentType'
    BY <1>1, <1>2, <1>4, <1>5, <1>6, <2>2 DEF IntentInv, IntentType, Request
  <2>12. LedgersType' /\ StoreScoped' /\ QueriesTrue' /\ FormType'
    BY <1>1, <1>6, <2>2 DEF IntentInv, LedgersType, StoreScoped, QueriesTrue, QueryTrue, FormType,
       SameButCaches
  <2>13. OnlyMinted'
    BY <1>1, <1>5, <2>10 DEF IntentInv, OnlyMinted
  <2>14. RowsGood'
    <3> SUFFICES ASSUME NEW n \in Network, NEW d \in Cloid
                 PROVE  RowGood(db[n][d], exch[n][d], Request("order", n, d) \in wire)'
      BY DEF RowsGood
    <3>1. RowGood(db'[n][d], exch[n][d], Request("order", n, d) \in wire)
      BY <2>2
    <3>2. CASE n = q.scope /\ d = c
      BY <1>1, <2>3, <3>1, <3>2 DEF RowGood
    <3>3. CASE ~(n = q.scope /\ d = c)
      BY <1>1, <2>10, <3>1, <3>3 DEF RowGood
    <3> QED BY <3>2, <3>3
  <2> QED BY <2>9, <2>11, <2>12, <2>13, <2>14 DEF IntentInv
<1>7. CASE Store(Same) /\ Ends(k, NoCloid) /\ UNCHANGED wire
  <2>1. TrueWrite(Same)
    BY DEF TrueWrite
  <2>2. CallsType' /\ CallsScoped' /\ ReceiptsTrue' /\ FormType'
    BY <1>1, <1>7, <2>1, CallEnds, WriteGrows, Calm
  <2>3. UNCHANGED <<led, db>>
    BY <1>7 DEF Store, Same
  <2>4. IntentType' /\ LedgersType' /\ StoreScoped' /\ QueriesTrue'
    BY <1>1, <1>5, <1>7, <2>3 DEF IntentInv, IntentType, LedgersType, StoreScoped, QueriesTrue, QueryTrue
  <2>5. OnlyMinted' /\ RowsGood'
    BY <1>1, <1>5, <1>7, <2>3 DEF IntentInv, OnlyMinted, RowsGood, RowGood
  <2> QED BY <2>2, <2>4, <2>5 DEF IntentInv
<1> QED BY <1>3, <1>6, <1>7
----------------------------------------------------------------------------
(* The exchange and the wire.                                               *)

\* What an exchange step keeps, given what it does to the orders.
LEMMA ExchangeStep ==
  ASSUME IntentInv, Settles, exch' \in [Network -> [Cloid -> OrderState]],
         wire' \subseteq wire, UNCHANGED <<db, led, cur, net, form, minted>>,
         \A n \in Network, c \in Cloid :
           /\ exch'[n][c] = "none" => exch[n][c] = "none"
           /\ exch'[n][c] = "resting" => exch[n][c] = "resting"
                                         \/ (exch[n][c] = "none" /\ Request("order", n, c) \in wire)
           /\ exch'[n][c] # "none" => exch[n][c] # "none" \/ Request("order", n, c) \in wire,
         CallsType', CallsScoped', ReceiptsTrue'
  PROVE  IntentInv'
<1>1. IntentType' /\ LedgersType' /\ StoreScoped' /\ FormType'
  BY DEF IntentInv, IntentType, LedgersType, StoreScoped, FormType
<1>2. QueriesTrue'
  <2> SUFFICES ASSUME NEW i \in DOMAIN led PROVE QueryTrue(led[i])'
    BY DEF QueriesTrue
  <2>1. QueryTrue(led[i]) /\ led[i].scope \in Network /\ led[i].asked \in Cloid \cup {NoCloid}
    BY LedgerAt DEF IntentInv, QueriesTrue
  <2> QED BY <2>1 DEF QueryTrue, Settles
<1>3. OnlyMinted'
  BY DEF IntentInv, OnlyMinted
<1>4. RowsGood'
  <2> SUFFICES ASSUME NEW n \in Network, NEW c \in Cloid
               PROVE  RowGood(db[n][c], exch[n][c], Request("order", n, c) \in wire)'
    BY DEF RowsGood
  <2>1. RowGood(db[n][c], exch[n][c], Request("order", n, c) \in wire)
    BY DEF IntentInv, RowsGood
  <2>2. db'[n][c].st \in Terminal => exch'[n][c] = db'[n][c].st
    BY <2>1 DEF RowGood, Settles
  <2>3. exch'[n][c] = "resting" \/ (exch'[n][c] = "none" /\ Request("order", n, c) \in wire')
          => db'[n][c].st \in {"submitted", "open"}
    BY <2>1 DEF RowGood
  <2> QED BY <2>2, <2>3 DEF RowGood
<1> QED BY <1>1, <1>2, <1>3, <1>4 DEF IntentInv

LEMMA LostStep == ASSUME IntentInv, NEW m \in wire, isLost(m) PROVE IntentInv'
<1>1. wire' \subseteq wire /\ UNCHANGED <<exch, db, led, cur, net, call, form, minted>>
  BY DEF isLost
<1> QED BY <1>1, CallsSame, Idle, Calm, ExchangeStep DEF IntentInv, IntentType

LEMMA FillStep ==
  ASSUME IntentInv, NEW n \in Network, NEW c \in Cloid, fills(n, c) PROVE IntentInv'
<1>1. /\ exch[n][c] = "resting" /\ exch' = [exch EXCEPT ![n][c] = "filled"]
      /\ UNCHANGED <<wire, db, led, cur, net, call, form, minted>>
  BY DEF fills
<1>2. exch \in [Network -> [Cloid -> OrderState]] /\ "filled" \in OrderState
  BY DEF IntentInv, IntentType, OrderState, Terminal
<1>3. exch' \in [Network -> [Cloid -> OrderState]]
  BY <1>1, <1>2
<1>4. \A p \in Network, d \in Cloid : exch'[p][d] = IF p = n /\ d = c THEN "filled" ELSE exch[p][d]
  BY <1>1, <1>2
<1>5. Settles
  BY <1>1, <1>4 DEF Settles, Terminal
<1> QED BY <1>1, <1>3, <1>4, <1>5, CallsSame, Idle, ExchangeStep

\* A request arrives, and the answer goes to a call that waits for it.
LEMMA ArriveStep == ASSUME IntentInv, NEW m \in wire, arrives(m) PROVE IntentInv'
<1> DEFINE e == exch[m.net][m.cloid]
<1>1. /\ m.what \in {"order", "cancel"} /\ m.net \in Network /\ m.cloid \in Cloid
      /\ m = Request(m.what, m.net, m.cloid)
      /\ exch \in [Network -> [Cloid -> OrderState]] /\ e \in OrderState
  BY DEF IntentInv, IntentType, Request
<1>2. PICK s :
        /\ s \in (IF m.what = "cancel" THEN {IF e = "resting" THEN "canceled" ELSE e}
                  ELSE IF e # "none" THEN {e} ELSE {"resting", "filled", "rejected"})
        /\ exch' = [exch EXCEPT ![m.net][m.cloid] = s]
        /\ \/ UNCHANGED call
           \/ \E k \in Waiting(m) : call' = [call EXCEPT ![k].answer =
                  IF m.what = "order" THEN (IF s = "rejected" THEN "error" ELSE s)
                  ELSE IF e = "resting" THEN "ok" ELSE "error"]
  BY DEF arrives
<1>3. wire' \subseteq wire /\ UNCHANGED <<db, led, cur, net, form, minted>>
  BY DEF arrives
<1>4. /\ s \in OrderState
      /\ e \in Terminal => s = e
      /\ s = "none" => e = "none"
      /\ s = "resting" => e = "resting" \/ (e = "none" /\ m.what = "order")
      /\ s # "none" => e # "none" \/ m.what = "order"
  BY <1>1, <1>2 DEF OrderState, Terminal
<1>5. \A p \in Network, d \in Cloid :
        exch'[p][d] = IF p = m.net /\ d = m.cloid THEN s ELSE exch[p][d]
  BY <1>1, <1>2
<1>6. exch' \in [Network -> [Cloid -> OrderState]]
  BY <1>1, <1>2, <1>4
<1>7. Settles
  BY <1>4, <1>5 DEF Settles
<1>8. \A n \in Network, c \in Cloid :
        /\ exch'[n][c] = "none" => exch[n][c] = "none"
        /\ exch'[n][c] = "resting" => exch[n][c] = "resting"
                                      \/ (exch[n][c] = "none" /\ Request("order", n, c) \in wire)
        /\ exch'[n][c] # "none" => exch[n][c] # "none" \/ Request("order", n, c) \in wire
  BY <1>1, <1>4, <1>5
<1>9. CallsType' /\ CallsScoped' /\ ReceiptsTrue'
  <2>1. CASE UNCHANGED call
    BY <1>3, <1>7, <2>1, CallsSame, Idle
  <2>2. ASSUME NEW k \in Waiting(m), NEW a,
               a = (IF m.what = "order" THEN (IF s = "rejected" THEN "error" ELSE s)
                    ELSE IF e = "resting" THEN "ok" ELSE "error"),
               call' = [call EXCEPT ![k].answer = a]
        PROVE  CallsType' /\ CallsScoped' /\ ReceiptsTrue'
    <3> DEFINE r == [call[k] EXCEPT !.answer = a]
    <3>1. /\ k \in Call /\ call[k].kind \notin {"free", "twap"} /\ call[k].stage = "sent"
          /\ (call[k].kind = "cancel") = (m.what = "cancel")
          /\ call[k].scope = m.net /\ call[k].cloid = m.cloid
      BY DEF Waiting
    <3>2. call[k] \in CallRec /\ call[k] # Free /\ CallScoped(call[k])
      BY <3>1, CallAt
    <3>3. a \in Answer
      BY <1>4, <2>2 DEF Answer, OrderState
    <3>4. /\ r \in CallRec /\ r.kind = call[k].kind /\ r.stage = call[k].stage /\ r.inst = call[k].inst
          /\ r.scope = call[k].scope /\ r.cloid = call[k].cloid /\ r.answer = a
      BY <3>2, <3>3 DEF CallRec
    <3>5. call' = [call EXCEPT ![k] = r]
      BY <2>2
    <3> HIDE DEF r
    <3>6. CallGood(r) /\ CallScoped(r)
      BY <1>1, <3>1, <3>2, <3>4 DEF CallGood, CallScoped
    <3>7. r.kind = "cancel" => (r.answer # "error" => exch'[r.scope][r.cloid] = "canceled")
      <4> SUFFICES ASSUME m.what = "cancel", a # "error" PROVE s = "canceled"
        BY <1>1, <1>5, <3>1, <3>4
      <4> QED BY <1>2, <2>2
    <3>8. r.kind # "cancel" => (kindOfReceipt(r.answer) \in Terminal
                                   => exch'[r.scope][r.cloid] = kindOfReceipt(r.answer))
      <4>1. m.what = "order" => kindOfReceipt(a) = s
        BY <1>4, <2>2 DEF kindOfReceipt, OrderState, Terminal
      <4> QED BY <1>1, <1>5, <3>1, <3>4, <4>1
    <3> QED BY <1>3, <1>7, <3>1, <3>4, <3>5, <3>6, <3>7, <3>8, CallsKeep, Idle
  <2> QED BY <1>2, <2>1, <2>2
<1> QED BY <1>3, <1>6, <1>7, <1>8, <1>9, ExchangeStep

----------------------------------------------------------------------------
(* The recovery.                                                            *)

\* The ledgers change at i only in what the recovery asks and was told.
LEMMA QueryStep ==
  ASSUME IntentInv, NEW L, SameButCaches(L), NEW i \in DOMAIN led,
         NEW x \in LedgerRec, x.scope = led[i].scope, QueryTrue(x),
         led' = [L EXCEPT ![i] = x],
         db' \in [Network -> [Cloid -> Row]],
         \A n \in Network, c \in Cloid :
           RowGood(db'[n][c], exch[n][c], Request("order", n, c) \in wire),
         UNCHANGED <<exch, wire, cur, net, call, form, minted>>
  PROVE  IntentInv'
<1>1. /\ led' \in Seq(LedgerRec) /\ DOMAIN led' = DOMAIN led
      /\ \A j \in DOMAIN led : led'[j] = IF j = i THEN x ELSE L[j]
  BY ExceptSeq DEF SameButCaches
<1>2. LedgersGrow
  BY <1>1 DEF LedgersGrow, SameButCaches
<1>3. CallsType' /\ CallsScoped' /\ ReceiptsTrue'
  BY <1>2, CallsSame, Calm
<1>4. IntentType' /\ LedgersType' /\ FormType' /\ OnlyMinted'
  BY <1>1 DEF IntentInv, IntentType, LedgersType, FormType, OnlyMinted
<1>5. StoreScoped'
  BY <1>1, <1>2 DEF IntentInv, StoreScoped, LedgersGrow
<1>6. QueriesTrue'
  BY <1>1 DEF IntentInv, QueriesTrue, QueryTrue, SameButCaches
<1>7. RowsGood'
  BY DEF RowsGood, RowGood
<1> QED BY <1>3, <1>4, <1>5, <1>6, <1>7 DEF IntentInv

LEMMA LedSame == IntentInv => SameButCaches(led)
BY DEF IntentInv, LedgersType, SameButCaches

LEMMA AskStep == ASSUME IntentInv, NEW i \in DOMAIN led, orderStatus(i) PROVE IntentInv'
<1>1. PICK c \in led[i].todo : led' = [led EXCEPT ![i].asked = c, ![i].answer = exch[led[i].scope][c]]
  BY DEF orderStatus
<1> DEFINE a == exch[led[i].scope][c]
           x == [led[i] EXCEPT !.asked = c, !.answer = a]
<1>2. led[i] \in LedgerRec /\ led[i].scope \in Network /\ c \in Cloid
  BY LedgerAt
<1>3. a \in Answer
  BY <1>2 DEF IntentInv, IntentType, Answer
<1>4. led' = [led EXCEPT ![i] = x]
  BY <1>1
<1>5. a = exch[led[i].scope][c]
  OBVIOUS
<1> HIDE DEF a
<1>6. x \in LedgerRec /\ x.scope = led[i].scope /\ x.asked = c /\ x.answer = a
  BY <1>2, <1>3 DEF LedgerRec
<1> HIDE DEF x
<1>7. QueryTrue(x)
  BY <1>5, <1>6 DEF QueryTrue
<1>8. UNCHANGED <<exch, wire, db, cur, net, call, form, minted>>
  BY DEF orderStatus
<1> QED BY <1>4, <1>6, <1>7, <1>8, LedSame, QueryStep DEF IntentInv, IntentType, RowsGood

\* The query is over, and what it told has been written to L.
LEMMA AskedKeeps ==
  ASSUME IntentInv, NEW i \in DOMAIN led, NEW L, SameButCaches(L)
  PROVE  \E x \in LedgerRec : x.scope = led[i].scope /\ QueryTrue(x) /\ Asked(L, i) = [L EXCEPT ![i] = x]
<1> DEFINE x == [L[i] EXCEPT !.todo = L[i].todo \ {led[i].asked}, !.asked = NoCloid, !.answer = NoAnswer]
<1>1. L[i] \in LedgerRec /\ L[i].scope = led[i].scope
  BY DEF SameButCaches
<1>2. x \in LedgerRec /\ x.scope = led[i].scope /\ x.asked = NoCloid
  BY <1>1 DEF LedgerRec, Answer
<1>3. Asked(L, i) = [L EXCEPT ![i] = x]
  BY <1>1 DEF Asked, SameButCaches, LedgerRec
<1> HIDE DEF x
<1> QED BY <1>2, <1>3 DEF QueryTrue

LEMMA ToldStep ==
  ASSUME IntentInv, NEW i \in DOMAIN led, statusArrives(i) PROVE IntentInv'
<1> DEFINE w == recovered(i)
<1>1. /\ led[i].asked # NoCloid /\ db' = w.db /\ led' = Asked(w.led, i)
      /\ UNCHANGED <<exch, wire, cur, net, call, form, minted>>
  BY DEF statusArrives
<1>2. led[i].asked \in Cloid /\ QueryTrue(led[i])
  BY <1>1, LedgerAt DEF IntentInv, QueriesTrue
<1>3. TrueWrite(w)
  <2>1. CASE led[i].answer = "none"
    BY <2>1 DEF recovered, TrueWrite
  <2>2. CASE led[i].answer # "none"
    <3> DEFINE kind == kindOfQuery(led[i].answer)
    <3>1. w = reconcile(i, led[i].asked, kind, TRUE)
      BY <2>2 DEF recovered
    <3>2. kind \in Terminal => exch[led[i].scope][led[i].asked] = kind
      BY <1>1, <1>2 DEF QueryTrue, kindOfQuery, Terminal
    <3> HIDE DEF kind, w
    <3> QED BY <1>2, <3>1, <3>2, ReconcileWrites
  <2> QED BY <2>1, <2>2
<1> HIDE DEF w
<1>4. SameButCaches(w.led) /\ w.db \in [Network -> [Cloid -> Row]]
      /\ \A n \in Network, c \in Cloid : RowGood(w.db[n][c], exch[n][c], Request("order", n, c) \in wire)
  BY <1>3, WriteKeeps
<1>5. PICK x \in LedgerRec : x.scope = led[i].scope /\ QueryTrue(x) /\ Asked(w.led, i) = [w.led EXCEPT ![i] = x]
  BY <1>4, AskedKeeps
<1> QED BY <1>1, <1>4, <1>5, QueryStep

LEMMA AskFailsStep ==
  ASSUME IntentInv, NEW i \in DOMAIN led, statusFails(i) PROVE IntentInv'
<1>1. led' = Asked(led, i) /\ UNCHANGED <<exch, wire, db, cur, net, call, form, minted>>
  BY DEF statusFails
<1>2. PICK x \in LedgerRec : x.scope = led[i].scope /\ QueryTrue(x) /\ Asked(led, i) = [led EXCEPT ![i] = x]
  BY LedSame, AskedKeeps
<1> QED BY <1>1, <1>2, LedSame, QueryStep DEF IntentInv, IntentType, RowsGood

----------------------------------------------------------------------------
(* New instances of the ledger.                                             *)

\* Pruning removes rows the exchange has settled, and nothing else.
LEMMA Pruned ==
  ASSUME IntentInv, NEW n \in Network, NEW old \in Stale(n),
         NEW D \in [Network -> [Cloid -> Row]],
         \A p \in Network, c \in Cloid :
           RowGood(D[p][c], exch[p][c], Request("order", p, c) \in wire)
  PROVE  /\ [D EXCEPT ![n] = hydrated(D, n, old)] \in [Network -> [Cloid -> Row]]
         /\ \A p \in Network, c \in Cloid :
              RowGood([D EXCEPT ![n] = hydrated(D, n, old)][p][c], exch[p][c],
                      Request("order", p, c) \in wire)
         /\ init(D, n, old) \in LedgerRec
         /\ init(D, n, old).scope = n /\ QueryTrue(init(D, n, old))
<1> DEFINE h == hydrated(D, n, old)
<1>1. NoRow \in Row /\ NoRow.st = "absent"
  BY DEF NoRow, Row
<1>2. h \in [Cloid -> Row] /\ \A c \in Cloid : h[c] = IF c \in old THEN NoRow ELSE D[n][c]
  BY <1>1 DEF hydrated
<1>3. \A c \in old : c \in Cloid /\ db[n][c].st \in Terminal
  BY DEF Stale
<1>4. \A c \in old : exch[n][c] \in Terminal
  BY <1>3 DEF IntentInv, RowsGood, RowGood
<1>5. \A sent : \A c \in Cloid : c \in old => RowGood(NoRow, exch[n][c], sent)
  BY <1>1, <1>4 DEF RowGood, Terminal
<1> HIDE DEF h
<1>6. \A c \in Cloid : RowGood(h[c], exch[n][c], Request("order", n, c) \in wire)
  BY <1>2, <1>5
<1>7. /\ [D EXCEPT ![n] = h] \in [Network -> [Cloid -> Row]]
      /\ \A p \in Network, c \in Cloid :
           RowGood([D EXCEPT ![n] = h][p][c], exch[p][c], Request("order", p, c) \in wire)
  BY <1>2, <1>6
<1>8. init(D, n, old) = [scope |-> n, cache |-> h, todo |-> recoverable(h),
                         asked |-> NoCloid, answer |-> NoAnswer]
  BY DEF init, h
<1>9. recoverable(h) \in SUBSET Cloid
  BY DEF recoverable
<1>10. init(D, n, old) \in LedgerRec /\ init(D, n, old).scope = n /\ init(D, n, old).asked = NoCloid
  BY <1>2, <1>8, <1>9 DEF LedgerRec, Answer
<1> QED BY <1>7, <1>10 DEF QueryTrue, h

LEMMA NewLedgerStep ==
  ASSUME IntentInv, NEW L \in Seq(LedgerRec), DOMAIN L = DOMAIN led,
         \A j \in DOMAIN led : L[j].scope = led[j].scope /\ QueryTrue(L[j]),
         NEW x \in LedgerRec, x.scope = net', QueryTrue(x),
         led' = Append(L, x), cur' = Len(led) + 1, net' \in Network,
         db' \in [Network -> [Cloid -> Row]],
         \A p \in Network, c \in Cloid :
           RowGood(db'[p][c], exch[p][c], Request("order", p, c) \in wire),
         minted' \in [Cloid -> Origin],
         \A c \in Cloid : minted[c] # "none" => minted'[c] # "none",
         UNCHANGED <<exch, wire>>, FormType',
         call' = call \/ call' = [k \in Call |-> Free]
  PROVE  IntentInv'
<1>1. Len(L) = Len(led) /\ Len(led) \in Nat /\ DOMAIN led = 1..Len(led)
  BY LenProperties DEF IntentInv, LedgersType
<1>2. /\ led' \in Seq(LedgerRec) /\ DOMAIN led' = 1..(Len(led) + 1)
      /\ \A j \in DOMAIN led : led'[j] = L[j]
      /\ led'[Len(led) + 1] = x
  BY <1>1, AppendProperties
<1>3. LedgersGrow
  BY <1>1, <1>2 DEF LedgersGrow
<1>4. CallsType' /\ CallsScoped' /\ ReceiptsTrue'
  <2>1. CASE call' = call
    BY <1>3, <2>1, CallsSame, Calm
  <2>2. CASE call' = [k \in Call |-> Free]
    BY <2>2 DEF CallsType, CallsScoped, CallScoped, ReceiptsTrue, ReceiptTrue, Free
  <2> QED BY <2>1, <2>2
<1>5. IntentType' /\ LedgersType'
  BY <1>2 DEF IntentInv, IntentType, LedgersType
<1>6. StoreScoped'
  BY <1>1, <1>2 DEF StoreScoped
<1>7. QueriesTrue'
  <2> SUFFICES ASSUME NEW j \in DOMAIN led' PROVE QueryTrue(led'[j])
    BY DEF QueriesTrue, QueryTrue
  <2>1. j \in DOMAIN led \/ j = Len(led) + 1
    BY <1>1, <1>2
  <2> QED BY <1>2, <2>1
<1>8. OnlyMinted' /\ RowsGood'
  BY DEF IntentInv, OnlyMinted, RowsGood, RowGood
<1> QED BY <1>4, <1>5, <1>6, <1>7, <1>8 DEF IntentInv

LEMMA RescopeStep == ASSUME IntentInv, switchNetwork \/ unlock PROVE IntentInv'
<1>1. /\ net' \in Network /\ Rescope(net')
      /\ UNCHANGED <<exch, wire, call, form, minted>>
  BY DEF switchNetwork, unlock, IntentInv, IntentType
<1>2. PICK old \in Stale(net') : /\ db' = [db EXCEPT ![net'] = hydrated(db, net', old)]
                                 /\ led' = Append(led, init(db, net', old))
                                 /\ cur' = Len(led) + 1
  BY <1>1 DEF Rescope
<1>3. /\ db' \in [Network -> [Cloid -> Row]]
      /\ \A p \in Network, c \in Cloid :
           RowGood(db'[p][c], exch[p][c], Request("order", p, c) \in wire)
      /\ init(db, net', old) \in LedgerRec /\ init(db, net', old).scope = net'
      /\ QueryTrue(init(db, net', old))
  BY <1>1, <1>2, Pruned DEF IntentInv, IntentType, RowsGood
<1>4. led \in Seq(LedgerRec) /\ (\A j \in DOMAIN led : QueryTrue(led[j])) /\ FormType'
      /\ minted' \in [Cloid -> Origin]
  BY <1>1 DEF IntentInv, LedgersType, QueriesTrue, FormType, IntentType
<1> QED BY <1>1, <1>2, <1>3, <1>4, NewLedgerStep

\* The app dies with D in the database.
LEMMA DeathStep ==
  ASSUME IntentInv, NEW D \in [Network -> [Cloid -> Row]], Dies(D),
         \A p \in Network, c \in Cloid :
           RowGood(D[p][c], exch[p][c], Request("order", p, c) \in wire),
         minted' \in [Cloid -> Origin], \A c \in Cloid : minted[c] # "none" => minted'[c] # "none"
  PROVE  IntentInv'
<1> DEFINE still(l) == [l EXCEPT !.todo = {}, !.asked = NoCloid, !.answer = NoAnswer]
           L == [i \in DOMAIN led |-> still(led[i])]
<1>0. net \in Network /\ UNCHANGED <<exch, wire, net>>
  BY DEF IntentInv, IntentType, Dies
<1>1. PICK old \in Stale(net) : /\ db' = [D EXCEPT ![net] = hydrated(D, net, old)]
                                /\ led' = Append(L, init(D, net, old))
  BY DEF Dies
<1>2. /\ db' \in [Network -> [Cloid -> Row]]
      /\ \A p \in Network, c \in Cloid :
           RowGood(db'[p][c], exch[p][c], Request("order", p, c) \in wire)
      /\ init(D, net, old) \in LedgerRec /\ init(D, net, old).scope = net
      /\ QueryTrue(init(D, net, old))
  BY <1>0, <1>1, Pruned
<1>3. \A l \in LedgerRec : still(l) \in LedgerRec /\ still(l).scope = l.scope /\ still(l).asked = NoCloid
  BY DEF LedgerRec, Answer
<1>4. led \in Seq(LedgerRec) /\ Len(led) \in Nat /\ DOMAIN led = 1..Len(led)
      /\ \A j \in DOMAIN led : led[j] \in LedgerRec
  BY LenProperties DEF IntentInv, LedgersType
<1>5. /\ \A j \in DOMAIN led : L[j] = still(led[j]) /\ L[j] \in LedgerRec
      /\ DOMAIN L = DOMAIN led
  BY <1>3, <1>4
<1> HIDE DEF still
<1>6. L \in [1..Len(led) -> LedgerRec]
  BY <1>4, <1>5
<1> HIDE DEF L
<1>7. L \in Seq(LedgerRec)
  BY <1>4, <1>6
<1>8. \A j \in DOMAIN led : L[j].scope = led[j].scope /\ QueryTrue(L[j])
  BY <1>3, <1>4, <1>5 DEF QueryTrue
<1>9. cur' = Len(led) + 1 /\ FormType' /\ call' = [k \in Call |-> Free]
  BY DEF Dies, FormType, FreshForm
<1> QED BY <1>0, <1>1, <1>2, <1>5, <1>7, <1>8, <1>9, NewLedgerStep

LEMMA DiesStep == ASSUME IntentInv, appDies \/ appDiesAfterOpen PROVE IntentInv'
<1>0. /\ db \in [Network -> [Cloid -> Row]] /\ minted \in [Cloid -> Origin]
      /\ \A p \in Network, c \in Cloid :
           RowGood(db[p][c], exch[p][c], Request("order", p, c) \in wire)
  BY DEF IntentInv, IntentType, RowsGood
<1>1. CASE appDies
  BY <1>0, <1>1, DeathStep DEF appDies
<1>2. CASE appDiesAfterOpen
  <2> DEFINE pend == [st |-> "pending", oid |-> FALSE]
  <2>1. PICK k \in Call, c \in Unminted :
          /\ call[k].kind \in {"order", "close"}
          /\ Dies([db EXCEPT ![call[k].scope][c] = pend])
          /\ minted' = [minted EXCEPT ![c] = call[k].kind]
    BY <1>2 DEF appDiesAfterOpen
  <2>2. call[k].scope \in Network
    BY <2>1, CallAt DEF CallRec
  <2>3. c \in Cloid /\ minted[c] = "none"
    BY DEF Unminted
  <2>4. \A p \in Network : exch[p][c] = "none" /\ Request("order", p, c) \notin wire
    BY <2>3 DEF IntentInv, OnlyMinted
  <2>5. pend \in Row /\ pend.st = "pending"
    BY DEF Row
  <2> HIDE DEF pend
  <2> DEFINE D == [db EXCEPT ![call[k].scope][c] = pend]
  <2>6. D \in [Network -> [Cloid -> Row]]
        /\ \A p \in Network, d \in Cloid : D[p][d] = IF p = call[k].scope /\ d = c THEN pend ELSE db[p][d]
    BY <1>0, <2>2, <2>3, <2>5
  <2>7. \A p \in Network : RowGood(pend, exch[p][c], Request("order", p, c) \in wire)
    BY <2>4, <2>5 DEF RowGood, Terminal
  <2> HIDE DEF D
  <2>8. \A p \in Network, d \in Cloid :
          RowGood(D[p][d], exch[p][d], Request("order", p, d) \in wire)
    BY <1>0, <2>6, <2>7
  <2>9. minted' \in [Cloid -> Origin] /\ \A d \in Cloid : minted[d] # "none" => minted'[d] # "none"
    BY <1>0, <2>1, <2>3 DEF Origin
  <2> QED BY <2>1, <2>6, <2>8, <2>9, DeathStep DEF D
<1> QED BY <1>1, <1>2

LEMMA IntentStep == IntentInv /\ [IntentNext]_intentVars => IntentInv'
<1> SUFFICES ASSUME IntentInv, [IntentNext]_intentVars PROVE IntentInv'
  OBVIOUS
<1>1. CASE UNCHANGED intentVars
  <2>1. UNCHANGED <<exch, wire, db, led, cur, net, call, form, minted>>
    BY <1>1 DEF intentVars
  <2> QED BY <2>1, CallsSame, Idle, Calm, ScreenStep DEF IntentInv, FormType
<1>2. CASE \E n \in Network, c \in Cloid : legsEnd(n, c)
  <2>1. UNCHANGED <<exch, wire, db, led, cur, net, call, form, minted>>
    BY <1>2 DEF legsEnd
  <2> QED BY <2>1, CallsSame, Idle, Calm, ScreenStep DEF IntentInv, FormType
<1>3. CASE IntentNext /\ ~\E n \in Network, c \in Cloid : legsEnd(n, c)
  BY <1>3, SubmitStep, CloseStep, CancelStep, LockStep, FormStep, AnswerStep, ThrowStep, PlaceStep,
     LostStep, FillStep, ArriveStep, AskStep, ToldStep, AskFailsStep, RescopeStep, DiesStep
     DEF IntentNext
<1> QED BY <1>1, <1>2, <1>3

LEMMA IntentStart == IntentInit => IntentInv
<1> SUFFICES ASSUME IntentInit PROVE IntentInv
  OBVIOUS
<1>1. PICK n \in Network : net = n /\ led = <<init(db, n, {})>>
  BY DEF IntentInit
<1>2. NoRow \in Row /\ NoRow.st = "absent"
  BY DEF NoRow, Row
<1>3. db \in [Network -> [Cloid -> Row]] /\ \A p \in Network, c \in Cloid : db[p][c] = NoRow
  BY <1>2 DEF IntentInit, EmptyTable
<1>4. exch \in [Network -> [Cloid -> OrderState]] /\ \A p \in Network, c \in Cloid : exch[p][c] = "none"
  BY DEF IntentInit, OrderState
<1>5. IntentType /\ FormType
  BY <1>1, <1>3, <1>4 DEF IntentType, FormType, IntentInit, FreshForm, Origin
<1> DEFINE x == init(db, n, {})
           h == hydrated(db, n, {})
<1>6. h \in [Cloid -> Row] /\ recoverable(h) \in SUBSET Cloid
  BY <1>2, <1>3 DEF hydrated, recoverable
<1>7. x = [scope |-> n, cache |-> h, todo |-> recoverable(h), asked |-> NoCloid, answer |-> NoAnswer]
  BY DEF init
<1> HIDE DEF h
<1>8. x \in LedgerRec /\ x.scope = n /\ x.asked = NoCloid
  BY <1>6, <1>7 DEF LedgerRec, Answer
<1> HIDE DEF x
<1>9. led = <<x>> /\ led \in Seq(LedgerRec) /\ DOMAIN led = {1} /\ led[1] = x
  BY <1>1, <1>8 DEF x
<1>10. LedgersType /\ StoreScoped /\ QueriesTrue
  BY <1>1, <1>8, <1>9 DEF LedgersType, StoreScoped, QueriesTrue, QueryTrue, IntentInit
<1>11. CallsType /\ CallsScoped /\ ReceiptsTrue
  BY DEF IntentInit, CallsType, CallsScoped, CallScoped, ReceiptsTrue, ReceiptTrue, Free
<1>12. wire = {}
  BY DEF IntentInit
<1>13. OnlyMinted /\ RowsGood
  BY <1>2, <1>3, <1>4, <1>12 DEF OnlyMinted, RowsGood, RowGood, Terminal
<1> QED BY <1>5, <1>10, <1>11, <1>13 DEF IntentInv

LEMMA IntentInvariant == IntentSpec => []IntentInv
BY IntentStart, IntentStep, PTL DEF IntentSpec

\* However calls, crashes, new instances, prunes and recoveries interleave, an order that
\* rests or is on its way has an unsettled row on its own network.
THEOREM OrdersAreRemembered == IntentSpec => []NothingForgotten
<1>1. IntentInv => NothingForgotten
  BY DEF IntentInv, RowsGood, RowGood, NothingForgotten, Request
<1> QED BY <1>1, IntentInvariant, PTL

\* A row is settled only as the exchange settled the order.
THEOREM SettledRowsAreTrue == IntentSpec => []LedgerHonest
<1>1. IntentInv => LedgerHonest
  BY DEF IntentInv, RowsGood, RowGood, LedgerHonest
<1> QED BY <1>1, IntentInvariant, PTL
=============================================================================
