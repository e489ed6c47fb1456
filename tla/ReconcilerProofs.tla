-------------------------- MODULE ReconcilerProofs --------------------------
(***************************************************************************)
(* Theorems about the reconciler over the ledger, for every set of keys,   *)
(* cloids and instances, every list of accounts, every lookback and every  *)
(* number of failed passes and handovers.                                  *)
(***************************************************************************)
EXTENDS Reconciler, LedgerProofs

\* The exchange bears out status s of an order: s is how it ended, or it traded.
Supported(k, c, s) ==
    /\ s \in {"canceled", "rejected"} => order[k][c] = s
    /\ s = "filled" => lastFill[k][c] # 0

Reported == {"none", "submitted", "open"} \cup Terminal

ExchangeType ==
    /\ order \in [Key -> [Cloid -> {"none", "resting"} \cup Terminal]]
    /\ lastFill \in [Key -> [Cloid -> Nat]]
    /\ report \in [Key -> [Cloid -> Reported]]

PassType ==
    /\ recPc \in [Poller -> {"idle", "open", "fills", "batch", "reap", "answered"}]
    /\ acct \in [Poller -> Nat]
    /\ open \in [Poller -> SUBSET Cloid]
    /\ fills \in [Poller -> SUBSET Cloid]
    /\ todo \in [Poller -> SUBSET Cloid]
    /\ target \in [Poller -> [cloid : Cloid \cup {NoCloid}, status : Reported]]

\* A report under way, and a filled order, are borne out by the exchange.
ReportTruth ==
    \A k \in Key, c \in Cloid :
        /\ Supported(k, c, report[k][c])
        /\ order[k][c] = "filled" => lastFill[k][c] # 0

\* A pass is at one of the accounts; what it is about to write into the ledger is
\* borne out, however long ago it was read: a cloid of the batch rested when it was
\* read or has traded, and an answered query told how the order ended.
PassOK(p) ==
    recPc[p] # "idle" =>
        /\ acct[p] \in 1..Len(Accounts)
        /\ recPc[p] = "batch" =>
              \A c \in todo[p] : c \in open[p] \/ lastFill[key(p)][c] # 0
        /\ recPc[p] = "answered" =>
              /\ target[p].cloid \in Cloid
              /\ Supported(key(p), target[p].cloid, target[p].status)

PassTruth == \A p \in Poller : PassOK(p)

TruthInv == TypeOK /\ ExchangeType /\ PassType /\ ReportTruth /\ PassTruth /\ TerminalTruth

\* A list of accounts that a pass can be at.
LEMMA AccountIsKey ==
    ASSUME NEW n \in 1..Len(Accounts)
    PROVE  Accounts[n] \in Key
BY ReconcilerAssumption

LEMMA FirstAccount == Len(Accounts) \in Nat /\ Len(Accounts) >= 1
BY ReconcilerAssumption

LEMMA KeyOfPass ==
    ASSUME PassTruth, NEW p \in Poller, recPc[p] # "idle"
    PROVE  key(p) \in Key
BY AccountIsKey DEF PassTruth, PassOK, key

------------------------------------------------------------------------------
(* What a step does to the exchange: ends stay, trades stay. *)

\* Whatever happens next, what the exchange bears out it keeps bearing out.
LEMMA SupportStays ==
    ASSUME TypeOK, ExchangeType, [ReconcilerNext]_reconcilerVars,
           NEW k \in Key, NEW c \in Cloid
    PROVE  /\ \A s : Supported(k, c, s) => Supported(k, c, s)'
           /\ lastFill[k][c] # 0 => lastFill'[k][c] # 0
<1>0. now # 0
  BY DEF TypeOK
<1>1. ASSUME NEW j \in Key, NEW b \in Cloid, NEW answer \in {"resting", "filled", "rejected", "refused"},
             Submit(j, b, answer)
      PROVE  /\ \A s : Supported(k, c, s) => Supported(k, c, s)'
             /\ lastFill[k][c] # 0 => lastFill'[k][c] # 0
  BY <1>0, <1>1 DEF Submit, Supported, ExchangeType
<1>2. ASSUME NEW j \in Key, NEW b \in Cloid, NEW after \in {"resting", "filled"},
             FillOrder(j, b, after)
      PROVE  /\ \A s : Supported(k, c, s) => Supported(k, c, s)'
             /\ lastFill[k][c] # 0 => lastFill'[k][c] # 0
  BY <1>0, <1>2 DEF FillOrder, Supported, ExchangeType
<1>3. ASSUME NEW j \in Key, NEW b \in Cloid, CancelOrder(j, b)
      PROVE  /\ \A s : Supported(k, c, s) => Supported(k, c, s)'
             /\ lastFill[k][c] # 0 => lastFill'[k][c] # 0
  BY <1>3 DEF CancelOrder, Supported, ExchangeType
<1>4. ASSUME UNCHANGED <<order, lastFill>>
      PROVE  /\ \A s : Supported(k, c, s) => Supported(k, c, s)'
             /\ lastFill[k][c] # 0 => lastFill'[k][c] # 0
  BY <1>4 DEF Supported
<1>5. \/ \E j \in Key, b \in Cloid, answer \in {"resting", "filled", "rejected", "refused"} :
            Submit(j, b, answer)
      \/ \E j \in Key, b \in Cloid, after \in {"resting", "filled"} : FillOrder(j, b, after)
      \/ \E j \in Key, b \in Cloid : CancelOrder(j, b)
      \/ UNCHANGED <<order, lastFill>>
  BY DEF ReconcilerNext, Step, World, Sign, ReportArrives, PassBegin, OpenCloids,
         FillsByCloidSince, Batch, BatchDone, OrderStatus, Reap, NextAccount, PassDone,
         PassFails, EndPass, Handover, ReconcilerTick, reconcilerVars, exchangeVars
<1> QED BY <1>1, <1>2, <1>3, <1>4, <1>5

\* Reports and the exchange's own books stay borne out.
LEMMA ReportStep ==
    ASSUME TypeOK, ExchangeType, ReportTruth, [ReconcilerNext]_reconcilerVars
    PROVE  ExchangeType' /\ ReportTruth'
<1>0. now \in Nat \ {0}
  BY LedgerAssumption DEF TypeOK
<1>1. ASSUME NEW j \in Key, NEW b \in Cloid, NEW answer \in {"resting", "filled", "rejected", "refused"},
             Submit(j, b, answer)
      PROVE  ExchangeType' /\ ReportTruth'
  <2>1. order' = (IF answer = "refused" THEN order ELSE [order EXCEPT ![j][b] = answer])
        /\ report' = [report EXCEPT ![j][b] = reconcileStatusFromRes(answer)]
        /\ lastFill' = IF answer = "filled" THEN [lastFill EXCEPT ![j][b] = now] ELSE lastFill
    BY <1>1 DEF Submit
  <2>2. reconcileStatusFromRes(answer) \in Reported
    BY DEF reconcileStatusFromRes, Reported, Terminal
  <2>3. ExchangeType'
    BY <1>0, <2>1, <2>2 DEF ExchangeType, Terminal
  <2>4. ASSUME NEW k \in Key, NEW c \in Cloid, k # j \/ c # b
        PROVE  /\ Supported(k, c, report[k][c])'
               /\ order'[k][c] = "filled" => lastFill'[k][c] # 0
    BY <2>1, <2>4 DEF Supported, ExchangeType, ReportTruth
  <2>5. /\ Supported(j, b, report[j][b])'
        /\ order'[j][b] = "filled" => lastFill'[j][b] # 0
    <3>1. CASE answer = "refused"
      <4>1. report'[j][b] = "submitted" /\ order' = order /\ lastFill' = lastFill
        BY <2>1, <3>1 DEF ExchangeType, reconcileStatusFromRes
      <4> QED BY <4>1 DEF Supported, ReportTruth
    <3>2. CASE answer # "refused"
      BY <1>0, <2>1, <3>2 DEF Supported, ExchangeType, reconcileStatusFromRes
    <3> QED BY <3>1, <3>2
  <2> QED BY <2>3, <2>4, <2>5 DEF ReportTruth
<1>2. ASSUME NEW j \in Key, NEW b \in Cloid, NEW after \in {"resting", "filled"},
             FillOrder(j, b, after)
      PROVE  ExchangeType' /\ ReportTruth'
  <2>1. order[j][b] = "resting" /\ order' = [order EXCEPT ![j][b] = after]
        /\ lastFill' = [lastFill EXCEPT ![j][b] = now] /\ report' = report
    BY <1>2 DEF FillOrder
  <2>2. ExchangeType'
    BY <1>0, <2>1 DEF ExchangeType, Terminal
  <2> QED BY <1>0, <2>1, <2>2 DEF Supported, ExchangeType, ReportTruth
<1>3. ASSUME NEW j \in Key, NEW b \in Cloid, CancelOrder(j, b)
      PROVE  ExchangeType' /\ ReportTruth'
  <2>1. order[j][b] = "resting" /\ order' = [order EXCEPT ![j][b] = "canceled"]
        /\ lastFill' = lastFill /\ report' = report
    BY <1>3 DEF CancelOrder
  <2>2. ExchangeType'
    BY <2>1 DEF ExchangeType, Terminal
  <2> QED BY <2>1, <2>2 DEF Supported, ExchangeType, ReportTruth
<1>4. ASSUME NEW j \in Key, NEW b \in Cloid, ReportArrives(j, b)
      PROVE  ExchangeType' /\ ReportTruth'
  <2>1. report' = [report EXCEPT ![j][b] = "none"] /\ order' = order /\ lastFill' = lastFill
    BY <1>4 DEF ReportArrives
  <2>2. ExchangeType'
    BY <2>1 DEF ExchangeType, Reported
  <2> QED BY <2>1, <2>2 DEF Supported, ExchangeType, ReportTruth
<1>5. CASE UNCHANGED exchangeVars
  BY <1>5 DEF exchangeVars, ExchangeType, ReportTruth, Supported
<1> QED BY <1>1, <1>2, <1>3, <1>4, <1>5
        DEF ReconcilerNext, Step, World, Sign, PassBegin, OpenCloids,
            FillsByCloidSince, Batch, BatchDone, OrderStatus, Reap, NextAccount, PassDone,
            PassFails, EndPass, Handover, ReconcilerTick, reconcilerVars

------------------------------------------------------------------------------
(* What a step does to the ledger. *)

\* A status that reconcileOne writes for a known key and cloid.
LEMMA ReconcileOneStep ==
    ASSUME TypeOK, NEW k \in Key, NEW c \in Cloid, NEW s \in Reported, reconcileOne(k, c, s)
    PROVE  /\ UNCHANGED ledgerVars \/ (s \in Report /\ Reconcile(k, c, s))
           /\ \A j \in Key, b \in Cloid :
                 \/ records'[j][b].status = records[j][b].status
                 \/ j = k /\ b = c /\ records'[j][b].status = s
<1>1. CASE records[k][c] # Absent /\ CanTransition(records[k][c].status, s)
  <2>1. Reconcile(k, c, s)
    BY <1>1 DEF reconcileOne
  <2>2. records[k][c] \in Record
    BY <1>1 DEF TypeOK
  <2>3. s # "none"
    BY <1>1, <2>2 DEF CanTransition, Record, Status, Open, Terminal, allowedTransitions
  <2>4. s \in Report
    BY <2>3, ReconcilerAssumption DEF Reported
  <2>5. records' = [records EXCEPT ![k][c] = [records[k][c] EXCEPT !.status = s]]
    BY <2>1, <2>4, ReconcileEffect
  <2>6. records \in [Key -> [Cloid -> Record \cup {Absent}]]
    BY DEF TypeOK
  <2>7. [records[k][c] EXCEPT !.status = s].status = s
    BY <2>2 DEF Record
  <2> QED BY <2>1, <2>4, <2>5, <2>6, <2>7
<1>2. CASE ~(records[k][c] # Absent /\ CanTransition(records[k][c].status, s))
  BY <1>2 DEF reconcileOne, storeVars, history, books, ledgerVars
<1> QED BY <1>1, <1>2

\* Every step of the reconciler, the traders or the exchange is a step of the ledger
\* or leaves it alone, and a status it writes is "signed" or borne out.
LEMMA LedgerEffect ==
    ASSUME TruthInv, [ReconcilerNext]_reconcilerVars
    PROVE  /\ [Next]_ledgerVars
           /\ \A k \in Key, c \in Cloid :
                \/ records'[k][c].status = records[k][c].status
                \/ records'[k][c].status = "signed"
                \/ Supported(k, c, records'[k][c].status)
<1>t. TypeOK /\ ExchangeType /\ PassType /\ ReportTruth /\ PassTruth
  BY DEF TruthInv
<1> DEFINE Good == \A k \in Key, c \in Cloid :
                \/ records'[k][c].status = records[k][c].status
                \/ records'[k][c].status = "signed"
                \/ Supported(k, c, records'[k][c].status)
<1>1. ASSUME NEW j \in Key, NEW b \in Cloid, Sign(j, b)
      PROVE  [Next]_ledgerVars /\ Good
  <2>1. PICK d \in Digest, n \in Notional : AuthorizeFresh(MakeRequest(j, b, d, n, 1, now))
    BY <1>1 DEF Sign
  <2> DEFINE r == MakeRequest(j, b, d, n, 1, now)
  <2>2. now \in (now - MaxLag)..now
    BY <1>t, LedgerAssumption DEF TypeOK
  <2>3. r \in Request
    BY <2>2, ReconcilerAssumption DEF Request
  <2>4. Next
    BY <2>1, <2>3 DEF Next, Authorize
  <2>5. AuthorizeFresh(r)
    BY <2>1
  <2> HIDE DEF r
  <2>6. r.key \in Key /\ r.cloid \in Cloid
        /\ records' = [records EXCEPT ![r.key][r.cloid] =
                            [nonce  |-> Granted(sw[r.key], r).lastNonce,
                             digest |-> r.digest, status |-> "signed"]]
    BY <1>t, <2>3, <2>5, FreshEffect
  <2>7. Good
    BY <1>t, <2>6 DEF TypeOK
  <2> QED BY <2>4, <2>7
<1>2. ASSUME NEW k \in Key, NEW c \in Cloid, NEW s \in Reported, reconcileOne(k, c, s),
             Supported(k, c, s)
      PROVE  [Next]_ledgerVars /\ Good
  BY <1>t, <1>2, ReconcileOneStep DEF Next
<1>3. ASSUME NEW j \in Key, NEW b \in Cloid, ReportArrives(j, b)
      PROVE  [Next]_ledgerVars /\ Good
  <2>1. report[j][b] \in Reported /\ Supported(j, b, report[j][b])
    BY <1>t DEF ExchangeType, ReportTruth
  <2>2. reconcileOne(j, b, report[j][b])
    BY <1>3 DEF ReportArrives
  <2> QED BY <1>2, <2>1, <2>2
<1>4. ASSUME NEW p \in Poller, NEW c \in Cloid, Batch(p, c)
      PROVE  [Next]_ledgerVars /\ Good
  <2>1. key(p) \in Key /\ (c \in open[p] \/ lastFill[key(p)][c] # 0)
    BY <1>t, <1>4, KeyOfPass DEF Batch, PassTruth, PassOK
  <2>2. targetFor(p, c) \in Reported /\ Supported(key(p), c, targetFor(p, c))
    BY <2>1 DEF targetFor, Supported, Reported, Terminal
  <2>3. reconcileOne(key(p), c, targetFor(p, c))
    BY <1>4 DEF Batch
  <2> QED BY <1>2, <2>1, <2>2, <2>3
<1>5. ASSUME NEW p \in Poller, Reap(p)
      PROVE  [Next]_ledgerVars /\ Good
  <2>1. recPc[p] = "answered" /\ reconcileOne(key(p), target[p].cloid, target[p].status)
    BY <1>5 DEF Reap
  <2>2. key(p) \in Key /\ target[p].cloid \in Cloid /\ target[p].status \in Reported
        /\ Supported(key(p), target[p].cloid, target[p].status)
    BY <1>t, <2>1, KeyOfPass DEF PassTruth, PassOK, PassType
  <2> QED BY <1>2, <2>1, <2>2
<1>6. ASSUME ReconcilerTick PROVE [Next]_ledgerVars /\ Good
  BY <1>6 DEF ReconcilerTick, Next, LedgerTick
<1>7. ASSUME UNCHANGED <<storeVars, now>> PROVE [Next]_ledgerVars /\ Good
  BY <1>7 DEF storeVars, history, books, ledgerVars
<1> HIDE DEF Good
<1>8. [Next]_ledgerVars /\ Good
  BY <1>1, <1>3, <1>4, <1>5, <1>6, <1>7
     DEF ReconcilerNext, Step, World, Submit, FillOrder, CancelOrder, PassBegin, OpenCloids,
         FillsByCloidSince, BatchDone, OrderStatus, NextAccount, PassDone,
         PassFails, EndPass, Handover, reconcilerVars
<1> QED BY <1>8 DEF Good

------------------------------------------------------------------------------
(* What a step does to the passes under way. *)

\* A pass that a step leaves alone stays borne out: the exchange forgets nothing.
LEMMA IdlePassStays ==
    ASSUME TypeOK, ExchangeType, PassType, PassTruth, [ReconcilerNext]_reconcilerVars,
           NEW p \in Poller,
           recPc'[p] = recPc[p], acct'[p] = acct[p], open'[p] = open[p], todo'[p] = todo[p],
           target'[p] = target[p]
    PROVE  PassOK(p)'
<1>1. CASE recPc[p] = "idle"
  BY <1>1 DEF PassOK
<1>2. CASE recPc[p] # "idle"
  <2>1. PassOK(p) /\ key(p) \in Key /\ key(p)' = key(p)
    BY <1>2, KeyOfPass DEF PassTruth, PassOK, key
  <2>2. \A c \in todo[p] : lastFill[key(p)][c] # 0 => lastFill'[key(p)][c] # 0
    BY <2>1, SupportStays DEF PassType
  <2>3. ASSUME target[p].cloid \in Cloid, Supported(key(p), target[p].cloid, target[p].status)
        PROVE  Supported(key(p), target[p].cloid, target[p].status)'
    <3>1. \A t : Supported(key(p), target[p].cloid, t) => Supported(key(p), target[p].cloid, t)'
      <4>1. \A c \in Cloid : \A t : Supported(key(p), c, t) =>
               /\ t \in {"canceled", "rejected"} => order'[key(p)][c] = t
               /\ t = "filled" => lastFill'[key(p)][c] # 0
        BY <2>1, SupportStays DEF Supported
      <4> QED BY <2>1, <2>3, <4>1 DEF Supported
    <3> QED BY <2>1, <2>3, <3>1 DEF Supported
  <2> QED BY <1>2, <2>1, <2>2, <2>3 DEF PassOK
<1> QED BY <1>1, <1>2

LEMMA PassStep ==
    ASSUME TypeOK, ExchangeType, PassType, ReportTruth, PassTruth,
           [ReconcilerNext]_reconcilerVars
    PROVE  PassType' /\ PassTruth'
<1> SUFFICES PassType' /\ \A q \in Poller : PassOK(q)'
  BY DEF PassTruth
<1>1. ASSUME UNCHANGED pass PROVE PassType' /\ \A q \in Poller : PassOK(q)'
  BY <1>1, IdlePassStays DEF pass, PassType
<1>2. ASSUME NEW p \in Poller, Step(p) \/ PassFails(p)
      PROVE  PassType' /\ \A q \in Poller : PassOK(q)'
  <2>0. \A q \in Poller : q # p =>
            /\ recPc'[q] = recPc[q] /\ acct'[q] = acct[q] /\ open'[q] = open[q]
            /\ todo'[q] = todo[q] /\ target'[q] = target[q]
    BY <1>2 DEF Step, PassBegin, OpenCloids, FillsByCloidSince, Batch, BatchDone, OrderStatus,
                Reap, NextAccount, PassDone, PassFails, EndPass, RecGoto, PassType
  <2>1. \A q \in Poller : q # p => PassOK(q)'
    BY <2>0, IdlePassStays
  <2>2. CASE PassBegin(p)
    <3>1. PassType'
      BY <2>2 DEF PassBegin, RecGoto, PassType
    <3>2. PassOK(p)'
      BY <2>2, FirstAccount DEF PassBegin, RecGoto, PassType, PassOK
    <3> QED BY <2>1, <3>1, <3>2
  <2>3. CASE OpenCloids(p)
    <3>1. PassType'
      BY <2>3 DEF OpenCloids, RecGoto, PassType
    <3>2. PassOK(p)'
      BY <2>3 DEF OpenCloids, RecGoto, PassType, PassOK, PassTruth
    <3> QED BY <2>1, <3>1, <3>2
  <2>4. CASE FillsByCloidSince(p)
    <3>1. PassType'
      BY <2>4 DEF FillsByCloidSince, RecGoto, PassType
    <3>2. PassOK(p)'
      <4>1. recPc'[p] = "batch" /\ acct'[p] = acct[p] /\ open'[p] = open[p]
            /\ lastFill' = lastFill /\ recPc[p] = "fills"
        BY <2>4 DEF FillsByCloidSince, RecGoto, PassType, exchangeVars
      <4>2. \A c \in todo'[p] : c \in open[p] \/ lastFill[key(p)][c] # 0
        BY <2>4 DEF FillsByCloidSince, PassType
      <4>3. key(p)' = key(p) /\ acct[p] \in 1..Len(Accounts)
        BY <4>1 DEF key, PassTruth, PassOK
      <4> QED BY <4>1, <4>2, <4>3 DEF PassOK
    <3> QED BY <2>1, <3>1, <3>2
  <2>5. ASSUME NEW c \in Cloid, Batch(p, c) PROVE PassType' /\ \A q \in Poller : PassOK(q)'
    <3>1. PassType'
      BY <2>5 DEF Batch, PassType
    <3>2. PassOK(p)'
      <4>1. recPc' = recPc /\ acct' = acct /\ open' = open /\ lastFill' = lastFill
            /\ todo'[p] \subseteq todo[p] /\ recPc[p] = "batch"
        BY <2>5 DEF Batch, PassType, exchangeVars
      <4> QED BY <4>1 DEF PassOK, PassTruth, key
    <3> QED BY <2>1, <3>1, <3>2
  <2>6. CASE BatchDone(p)
    <3>1. PassType'
      <4>1. ToReap(p) \subseteq Cloid
        BY DEF ToReap, group
      <4> QED BY <2>6, <4>1 DEF BatchDone, RecGoto, PassType
    <3>2. PassOK(p)'
      BY <2>6 DEF BatchDone, RecGoto, PassType, PassOK, PassTruth
    <3> QED BY <2>1, <3>1, <3>2
  <2>7. ASSUME NEW c \in Cloid, OrderStatus(p, c)
        PROVE  PassType' /\ \A q \in Poller : PassOK(q)'
    <3>0. recPc[p] = "reap" /\ key(p) \in Key /\ acct[p] \in 1..Len(Accounts)
      BY <2>7, KeyOfPass DEF OrderStatus, PassTruth, PassOK
    <3>1. CASE order[key(p)][c] = "none"
      <4>1. recPc' = recPc /\ target' = target /\ acct' = acct /\ open' = open /\ fills' = fills
            /\ todo' = [todo EXCEPT ![p] = @ \ {c}]
        BY <2>7, <3>1 DEF OrderStatus
      <4>2. PassType'
        BY <4>1 DEF PassType
      <4>3. PassOK(p)'
        BY <3>0, <4>1 DEF PassOK
      <4> QED BY <2>1, <4>2, <4>3
    <3>2. CASE order[key(p)][c] # "none"
      <4> DEFINE s == reapTarget(order[key(p)][c])
      <4>1. recPc' = [recPc EXCEPT ![p] = "answered"] /\ acct' = acct /\ open' = open
            /\ fills' = fills /\ todo' = [todo EXCEPT ![p] = @ \ {c}]
            /\ target' = [target EXCEPT ![p] = [cloid |-> c, status |-> s]]
            /\ order' = order /\ lastFill' = lastFill
        BY <2>7, <3>2 DEF OrderStatus, RecGoto, exchangeVars
      <4>2. order[key(p)][c] \in {"resting"} \cup Terminal
        BY <3>0, <3>2 DEF ExchangeType
      <4>3. s \in Reported
        BY <4>2 DEF reapTarget, Reported, Terminal
      <4>4. Supported(key(p), c, s)
        BY <3>0, <4>2 DEF reapTarget, Supported, ReportTruth, Terminal
      <4> HIDE DEF s
      <4>5. PassType'
        BY <4>1, <4>3 DEF PassType
      <4>6. key(p)' = key(p) /\ recPc'[p] = "answered" /\ target'[p].cloid = c
            /\ target'[p].status = s
        BY <4>1 DEF key, PassType
      <4>7. PassOK(p)'
        BY <3>0, <4>1, <4>4, <4>6 DEF PassOK, Supported
      <4> QED BY <2>1, <4>5, <4>7
    <3> QED BY <3>1, <3>2
  <2>8. CASE Reap(p)
    <3>1. PassType'
      BY <2>8 DEF Reap, RecGoto, PassType, NoTarget, Reported
    <3>2. PassOK(p)'
      BY <2>8 DEF Reap, RecGoto, PassType, PassOK, PassTruth
    <3> QED BY <2>1, <3>1, <3>2
  <2>9. CASE NextAccount(p)
    <3>1. PassType'
      BY <2>9 DEF NextAccount, RecGoto, PassType
    <3>2. PassOK(p)'
      <4>1. acct[p] \in 1..Len(Accounts) /\ acct[p] < Len(Accounts) /\ acct'[p] = acct[p] + 1
            /\ recPc'[p] = "open"
        BY <2>9 DEF NextAccount, RecGoto, PassType, PassTruth, PassOK
      <4> QED BY <4>1, FirstAccount DEF PassOK
    <3> QED BY <2>1, <3>1, <3>2
  <2>10. CASE PassDone(p) \/ PassFails(p)
    <3>0. EndPass(p)
      BY <2>10 DEF PassDone, PassFails
    <3>1. PassType'
      BY <3>0 DEF EndPass, RecGoto, PassType, NoTarget, Reported
    <3>2. PassOK(p)'
      BY <3>0 DEF EndPass, RecGoto, PassType, PassOK
    <3> QED BY <2>1, <3>1, <3>2
  <2> QED BY <1>2, <2>2, <2>3, <2>4, <2>5, <2>6, <2>7, <2>8, <2>9, <2>10 DEF Step
<1> QED BY <1>1, <1>2
        DEF ReconcilerNext, World, Sign, Submit, FillOrder, CancelOrder, ReportArrives,
            Handover, ReconcilerTick, reconcilerVars

------------------------------------------------------------------------------
(* The inductive invariant and the theorems. *)

LEMMA TruthInit == ReconcilerInit => TruthInv
<1> SUFFICES ASSUME ReconcilerInit PROVE TruthInv
  OBVIOUS
<1>1. TypeOK
  BY TypeInit DEF ReconcilerInit
<1>2. ExchangeType /\ PassType
  BY DEF ReconcilerInit, ExchangeType, PassType, Reported, NoTarget
<1>3. ReportTruth /\ PassTruth
  BY DEF ReconcilerInit, ReportTruth, PassTruth, PassOK, Supported
<1>4. TerminalTruth
  <2>1. \A k \in Key, c \in Cloid : records[k][c].status = "absent"
    BY DEF ReconcilerInit, Init, Absent
  <2> QED BY <2>1 DEF TerminalTruth
<1> QED BY <1>1, <1>2, <1>3, <1>4 DEF TruthInv

LEMMA TruthStep == TruthInv /\ [ReconcilerNext]_reconcilerVars => TruthInv'
<1> SUFFICES ASSUME TruthInv, [ReconcilerNext]_reconcilerVars PROVE TruthInv'
  OBVIOUS
<1>1. TypeOK'
  BY LedgerEffect, TypeStep DEF TruthInv
<1>2. ExchangeType' /\ ReportTruth'
  BY ReportStep DEF TruthInv
<1>3. PassType' /\ PassTruth'
  BY PassStep DEF TruthInv
<1>4. TerminalTruth'
  <2> SUFFICES ASSUME NEW k \in Key, NEW c \in Cloid
               PROVE  Supported(k, c, records[k][c].status)'
    BY DEF TerminalTruth, Supported
  <2>1. Supported(k, c, records[k][c].status)
    BY DEF TruthInv, TerminalTruth, Supported
  <2>2. records'[k][c].status = "signed" \/ Supported(k, c, records'[k][c].status)
    BY <2>1, LedgerEffect
  <2>3. \A s : Supported(k, c, s) =>
           /\ s \in {"canceled", "rejected"} => order'[k][c] = s
           /\ s = "filled" => lastFill'[k][c] # 0
    BY SupportStays DEF TruthInv, Supported
  <2> QED BY <2>2, <2>3 DEF Supported
<1> QED BY <1>1, <1>2, <1>3, <1>4 DEF TruthInv

LEMMA TruthInvariant == ReconcilerSpec => []TruthInv
BY TruthInit, TruthStep, PTL DEF ReconcilerSpec

\* Whatever the polls, the late reports and the passes of deposed instances write, a
\* canceled or rejected record ended that way at the exchange and a filled one traded.
THEOREM TerminalRecordsTrue == ReconcilerSpec => []TerminalTruth
<1>1. TruthInv => TerminalTruth
  BY DEF TruthInv
<1> QED BY <1>1, TruthInvariant, PTL

\* Reconciliation drives the ledger only through its own transactions: every run of
\* pollers, traders and exchange is a run of the ledger, so the intents it settles keep
\* the nonces they were given.
THEOREM ReconcilerDrivesLedger == ReconcilerSpec => Spec /\ []OneIntentPerNonce
<1>1. ReconcilerInit => Init
  BY DEF ReconcilerInit
<1>2. TruthInv /\ [ReconcilerNext]_reconcilerVars => [Next]_ledgerVars
  BY LedgerEffect
<1> QED BY <1>1, <1>2, TruthInvariant, NonceSafety, PTL DEF ReconcilerSpec, Spec
=============================================================================
