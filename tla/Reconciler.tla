----------------------------- MODULE Reconciler -----------------------------
(***************************************************************************)
(* backend/internal/reconciler over hlinfo and the intent ledger: every    *)
(* leading instance polls the exchange, account by account, and advances   *)
(* the ledger from what it saw.  One pass makes several remote calls (the  *)
(* orphans, the open orders, the fills, one status query per vanished      *)
(* intent) and one ledger transaction per cloid; the exchange, the traders *)
(* and the other instances move between any two of them.  The leader gate  *)
(* is read once, at the start of a pass, so passes of two instances        *)
(* overlap after a handover.                                               *)
(*                                                                         *)
(* The engine's signing client submits a signed order and reports the      *)
(* exchange's answer to /v1/reconcile without waiting: the report may come *)
(* late or never.  The exchange is external: orders rest, fill partially   *)
(* or completely, are canceled or rejected.  One clock stands for those of *)
(* the exchange, the database and the instances.                           *)
(***************************************************************************)
EXTENDS Ledger, Sequences

CONSTANTS
    Poller,         \* the signer instances, each with a reconciler goroutine
    Accounts,       \* RECONCILE_ACCOUNTS: the keys polled, in order
    Lookback,       \* maxAnchorLookbackMs
    MaxRecFaults    \* bound on failed passes and handovers

ASSUME ReconcilerAssumption ==
    /\ Accounts \in Seq(Key) \ {<<>>}      \* main starts no reconciler without accounts
    /\ {"submitted", "open"} \cup Terminal \subseteq Report
    /\ 1 \in Fence                         \* the fence of every request here
    /\ Lookback \in Nat /\ MaxRecFaults \in Nat

VARIABLES
    order,          \* exchange: key -> cloid -> "none", "resting" or how it ended
    lastFill,       \* exchange: key -> cloid -> time of its last fill, 0 if none
    report,         \* key -> cloid -> the client's report under way, or "none"
    leaders,        \* the instances whose leader gate is open
    recPc, acct,    \* poller -> where its pass is, and the account it is at
    orphans, anchor,    \* poller -> the non-terminal intents, and key -> fills anchor
    open, fills,    \* poller -> the snapshots of the account's cloids
    todo,           \* poller -> cloids of the current loop still to visit
    target,         \* poller -> the answered status query, [cloid, status]
    recFaults

storeVars == <<sw, addrSpend, records, updatedAt, history>>
exchangeVars == <<order, lastFill, report>>
pass == <<recPc, acct, orphans, anchor, open, fills, todo, target>>
reconcilerVars == <<storeVars, now, exchangeVars, leaders, pass, recFaults>>

Ended == {"filled", "canceled", "rejected"}
NoTarget == [cloid |-> NoCloid, status |-> "none"]

ReconcilerInit ==
    /\ Init
    /\ order = [k \in Key |-> [c \in Cloid |-> "none"]]
    /\ lastFill = [k \in Key |-> [c \in Cloid |-> 0]]
    /\ report = [k \in Key |-> [c \in Cloid |-> "none"]]
    /\ leaders \in (SUBSET Poller) \ {{}}
    /\ recPc = [p \in Poller |-> "idle"]
    /\ acct = [p \in Poller |-> 0]
    /\ orphans = [p \in Poller |-> {}]
    /\ anchor = [p \in Poller |-> [k \in Key |-> 0]]
    /\ open = [p \in Poller |-> {}]
    /\ fills = [p \in Poller |-> {}]
    /\ todo = [p \in Poller |-> {}]
    /\ target = [p \in Poller |-> NoTarget]
    /\ recFaults = 0

RecFault == recFaults < MaxRecFaults /\ recFaults' = recFaults + 1

------------------------------------------------------------------------------
(* The engine's client, and the exchange. *)

\* reconcileStatusFromRes: what the client reports for the answer to a submission.  A
\* request refused as a whole carries no status of an order: "submitted".
reconcileStatusFromRes(answer) ==
    CASE answer = "resting" -> "open"
      [] answer = "refused" -> "submitted"
      [] OTHER              -> answer

Sign(k, c) ==
    /\ \E d \in Digest, n \in Notional : AuthorizeFresh(MakeRequest(k, c, d, n, 1, now))
    /\ UNCHANGED <<exchangeVars, leaders, pass, recFaults>>

\* A signed order reaches the exchange, which lets it rest, fills or rejects it.  A
\* retry carries the nonce of the first submission (the ledger replays it) and is
\* refused as a whole.
Submit(k, c, answer) ==
    /\ records[k][c] # Absent
    /\ answer = "refused" <=> order[k][c] # "none"
    /\ order' = IF answer = "refused" THEN order ELSE [order EXCEPT ![k][c] = answer]
    /\ lastFill' = IF answer = "filled" THEN [lastFill EXCEPT ![k][c] = now] ELSE lastFill
    /\ report' = [report EXCEPT ![k][c] = reconcileStatusFromRes(answer)]
    /\ UNCHANGED <<storeVars, now, leaders, pass, recFaults>>

FillOrder(k, c, after) ==
    /\ order[k][c] = "resting"
    /\ order' = [order EXCEPT ![k][c] = after]
    /\ lastFill' = [lastFill EXCEPT ![k][c] = now]
    /\ UNCHANGED <<storeVars, now, report, leaders, pass, recFaults>>

CancelOrder(k, c) ==
    /\ order[k][c] = "resting"
    /\ order' = [order EXCEPT ![k][c] = "canceled"]
    /\ UNCHANGED <<storeVars, now, lastFill, report, leaders, pass, recFaults>>

\* reconcileOne and handleReconcile: an unknown intent or a forbidden edge is
\* answered with an error the callers ignore.
reconcileOne(k, c, status) ==
    IF records[k][c] # Absent /\ CanTransition(records[k][c].status, status)
    THEN Reconcile(k, c, status)
    ELSE UNCHANGED <<storeVars, now>>

\* It may also never arrive: nothing ever forces this step.
ReportArrives(k, c) ==
    /\ report[k][c] # "none"
    /\ reconcileOne(k, c, report[k][c])
    /\ report' = [report EXCEPT ![k][c] = "none"]
    /\ UNCHANGED <<order, lastFill, leaders, pass, recFaults>>

------------------------------------------------------------------------------
(* One pass of step. *)

key(p) == Accounts[acct[p]]
group(p) == {c \in Cloid : <<key(p), c>> \in orphans[p]}

\* targetFor: the open snapshot wins over the fills snapshot.
targetFor(p, c) == IF c \in open[p] THEN "open" ELSE "filled"

\* reapTarget, on the exchange's own statuses.
reapTarget(status) == IF status = "resting" THEN "open" ELSE status

\* The per-key fills anchor: the oldest update of its orphans, at most Lookback ago.
clampAnchor(a) == IF a < now - Lookback THEN now - Lookback ELSE a
AnchorOf(k, orphs) ==
    LET ages == {updatedAt[k][c] : c \in {c \in Cloid : <<k, c>> \in orphs}}
    IN  clampAnchor(CHOOSE a \in ages \cup {now} : \A b \in ages \cup {now} : a <= b)

RecGoto(p, where) == recPc' = [recPc EXCEPT ![p] = where]

\* The ticker fires: read the orphans and compute the anchors.
PassBegin(p) ==
    /\ recPc[p] = "idle"
    /\ p \in leaders
    /\ RecGoto(p, "open")
    /\ acct' = [acct EXCEPT ![p] = 1]
    /\ LET orphs == Orphans(MaxNow + 1) IN
         /\ orphans' = [orphans EXCEPT ![p] = orphs]
         /\ anchor' = [anchor EXCEPT ![p] = [k \in Key |-> AnchorOf(k, orphs)]]
    /\ UNCHANGED <<storeVars, now, exchangeVars, leaders, open, fills, todo, target, recFaults>>

OpenCloids(p) ==
    /\ recPc[p] = "open"
    /\ open' = [open EXCEPT ![p] = {c \in Cloid : order[key(p)][c] = "resting"}]
    /\ RecGoto(p, "fills")
    /\ UNCHANGED <<storeVars, now, exchangeVars, leaders, acct, orphans, anchor, fills,
                   todo, target, recFaults>>

FillsByCloidSince(p) ==
    /\ recPc[p] = "fills"
    /\ LET since == {c \in Cloid : /\ lastFill[key(p)][c] # 0
                                   /\ lastFill[key(p)][c] >= anchor[p][key(p)]}
       IN  /\ fills' = [fills EXCEPT ![p] = since]
           /\ todo' = [todo EXCEPT ![p] = open[p] \cup since]
    /\ anchor' = [anchor EXCEPT ![p][key(p)] = 0]
    /\ RecGoto(p, "batch")
    /\ UNCHANGED <<storeVars, now, exchangeVars, leaders, acct, orphans, open, target, recFaults>>

Batch(p, c) ==
    /\ recPc[p] = "batch"
    /\ c \in todo[p]
    /\ reconcileOne(key(p), c, targetFor(p, c))
    /\ todo' = [todo EXCEPT ![p] = @ \ {c}]
    /\ UNCHANGED <<exchangeVars, leaders, recPc, acct, orphans, anchor, open, fills, target,
                   recFaults>>

\* Mutant: no reaping.
ToReap_Nothing(p) == {}
\* The intents to reap: the orphans that neither snapshot mentions.
ToReap(p) == group(p) \ (open[p] \cup fills[p])

\* What the pass has read of this account is not used again.
BatchDone(p) ==
    /\ recPc[p] = "batch"
    /\ todo[p] = {}
    /\ todo' = [todo EXCEPT ![p] = ToReap(p)]
    /\ open' = [open EXCEPT ![p] = {}]
    /\ fills' = [fills EXCEPT ![p] = {}]
    /\ orphans' = [orphans EXCEPT ![p] = {kc \in @ : kc[1] # key(p)}]
    /\ RecGoto(p, "reap")
    /\ UNCHANGED <<storeVars, now, exchangeVars, leaders, acct, anchor, target, recFaults>>

\* Mutant: an order the exchange does not know is taken for canceled.
OrderStatus_UnknownIsCanceled(p, c) ==
    /\ recPc[p] = "reap"
    /\ c \in todo[p]
    /\ todo' = [todo EXCEPT ![p] = @ \ {c}]
    /\ LET status == order[key(p)][c] IN
         target' = [target EXCEPT ![p] =
             [cloid |-> c, status |-> IF status = "none" THEN "canceled" ELSE reapTarget(status)]]
    /\ RecGoto(p, "answered")
    /\ UNCHANGED <<storeVars, now, exchangeVars, leaders, acct, orphans, anchor, open, fills,
                   recFaults>>
\* An order the exchange does not know may be mid-submission: it is left alone.
OrderStatus(p, c) ==
    /\ recPc[p] = "reap"
    /\ c \in todo[p]
    /\ todo' = [todo EXCEPT ![p] = @ \ {c}]
    /\ LET status == order[key(p)][c] IN
         IF status = "none" THEN UNCHANGED <<recPc, target>>
         ELSE /\ target' = [target EXCEPT ![p] = [cloid |-> c, status |-> reapTarget(status)]]
              /\ RecGoto(p, "answered")
    /\ UNCHANGED <<storeVars, now, exchangeVars, leaders, acct, orphans, anchor, open, fills,
                   recFaults>>

Reap(p) ==
    /\ recPc[p] = "answered"
    /\ reconcileOne(key(p), target[p].cloid, target[p].status)
    /\ target' = [target EXCEPT ![p] = NoTarget]
    /\ RecGoto(p, "reap")
    /\ UNCHANGED <<exchangeVars, leaders, acct, orphans, anchor, open, fills, todo, recFaults>>

\* Leaving a pass drops everything it read.
EndPass(p) ==
    /\ RecGoto(p, "idle")
    /\ acct' = [acct EXCEPT ![p] = 0]
    /\ orphans' = [orphans EXCEPT ![p] = {}]
    /\ anchor' = [anchor EXCEPT ![p] = [k \in Key |-> 0]]
    /\ open' = [open EXCEPT ![p] = {}]
    /\ fills' = [fills EXCEPT ![p] = {}]
    /\ todo' = [todo EXCEPT ![p] = {}]
    /\ target' = [target EXCEPT ![p] = NoTarget]
    /\ UNCHANGED <<storeVars, now, exchangeVars, leaders>>

NextAccount(p) ==
    /\ recPc[p] = "reap"
    /\ todo[p] = {}
    /\ acct[p] < Len(Accounts)
    /\ acct' = [acct EXCEPT ![p] = @ + 1]
    /\ RecGoto(p, "open")
    /\ UNCHANGED <<storeVars, now, exchangeVars, leaders, orphans, anchor, open, fills, todo,
                   target, recFaults>>

PassDone(p) ==
    /\ recPc[p] = "reap"
    /\ todo[p] = {}
    /\ acct[p] = Len(Accounts)
    /\ EndPass(p)
    /\ UNCHANGED recFaults

\* An error of any call ends the pass at once, for the accounts behind it too.
PassFails(p) ==
    /\ recPc[p] # "idle"
    /\ RecFault
    /\ EndPass(p)

Handover ==
    /\ RecFault
    /\ leaders' \in (SUBSET Poller) \ {{}, leaders}
    /\ UNCHANGED <<storeVars, now, exchangeVars, pass>>

ReconcilerTick ==
    /\ LedgerTick
    /\ UNCHANGED <<exchangeVars, leaders, pass, recFaults>>

------------------------------------------------------------------------------
Step(p) ==
    \/ PassBegin(p) \/ OpenCloids(p) \/ FillsByCloidSince(p)
    \/ \E c \in Cloid : Batch(p, c)
    \/ BatchDone(p)
    \/ \E c \in Cloid : OrderStatus(p, c)
    \/ Reap(p) \/ NextAccount(p) \/ PassDone(p)

World(k, c) ==
    \/ Sign(k, c)
    \/ \E answer \in {"resting", "filled", "rejected", "refused"} : Submit(k, c, answer)
    \/ \E after \in {"resting", "filled"} : FillOrder(k, c, after)
    \/ CancelOrder(k, c)
    \/ ReportArrives(k, c)

ReconcilerNext ==
    \/ \E p \in Poller : Step(p) \/ PassFails(p)
    \/ \E k \in Key, c \in Cloid : World(k, c)
    \/ Handover
    \/ ReconcilerTick

ReconcilerSpec == ReconcilerInit /\ [][ReconcilerNext]_reconcilerVars

\* Every goroutine keeps running and its ticker keeps firing.  Nothing is assumed
\* of the traders, the exchange or the client's reports.
ReconcilerFairSpec == ReconcilerSpec /\ \A p \in Poller : WF_reconcilerVars(Step(p))

------------------------------------------------------------------------------
(* Properties. *)

\* A terminal record tells what happened: canceled or rejected only if the
\* exchange ended the order that way, filled only if it traded.  Late reports,
\* snapshots taken at different times and passes of a deposed instance cannot
\* end an intent that is still being submitted or still rests untouched.
TerminalTruth ==
    \A k \in Key, c \in Cloid :
        LET s == records[k][c].status IN
        /\ s \in {"canceled", "rejected"} => order[k][c] = s
        /\ s = "filled" => lastFill[k][c] # 0

\* An order that ended at the exchange does not stay an orphan: whatever its fills
\* anchor missed, whichever report was lost, its record becomes terminal.  step reaps
\* canceled and rejected orders by their status query; the comment of
\* maxAnchorLookbackMs, which says the loop "cannot reap a canceled/rejected order",
\* is older than that and no longer true.
EndedOrdersSettle ==
    \A k \in {Accounts[n] : n \in 1..Len(Accounts)}, c \in Cloid :
        order[k][c] \in Ended ~> isTerminal(records[k][c].status)

\* targetFor's comment: "Open wins over fills so a partially-filled resting order
\* stays open".  An order resting at the exchange is never recorded as filled.
PartialFillStaysOpen ==
    \A k \in Key, c \in Cloid :
        order[k][c] = "resting" => records[k][c].status # "filled"
=============================================================================
