-------------------------------- MODULE Funds --------------------------------
(***************************************************************************)
(* Money in and out on the account screen: the deposit sheet signs an      *)
(* Arbitrum USDC transfer to the bridge, the withdraw sheet signs an       *)
(* exchange withdrawal.  Both ask for a second tap on mainnet, both check  *)
(* the amount before signing, and both may end without a receipt; neither  *)
(* transfer carries an id the other side would recognise on a retry.       *)
(* Balances load in the background and the network can be switched while   *)
(* a sheet is open or a transfer is under way.                             *)
(***************************************************************************)
EXTENDS Naturals, Sequences

CONSTANTS
  FundNet,       \* the networks; "mainnet" is the one that moves real money
  Amount,        \* amounts the user may type
  Destination,   \* destinations the user may type; "self" is the own address
  ValidDest,     \* those that are addresses
  MinDeposit,    \* MIN_DEPOSIT_USDC
  WithdrawFee,   \* withdrawFeeFor
  ChainUsdc,     \* what the wallet holds on Arbitrum
  Withdrawable,  \* what the exchange lets it withdraw
  MaxTransfers,  \* bound: transfers signed
  MaxFundEdits,  \* bound: fields typed and sheets opened
  MaxNetSwitches \* bound: network switches

ASSUME FundAssumption ==
  /\ "mainnet" \in FundNet
  /\ ValidDest \subseteq Destination \cup {"self"}
  /\ Amount \subseteq Nat /\ {MinDeposit, WithdrawFee} \subseteq Nat

Sheet == {"deposit", "withdraw"}

VARIABLES
  fnet,        \* the selected network
  sheet,       \* the open sheet, or "none"
  amount,      \* amount[k]: the typed amount, 0 when empty
  dest,        \* the typed destination of a withdrawal
  confirm,     \* confirm[k]: the review of this sheet was tapped
  busy,        \* busy[k]: its transfer is under way
  summary,     \* the account summary shown: the network it is of, or "none"
  loads,       \* summary loads in flight: their network, and what started them
  balances,    \* the Arbitrum balances shown: their network, or "none"
  rpc,         \* the server's configuration has arrived
  reviewed,    \* reviewed[k]: what the sheet showed at the last review tap
  transfers,   \* every transfer signed
  fedits, fswitches

fundVars == <<fnet, sheet, amount, dest, confirm, busy, summary, loads, balances, rpc,
              reviewed, transfers, fedits, fswitches>>

Shown(k) == [amount |-> amount[k], dest |-> IF k = "withdraw" THEN dest ELSE "bridge"]
NotReviewed == [amount |-> 0, dest |-> "none"]

FundInit ==
  /\ fnet = "mainnet" /\ sheet = "none"
  /\ amount = [k \in Sheet |-> 0] /\ dest = "empty"
  /\ confirm = [k \in Sheet |-> FALSE] /\ busy = [k \in Sheet |-> FALSE]
  /\ summary = "none" /\ loads = {[net |-> "mainnet", by |-> "effect"]}
  /\ balances = "none" /\ rpc = FALSE
  /\ reviewed = [k \in Sheet |-> NotReviewed]
  /\ transfers = <<>>
  /\ fedits = 0 /\ fswitches = 0

---------------------------------------------------------------------------
(* The sheets.                                                             *)

Edited == fedits < MaxFundEdits /\ fedits' = fedits + 1

\* onDeposit and onWithdraw: the button toggles its sheet.
openSheet(k) ==
  /\ Edited
  /\ confirm' = [confirm EXCEPT ![k] = FALSE]
  /\ sheet' = IF sheet = k THEN "none" ELSE k
  /\ dest' = IF k = "withdraw" /\ dest = "empty" THEN "self" ELSE dest
  /\ balances' = IF sheet' # "deposit" THEN "none" ELSE balances
  /\ UNCHANGED <<fnet, amount, busy, summary, loads, rpc, reviewed, transfers, fswitches>>

\* The trade screen's deposit shortcut opens the sheet, and only that.
consume == sheet # "deposit" /\ sheet' = "deposit"
depositRequested ==
  /\ Edited /\ consume
  /\ UNCHANGED <<fnet, amount, dest, confirm, busy, summary, loads, balances, rpc, reviewed,
                 transfers, fswitches>>

closeSheet ==
  /\ Edited /\ sheet # "none"
  /\ sheet' = "none" /\ confirm' = [confirm EXCEPT ![sheet] = FALSE] /\ balances' = "none"
  /\ UNCHANGED <<fnet, amount, dest, busy, summary, loads, rpc, reviewed, transfers, fswitches>>

typeAmount ==
  /\ Edited /\ sheet # "none"
  /\ \E a \in Amount : amount' = [amount EXCEPT ![sheet] = a] /\ a # amount[sheet]
  /\ confirm' = [confirm EXCEPT ![sheet] = FALSE]
  /\ UNCHANGED <<fnet, sheet, dest, busy, summary, loads, balances, rpc, reviewed, transfers,
                 fswitches>>

\* A preset writes the balance that is shown, rounded down (here all of it).
presetAmount ==
  /\ Edited /\ sheet = "deposit" /\ balances # "none"
  /\ amount' = [amount EXCEPT !["deposit"] = ChainUsdc]
  /\ confirm' = [confirm EXCEPT !["deposit"] = FALSE]
  /\ UNCHANGED <<fnet, sheet, dest, busy, summary, loads, balances, rpc, reviewed, transfers,
                 fswitches>>

\* Mutant: typing another destination leaves the confirmation standing.
typeDest_KeepsConfirm ==
  /\ Edited /\ sheet = "withdraw"
  /\ \E d \in Destination : dest' = d /\ d # dest
  /\ UNCHANGED <<fnet, sheet, amount, confirm, busy, summary, loads, balances, rpc, reviewed,
                 transfers, fswitches>>

typeDest ==
  /\ Edited /\ sheet = "withdraw"
  /\ \E d \in Destination : dest' = d /\ d # dest
  /\ confirm' = [confirm EXCEPT !["withdraw"] = FALSE]
  /\ UNCHANGED <<fnet, sheet, amount, busy, summary, loads, balances, rpc, reviewed,
                 transfers, fswitches>>

---------------------------------------------------------------------------
(* Confirming.                                                             *)

validateDeposit(a) ==
  a > 0 /\ a >= MinDeposit /\ (balances # "none" => a <= ChainUsdc)

validateWithdraw(a, d) ==
  /\ d \in ValidDest
  /\ a > 0 /\ a > WithdrawFee
  /\ a <= (IF summary = "none" THEN 0 ELSE Withdrawable)

Valid(k) == IF k = "deposit" THEN validateDeposit(amount[k]) ELSE validateWithdraw(amount[k], dest)

ConfirmButton(k) == sheet = k /\ ~busy[k]

\* What the services report of a transfer they signed.
Outcome == {"ok", "uncertain"}

\* The first tap on mainnet only arms the second one.
reviewTap(k) ==
  /\ ConfirmButton(k)
  /\ fnet = "mainnet" /\ ~confirm[k]
  /\ confirm' = [confirm EXCEPT ![k] = TRUE]
  /\ reviewed' = [reviewed EXCEPT ![k] = Shown(k)]
  /\ UNCHANGED <<fnet, sheet, amount, dest, busy, summary, loads, balances, rpc, transfers,
                 fedits, fswitches>>

\* onConfirmDeposit, onConfirmWithdraw: signed once the checks pass.
confirmTap(k) ==
  /\ ConfirmButton(k) /\ Len(transfers) < MaxTransfers
  /\ fnet = "mainnet" => confirm[k]
  /\ k = "deposit" => rpc
  /\ Valid(k)
  /\ busy' = [busy EXCEPT ![k] = TRUE]
  /\ transfers' = Append(transfers, [kind |-> k, net |-> fnet, shown |-> Shown(k),
                                     review |-> reviewed[k], end |-> "awaited"])
  /\ UNCHANGED <<fnet, sheet, amount, dest, confirm, summary, loads, balances, rpc, reviewed,
                 fedits, fswitches>>

Latest(k) == CHOOSE i \in DOMAIN transfers :
               /\ transfers[i].kind = k
               /\ \A j \in DOMAIN transfers : transfers[j].kind = k => j <= i

\* A success closes whatever sheet is open, clears the form and reloads; an
\* uncertain receipt only says so.
receiptOf(k, end) ==
  /\ busy[k]
  /\ busy' = [busy EXCEPT ![k] = FALSE]
  /\ transfers' = [transfers EXCEPT ![Latest(k)].end = end]
  /\ IF end = "ok"
     THEN /\ sheet' = "none" /\ balances' = "none"
          /\ confirm' = [confirm EXCEPT ![k] = FALSE]
          /\ amount' = [amount EXCEPT ![k] = 0]
          /\ loads' = loads \cup {[net |-> transfers[Latest(k)].net, by |-> "tap"]}
     ELSE UNCHANGED <<sheet, balances, confirm, amount, loads>>
  /\ UNCHANGED <<fnet, dest, summary, rpc, reviewed, fedits, fswitches>>

---------------------------------------------------------------------------
(* What loads in the background.                                           *)

\* The effect of the old network is cleaned up and the answer of its load
\* ignored; a load started by a tap has no cleanup.  The open sheet stays.
switchNet ==
  /\ fswitches < MaxNetSwitches /\ fswitches' = fswitches + 1
  /\ \E n \in FundNet \ {fnet} :
       /\ fnet' = n
       /\ loads' = {l \in loads : l.by = "tap"} \cup {[net |-> n, by |-> "effect"]}
  /\ UNCHANGED <<sheet, amount, dest, confirm, busy, summary, balances, rpc, reviewed,
                 transfers, fedits>>

reloadSummary ==
  /\ [net |-> fnet, by |-> "tap"] \notin loads
  /\ loads' = loads \cup {[net |-> fnet, by |-> "tap"]}
  /\ UNCHANGED <<fnet, sheet, amount, dest, confirm, busy, summary, balances, rpc, reviewed,
                 transfers, fedits, fswitches>>

\* A load answers or fails.
loadPortfolio(l, ok) ==
  /\ l \in loads /\ loads' = loads \ {l}
  /\ summary' = IF ok THEN l.net ELSE "none"
  /\ UNCHANGED <<fnet, sheet, amount, dest, confirm, busy, balances, rpc, reviewed, transfers,
                 fedits, fswitches>>

fetchArbitrumBalances ==
  /\ sheet = "deposit" /\ rpc /\ balances # fnet
  /\ balances' \in {fnet, "none"}   \* the read answers, or fails
  /\ UNCHANGED <<fnet, sheet, amount, dest, confirm, busy, summary, loads, rpc, reviewed,
                 transfers, fedits, fswitches>>

hydrateRuntimeConfig ==
  /\ ~rpc /\ rpc' = TRUE
  /\ UNCHANGED <<fnet, sheet, amount, dest, confirm, busy, summary, loads, balances, reviewed,
                 transfers, fedits, fswitches>>

FundNext ==
  \/ \E k \in Sheet : openSheet(k) \/ reviewTap(k) \/ confirmTap(k)
  \/ \E k \in Sheet, end \in Outcome : receiptOf(k, end)
  \/ depositRequested \/ closeSheet \/ typeAmount \/ presetAmount \/ typeDest
  \/ switchNet \/ reloadSummary \/ fetchArbitrumBalances \/ hydrateRuntimeConfig
  \/ \E l \in loads, ok \in BOOLEAN : loadPortfolio(l, ok)

FundSpec == FundInit /\ [][FundNext]_fundVars

---------------------------------------------------------------------------
\* Real money only moves as it was reviewed: whatever is typed, opened,
\* closed or switched in between, a mainnet transfer has the amount and the
\* destination the user saw when the confirmation was armed.
ReviewedIsSent ==
  \A i \in DOMAIN transfers :
    transfers[i].net = "mainnet" => transfers[i].shown = transfers[i].review

=============================================================================
