------------------------------- MODULE AppFee -------------------------------
(***************************************************************************)
(* The app's builder-fee gate, beside the engine's over the same approval  *)
(* on chain.  Before the first order of a session the trade screen asks    *)
(* whether the user approved the fee, offers to approve it, and remembers  *)
(* the outcome in a store until the wallet or the network changes; the     *)
(* exchange service reads the store when it builds an order.  The user may *)
(* change the network while any of this is awaited.                        *)
(***************************************************************************)
EXTENDS BuilderFee

CONSTANTS
  MaxFeeOrders,   \* bound: orders of the app
  MaxFeeNets      \* bound: changes of the network

ASSUME AppFeeAssumption == {MaxFeeOrders, MaxFeeNets} \subseteq Nat

VARIABLES
  feeNet,      \* the app's network; the engine's is "main"
  testOk,      \* the fee is approved on the other network
  gate,        \* useBuilderApprovalStore
  submit,      \* the order under way
  seen,        \* the approval held on feeNet at some time since the last reset
  straddled,   \* the network changed while an order was under way
  feeOrder,    \* the order placed last carries the builder though the user never
               \* approved it in this session
  feeOrders, feeNets

appFeeVars == <<feeNet, testOk, gate, submit, seen, straddled, feeOrder, feeOrders, feeNets>>

NoSubmit == [at |-> "idle", net |-> "main", status |-> "none"]

approvedOn(net) == IF net = "main" THEN feeOk ELSE testOk

(* A new wallet or network gates the fee anew. *)
reset == gate' = [approved |-> FALSE, suppressed |-> FALSE]

AppFeeInit ==
  /\ feeNet = "main" /\ testOk = FALSE
  /\ gate = [approved |-> FALSE, suppressed |-> FALSE]
  /\ submit = NoSubmit
  /\ seen = feeOk /\ straddled = FALSE /\ feeOrder = FALSE
  /\ feeOrders = 0 /\ feeNets = 0

(* onSubmitInner takes the service of the network it is tapped on; the     *)
(* gate is open or shut for this session, or the exchange is asked.        *)
tapSubmit ==
  /\ submit = NoSubmit
  /\ feeOrders < MaxFeeOrders /\ feeOrders' = feeOrders + 1
  /\ submit' = [at |-> IF gate.approved \/ gate.suppressed THEN "place" ELSE "ask",
                net |-> feeNet, status |-> "none"]
  /\ UNCHANGED <<feeNet, testOk, gate, seen, straddled, feeOrder, feeNets>>

(* The query is read at the exchange of the network of the tap, or throws. *)
queryBuilderApproval ==
  /\ submit.at = "ask"
  /\ \E status \in {IF approvedOn(submit.net) THEN "approved" ELSE "unapproved", "unknown"} :
       submit' = [submit EXCEPT !.at = "told", !.status = status]
  /\ UNCHANGED <<feeNet, testOk, gate, seen, straddled, feeOrder, feeOrders, feeNets>>

(* Its answer arrives: nobody is asked twice in a session, and an unknown  *)
(* answer places this order without a builder.                             *)
ensureBuilderApproval ==
  /\ submit.at = "told"
  /\ gate' = IF submit.status = "approved" THEN [gate EXCEPT !.approved = TRUE] ELSE gate
  /\ submit' = [submit EXCEPT !.at = IF submit.status = "unapproved" THEN "prompt" ELSE "place"]
  /\ UNCHANGED <<feeNet, testOk, seen, straddled, feeOrder, feeOrders, feeNets>>

(* The user answers the prompt. *)
promptAnswered(confirmed) ==
  /\ submit.at = "prompt"
  /\ gate' = IF confirmed THEN gate ELSE [gate EXCEPT !.suppressed = TRUE]
  /\ submit' = [submit EXCEPT !.at = IF confirmed THEN "approve" ELSE "place"]
  /\ UNCHANGED <<feeNet, testOk, seen, straddled, feeOrder, feeOrders, feeNets>>

(* approveBuilderFee is signed for the network of now; approving again     *)
(* changes nothing.                                                        *)
signApproval ==
  /\ feeOk' = (feeOk \/ feeNet = "main")
  /\ feeHeld' = IF feeNet = "main" THEN feeTime ELSE feeHeld
  /\ testOk' = (testOk \/ feeNet # "main")
  /\ seen' = TRUE

(* The approval is taken or not, and its answer arrives or throws: only an *)
(* answer opens the gate.                                                  *)
approveFee(taken, answered) ==
  /\ submit.at = "approve"
  /\ answered => taken
  /\ IF taken THEN signApproval ELSE UNCHANGED <<feeOk, feeHeld, testOk, seen>>
  /\ gate' = IF answered THEN [gate EXCEPT !.approved = TRUE] ELSE [gate EXCEPT !.suppressed = TRUE]
  /\ submit' = [submit EXCEPT !.at = "place"]
  /\ UNCHANGED <<feeNet, straddled, feeOrder, feeOrders, feeNets>>

(* The service attaches the builder when the store says so now. *)
builderAttach == gate.approved

(* The order is built and goes out. *)
placeWithFee ==
  /\ submit.at = "place"
  /\ feeOrder' = (builderAttach /\ ~seen /\ ~straddled)
  /\ submit' = NoSubmit
  /\ UNCHANGED <<feeNet, testOk, gate, seen, straddled, feeOrders, feeNets>>

feeSwitchNetwork ==
  /\ feeNets < MaxFeeNets /\ feeNets' = feeNets + 1
  /\ feeNet' = IF feeNet = "main" THEN "test" ELSE "main"
  /\ reset
  /\ seen' = approvedOn(feeNet')
  /\ straddled' = (submit # NoSubmit)
  /\ UNCHANGED <<testOk, submit, feeOrder, feeOrders>>

AppStep ==
  \/ /\ \/ tapSubmit \/ queryBuilderApproval \/ ensureBuilderApproval \/ placeWithFee
        \/ feeSwitchNetwork
        \/ \E confirmed \in BOOLEAN : promptAnswered(confirmed)
     /\ UNCHANGED feeVars
  \/ /\ \E taken, answered \in BOOLEAN : approveFee(taken, answered)
     /\ UNCHANGED <<feeTime, feeCache, waiting, late, flips>>

(* A step of the engine or of the owner's other device. *)
EngineStep ==
  /\ FeeNext
  /\ seen' = (seen \/ (feeNet = "main" /\ feeOk'))
  /\ UNCHANGED <<feeNet, testOk, gate, submit, straddled, feeOrder, feeOrders, feeNets>>

AppFeeNext == AppStep \/ EngineStep

AppFeeSpec == FeeInit /\ AppFeeInit /\ [][AppFeeNext]_<<feeVars, appFeeVars>>

----------------------------------------------------------------------------
(* The engine attaches the builder only if the owner's approval held less  *)
(* than PositiveTtl before, whatever the answers in flight do to the cache *)
(* (makeBuilderInjector: the TTL "Bounds the window in which a revoked /   *)
(* reduced approval would still be attached"); the app only if it held on  *)
(* the network of the order since the session began there ("A new          *)
(* wallet/network must re-gate the builder-fee approval") - unless the     *)
(* network was changed while an order was under way.                       *)
BuilderFeeWindow == late < PositiveTtl /\ ~feeOrder
=============================================================================
