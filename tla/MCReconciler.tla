---------------------------- MODULE MCReconciler ----------------------------
(***************************************************************************)
(* Two instances polling two accounts.  Only the second account ever has   *)
(* orders (the first key's negative cap denies every signature), so its    *)
(* reconciliation always waits behind that of an idle account.             *)
(***************************************************************************)
EXTENDS Reconciler, TLC

CONSTANTS k1, k2, o1

MCKeyOwner == [k \in Key |-> o1]
MCDailyCap == k1 :> 0 @@ k2 :> -1
MCAddrCap == o1 :> 0
MCAccounts == <<k2, k1>>
=============================================================================
