------------------------------ MODULE MCLedger ------------------------------
(***************************************************************************)
(* Two keys of one owner.  k1 is capped below what two of its requests     *)
(* would spend, the address below what both keys may spend together, so    *)
(* every cap is both reached and refused.  The clock crosses one midnight, *)
(* and a request may be decided one tick after its clock was read.        *)
(***************************************************************************)
EXTENDS Ledger, TLC

CONSTANTS k1, k2, o1

MCKeyOwner == k1 :> o1 @@ k2 :> o1
MCDailyCap == k1 :> 1 @@ k2 :> 0
MCAddrCap == o1 :> 2

\* Cloids and digests are opaque identifiers: the code only compares them.
Interchangeable == Permutations(Cloid) \cup Permutations(Digest)

\* updatedAt is written here but read only by Orphans, which no property of this
\* run and no guard of this specification uses.
WithoutUpdatedAt == <<sw, addrSpend, records, now, history>>
=============================================================================
