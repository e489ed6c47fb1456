------------------------------ MODULE MCSigner ------------------------------
(***************************************************************************)
(* Two instances, one uncapped key.  The caps have a run of their own      *)
(* (MCLedger); here the clock only drives leases and nonces.               *)
(***************************************************************************)
EXTENDS Signer, TLC

CONSTANTS k1, o1

MCKeyOwner == k1 :> o1
MCDailyCap == k1 :> 0
MCAddrCap == o1 :> 0

\* Cloids and digests are opaque identifiers: the code only compares them.
Interchangeable == Permutations(Cloid) \cup Permutations(Digest) \cup Permutations(Instance)

\* updatedAt is written but read only by Orphans, which nothing here uses.
WithoutUpdatedAt ==
    <<leaderVars, sw, addrSpend, records, now, history, call, fresh>>
=============================================================================
