-------------------------- MODULE IntentAuthority --------------------------
(***************************************************************************)
(* What the signing ledger promises its callers, without caps, fences,     *)
(* clocks or storage: each (key, cloid) is issued at most once, with one   *)
(* digest and a nonce above every nonce issued to the key before; after    *)
(* that only its lifecycle advances, and never out of a terminal state.    *)
(***************************************************************************)
EXTENDS Integers

CONSTANTS Key, Cloid, Digest, NotIssued

VARIABLES
    issued,     \* key -> cloid -> NotIssued or [digest, nonce]
    stage       \* key -> cloid -> lifecycle status, "absent" until issued

authorityVars == <<issued, stage>>

Rank == [absent |-> 0, signed |-> 1, submitted |-> 2, open |-> 3,
         filled |-> 4, rejected |-> 4, canceled |-> 4]

AuthorityInit ==
    /\ issued = [k \in Key |-> [c \in Cloid |-> NotIssued]]
    /\ stage = [k \in Key |-> [c \in Cloid |-> "absent"]]

Issue(k, c) ==
    /\ issued[k][c] = NotIssued
    /\ issued'[k][c] \in [digest : Digest, nonce : Nat]
    /\ \A b \in Cloid : issued[k][b] # NotIssued => issued[k][b].nonce < issued'[k][c].nonce
    /\ issued' = [issued EXCEPT ![k][c] = issued'[k][c]]
    /\ stage' = [stage EXCEPT ![k][c] = "signed"]

Advance(k, c, s) ==
    /\ issued[k][c] # NotIssued
    /\ Rank[stage[k][c]] < Rank[s]
    /\ stage' = [stage EXCEPT ![k][c] = s]
    /\ UNCHANGED issued

AuthorityNext ==
    \E k \in Key, c \in Cloid :
        \/ Issue(k, c)
        \/ \E s \in DOMAIN Rank : Advance(k, c, s)

AuthoritySpec == AuthorityInit /\ [][AuthorityNext]_authorityVars
=============================================================================
