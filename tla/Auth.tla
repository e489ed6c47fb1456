------------------------------- MODULE Auth -------------------------------
(***************************************************************************)
(* Wallet-signature login of the engine (server/src/auth): a challenge     *)
(* issues a nonce bound to an owner, a session request spends it while the *)
(* signature check is still being awaited, and the answer is a bearer      *)
(* token that carries its own expiry.  Requests may be delivered twice,    *)
(* carry any nonce and be signed by any wallet; the process may restart,   *)
(* which forgets the challenges but none of the tokens, since these are    *)
(* verified by their HMAC alone.                                           *)
(***************************************************************************)
EXTENDS Integers, FiniteSets

CONSTANTS
  Wallet,       \* owner addresses, lower-cased
  NonceTtl,     \* nonceTtlMs, in steps of the clock
  SessionTtl,   \* sessionTtlMs, in steps of the clock
  MaxNonces,    \* bound on the challenges issued
  MaxRequests,  \* bound on the session requests delivered
  MaxAuthTime   \* bound on the clock

ASSUME AuthAssumption ==
  /\ {NonceTtl, SessionTtl, MaxNonces, MaxRequests, MaxAuthTime} \subseteq Nat \ {0}

VARIABLES
  authTime,    \* now()
  challenges,  \* Auth.pending: owner, nonce and expiry
  issued,      \* nonces generated so far, each unique (randomBytes(24))
  checking,    \* session requests awaiting verifyMessage
  requests,    \* session requests delivered so far
  tokens       \* tokens minted: owner, expiry, and the request behind each

authVars == <<authTime, challenges, issued, checking, requests, tokens>>

AuthInit ==
  /\ authTime = 0
  /\ challenges = {} /\ issued = 0
  /\ checking = {} /\ requests = 0
  /\ tokens = {}

(* Challenges whose time has passed are dropped whenever one is issued. *)
sweep(cs) == {c \in cs : c.expiresAt > authTime}

challenge(o) ==
  /\ issued < MaxNonces
  /\ issued' = issued + 1
  /\ challenges' = sweep(challenges)
       \cup {[owner |-> o, nonce |-> issued + 1, expiresAt |-> authTime + NonceTtl]}
  /\ UNCHANGED <<authTime, checking, requests, tokens>>

Live(o, n) == {c \in challenges : c.owner = o /\ c.nonce = n /\ c.expiresAt > authTime}

(* Mutant: the nonce is deleted once the signature has been verified. *)
session_SpendsAfterCheck(o, n, signer) ==
  /\ requests < MaxRequests /\ requests' = requests + 1
  /\ checking' = checking \cup
       {[id |-> requests, of |-> c, signer |-> signer, at |-> authTime] : c \in Live(o, n)}
  /\ UNCHANGED <<authTime, challenges, issued, tokens>>

(* POST /auth/session up to the await: the nonce is looked up and deleted, *)
(* live or not, before the signature is verified.                          *)
session(o, n, signer) ==
  /\ requests < MaxRequests /\ requests' = requests + 1
  /\ challenges' = {c \in challenges : ~(c.owner = o /\ c.nonce = n)}
  /\ checking' = checking \cup
       {[id |-> requests, of |-> c, signer |-> signer, at |-> authTime] : c \in Live(o, n)}
  /\ UNCHANGED <<authTime, issued, tokens>>

(* issueToken: the owner of the request and an absolute expiry counted     *)
(* from the time the request arrived, not from the end of the check.       *)
issueToken(r) == [sub |-> r.of.owner, exp |-> r.at + SessionTtl, by |-> r]

(* verifyMessage answers: ECDSA recovery accepts exactly the owner's key. *)
verifyMessage(r) ==
  /\ checking' = checking \ {r}
  /\ tokens' = IF r.signer = r.of.owner THEN tokens \cup {issueToken(r)} ELSE tokens
  /\ UNCHANGED <<authTime, challenges, issued, requests>>

AuthTime ==
  /\ authTime < MaxAuthTime
  /\ authTime' = authTime + 1
  /\ UNCHANGED <<challenges, issued, checking, requests, tokens>>

(* The engine restarts: its challenges and the requests in flight are gone. *)
AuthRestart ==
  /\ challenges' = {} /\ checking' = {}
  /\ UNCHANGED <<authTime, issued, requests, tokens>>

AuthNext ==
  \/ \E o \in Wallet : challenge(o)
  \/ \E o, s \in Wallet, n \in 1..issued : session(o, n, s)
  \/ \E r \in checking : verifyMessage(r)
  \/ AuthTime
  \/ AuthRestart

AuthSpec == AuthInit /\ [][AuthNext]_authVars

----------------------------------------------------------------------------
(* A nonce buys at most one session, however often and by whomever its     *)
(* session request is delivered while a signature check is in flight, and  *)
(* the session belongs to a wallet that signed within the nonce's life     *)
(* (Auth.session: "Nonces are single-use and TTL-bounded").                *)
NonceSpentOnce ==
  \A a, b \in tokens :
    /\ a.by.of.nonce = b.by.of.nonce => a = b
    /\ a.by.signer = a.sub
    /\ a.by.at < a.by.of.expiresAt
    /\ a.exp <= authTime + SessionTtl
=============================================================================
