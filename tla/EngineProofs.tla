---------------------------- MODULE EngineProofs ----------------------------
(***************************************************************************)
(* Theorems about the engine's own components, for every set of wallets,   *)
(* devices, orders and calls in flight, every time to live and chunk size, *)
(* and every number of faults, restarts and changes of mind.               *)
(***************************************************************************)
EXTENDS DeadMan, Auth, AgentCustody, AppFee, Positions, Push,
        FiniteSetTheorems, SequenceTheorems, TLAPS

(* Login.  A nonce sits in one place at a time: in a challenge, in one      *)
(* request whose signature is being checked, or in one token.               *)

ChallengesOK ==
  /\ \A c \in challenges : c.nonce \in 1..issued
  /\ \A c, d \in challenges : c.nonce = d.nonce => c = d

\* A request under way holds a nonce that no challenge and no other request holds,
\* and was delivered while the nonce lived.
CheckingOK ==
  /\ \A r \in checking :
       /\ r.of.nonce \in 1..issued
       /\ r.at \in 0..authTime /\ r.at < r.of.expiresAt
       /\ \A c \in challenges : c.nonce # r.of.nonce
  /\ \A r, q \in checking : r.of.nonce = q.of.nonce => r = q

TokensOK ==
  /\ \A a \in tokens :
       /\ a.by.of.nonce \in 1..issued
       /\ a.by.signer = a.sub
       /\ a.by.at \in 0..authTime /\ a.by.at < a.by.of.expiresAt
       /\ a.exp = a.by.at + SessionTtl
       /\ \A c \in challenges : c.nonce # a.by.of.nonce
       /\ \A r \in checking : r.of.nonce # a.by.of.nonce
  /\ \A a, b \in tokens : a.by.of.nonce = b.by.of.nonce => a = b

AuthInv == authTime \in Nat /\ issued \in Nat /\ ChallengesOK /\ CheckingOK /\ TokensOK

LEMMA AuthStart == AuthInit => AuthInv
BY DEF AuthInit, AuthInv, ChallengesOK, CheckingOK, TokensOK

\* A session request moves the nonce's challenge, if it lives, into the checks.
LEMMA SessionStep ==
  ASSUME AuthInv, NEW o \in Wallet, NEW n \in 1..issued, NEW s \in Wallet, session(o, n, s)
  PROVE  AuthInv'
<1> DEFINE req(c) == [id |-> requests, of |-> c, signer |-> s, at |-> authTime]
<1>1. /\ challenges' = {c \in challenges : ~(c.owner = o /\ c.nonce = n)}
      /\ checking' = checking \cup {req(c) : c \in Live(o, n)}
      /\ authTime' = authTime /\ issued' = issued /\ tokens' = tokens
  BY DEF session
<1>2. \A c \in Live(o, n) : c \in challenges /\ c.nonce = n /\ c.owner = o /\ c.expiresAt > authTime
  BY DEF Live
<1>3. \A c, d \in Live(o, n) : c = d
  BY <1>2 DEF AuthInv, ChallengesOK
<1>4. \A c \in Live(o, n) : \A d \in challenges' : d.nonce # n
  BY <1>1, <1>2 DEF AuthInv, ChallengesOK
<1>5. \A c : req(c).of = c /\ req(c).at = authTime
  OBVIOUS
<1>6. ChallengesOK'
  BY <1>1 DEF AuthInv, ChallengesOK
<1>7. \A r \in checking' : r \in checking \/ \E c \in Live(o, n) : r = req(c)
  BY <1>1
<1> HIDE DEF req
<1>8. \A r \in checking' \ checking :
        /\ r.of \in Live(o, n) /\ r = req(r.of) /\ r.at = authTime /\ r.of.nonce = n
        /\ r.of \in challenges /\ r.of.expiresAt > authTime
  BY <1>2, <1>5, <1>7
<1>9. CheckingOK'
  <2>1. ASSUME NEW r \in checking'
        PROVE  /\ r.of.nonce \in 1..issued
               /\ r.at \in 0..authTime /\ r.at < r.of.expiresAt
               /\ \A c \in challenges' : c.nonce # r.of.nonce
    <3>1. CASE r \in checking
      BY <1>1, <3>1 DEF AuthInv, CheckingOK
    <3>2. CASE r \notin checking
      <4>1. r.of.nonce \in 1..issued /\ \A c \in challenges' : c.nonce # r.of.nonce
        BY <1>4, <1>8, <2>1, <3>2
      <4>2. r.at \in 0..authTime /\ r.of.expiresAt > r.at
        BY <1>8, <2>1, <3>2 DEF AuthInv
      <4>3. r.at < r.of.expiresAt
        BY <4>2
      <4> QED BY <4>1, <4>2, <4>3
    <3> QED BY <3>1, <3>2
  <2>2. ASSUME NEW r \in checking', NEW q \in checking', r.of.nonce = q.of.nonce
        PROVE  r = q
    <3>1. CASE r \in checking /\ q \in checking
      BY <2>2, <3>1 DEF AuthInv, CheckingOK
    <3>2. CASE r \notin checking /\ q \notin checking
      BY <1>3, <1>8, <2>2, <3>2
    <3>3. CASE r \in checking /\ q \notin checking
      BY <1>8, <2>2, <3>3 DEF AuthInv, CheckingOK
    <3>4. CASE r \notin checking /\ q \in checking
      BY <1>8, <2>2, <3>4 DEF AuthInv, CheckingOK
    <3> QED BY <3>1, <3>2, <3>3, <3>4
  <2> QED BY <1>1, <2>1, <2>2 DEF CheckingOK
<1>10. TokensOK'
  <2>1. \A a \in tokens, r \in checking' : r.of.nonce # a.by.of.nonce
    BY <1>8 DEF AuthInv, TokensOK
  <2> QED BY <1>1, <2>1 DEF AuthInv, TokensOK
<1> QED BY <1>1, <1>6, <1>9, <1>10 DEF AuthInv

LEMMA AuthStep == AuthInv /\ [AuthNext]_authVars => AuthInv'
<1> SUFFICES ASSUME AuthInv, [AuthNext]_authVars PROVE AuthInv'
  OBVIOUS
<1>1. ASSUME NEW o \in Wallet, challenge(o) PROVE AuthInv'
  <2> DEFINE new == [owner |-> o, nonce |-> issued + 1, expiresAt |-> authTime + NonceTtl]
  <2>1. /\ issued' = issued + 1 /\ authTime' = authTime /\ checking' = checking /\ tokens' = tokens
        /\ \A c \in challenges' : c \in challenges \/ c = new
    BY <1>1 DEF challenge, sweep
  <2>2. new.nonce = issued + 1 /\ issued \in Nat /\ authTime \in Nat
    BY DEF AuthInv
  <2> HIDE DEF new
  <2>3. \A m \in 1..issued : m \in 1..(issued + 1) /\ m # issued + 1
    BY <2>2
  <2>4. ChallengesOK'
    BY <2>1, <2>2, <2>3 DEF AuthInv, ChallengesOK
  <2>5. CheckingOK'
    BY <2>1, <2>2, <2>3 DEF AuthInv, CheckingOK
  <2>6. TokensOK'
    BY <2>1, <2>2, <2>3 DEF AuthInv, TokensOK
  <2> QED BY <2>1, <2>2, <2>4, <2>5, <2>6 DEF AuthInv
<1>2. ASSUME NEW r \in checking, verifyMessage(r) PROVE AuthInv'
  <2>1. /\ checking' = checking \ {r} /\ challenges' = challenges /\ issued' = issued
        /\ authTime' = authTime
        /\ tokens' = IF r.signer = r.of.owner THEN tokens \cup {issueToken(r)} ELSE tokens
    BY <1>2 DEF verifyMessage
  <2>2. issueToken(r).by = r /\ issueToken(r).sub = r.of.owner
        /\ issueToken(r).exp = r.at + SessionTtl
    BY DEF issueToken
  <2>3. ChallengesOK' /\ CheckingOK'
    BY <2>1 DEF AuthInv, ChallengesOK, CheckingOK
  <2>4. ASSUME NEW a \in tokens'
        PROVE  /\ a.by.of.nonce \in 1..issued
               /\ a.by.signer = a.sub
               /\ a.by.at \in 0..authTime /\ a.by.at < a.by.of.expiresAt
               /\ a.exp = a.by.at + SessionTtl
               /\ \A c \in challenges : c.nonce # a.by.of.nonce
               /\ \A q \in checking' : q.of.nonce # a.by.of.nonce
    <3>1. CASE a \in tokens
      BY <2>1, <3>1 DEF AuthInv, TokensOK
    <3>2. CASE a \notin tokens
      <4>1. a.by = r /\ a.sub = r.signer /\ a.exp = r.at + SessionTtl
        BY <2>1, <2>2, <2>4, <3>2
      <4> QED BY <2>1, <4>1 DEF AuthInv, CheckingOK
    <3> QED BY <3>1, <3>2
  <2>5. \A a, b \in tokens' : a.by.of.nonce = b.by.of.nonce => a = b
    BY <2>1, <2>2 DEF AuthInv, TokensOK
  <2> QED BY <2>1, <2>3, <2>4, <2>5 DEF AuthInv, TokensOK
<1>3. CASE AuthTime
  <2>1. authTime' = authTime + 1 /\ authTime \in Nat
        /\ UNCHANGED <<challenges, issued, checking, tokens>>
    BY <1>3 DEF AuthTime, AuthInv
  <2>2. \A m \in 0..authTime : m \in 0..authTime'
    BY <2>1
  <2> QED BY <2>1, <2>2 DEF AuthInv, ChallengesOK, CheckingOK, TokensOK
<1>4. CASE AuthRestart
  BY <1>4 DEF AuthRestart, AuthInv, ChallengesOK, CheckingOK, TokensOK
<1>5. CASE UNCHANGED authVars
  BY <1>5 DEF authVars, AuthInv, ChallengesOK, CheckingOK, TokensOK
<1> QED BY <1>1, <1>2, <1>3, <1>4, <1>5, SessionStep DEF AuthNext

\* However often a session request is delivered while signatures are being checked, a
\* nonce buys at most one session, for the wallet that signed while the nonce lived.
THEOREM NoncesSpentOnce == AuthSpec => []NonceSpentOnce
<1>1. AuthInv => NonceSpentOnce
  <2> SUFFICES ASSUME AuthInv, NEW a \in tokens
               PROVE  a.by.signer = a.sub /\ a.by.at < a.by.of.expiresAt
                      /\ a.exp <= authTime + SessionTtl
    BY DEF AuthInv, TokensOK, NonceSpentOnce
  <2>1. a.by.at \in 0..authTime /\ authTime \in Nat /\ SessionTtl \in Nat
    BY AuthAssumption DEF AuthInv, TokensOK
  <2>2. a.exp <= authTime + SessionTtl
    BY <2>1 DEF AuthInv, TokensOK
  <2> QED BY <2>2 DEF AuthInv, TokensOK
<1> QED BY <1>1, AuthStart, AuthStep, PTL DEF AuthSpec
----------------------------------------------------------------------------
(* Custody.  A key is approved on chain before any record says so, and a    *)
(* client is made only from a record that says so.                          *)

KeyApproved(k) == \E a \in approvals : a.key = k

AgentRecord == [key : Nat, approved : BOOLEAN, validUntil : Nat]
SessionToken == [sub : AgentOwner, exp : Nat] \cup {NoToken}
ApprovalFlow == [pc : {"idle", "approve", "confirm"}, key : Nat, token : SessionToken,
                 signer : AgentOwner \cup {NoOne}]
Panel == [wallet : AgentOwner, token : SessionToken, shown : BOOLEAN, flow : ApprovalFlow]

AgentType ==
  /\ agTime \in Nat /\ keys \in Nat
  /\ agents \in [AgentOwner -> AgentRecord]
  /\ app \in [Device -> Panel]
  /\ clients \in [AgentOwner -> Nat]

RecordsBacked == \A o \in AgentOwner : agents[o].approved => KeyApproved(agents[o].key)
FlowsBacked   == \A d \in Device : app[d].flow.pc = "confirm" => KeyApproved(app[d].flow.key)
ClientsBacked == \A o \in AgentOwner : clients[o] # 0 => KeyApproved(clients[o])
CallsBacked   == \A c \in calls : KeyApproved(c)
OrderBacked   == placed # 0 => KeyApproved(placed)

CustodyInv ==
  AgentType /\ RecordsBacked /\ FlowsBacked /\ ClientsBacked /\ CallsBacked /\ OrderBacked

LEMMA CustodyStart == AgentInit => CustodyInv
<1> SUFFICES ASSUME AgentInit PROVE CustodyInv
  OBVIOUS
<1>1. NoAgent \in AgentRecord /\ Rest \in ApprovalFlow /\ NoToken \in SessionToken
  BY DEF AgentRecord, ApprovalFlow, SessionToken, NoAgent, NoToken, Rest
<1>2. AgentType
  BY <1>1, AgentAssumption DEF AgentInit, AgentType, Panel
<1>3. RecordsBacked /\ FlowsBacked /\ ClientsBacked /\ CallsBacked /\ OrderBacked
  BY DEF AgentInit, RecordsBacked, FlowsBacked, ClientsBacked, CallsBacked, OrderBacked,
     NoAgent, Rest
<1> QED BY <1>2, <1>3 DEF CustodyInv

\* A step that keeps the clients and the orders keeps the invariant when a record or a
\* flow that it changes is backed.
LEMMA AppStepKeeps ==
  ASSUME CustodyInv, UNCHANGED <<clients, calls, placed>>, approvals \subseteq approvals',
         agTime' = agTime, keys' \in Nat,
         agents' \in [AgentOwner -> AgentRecord],
         \A o \in AgentOwner : agents'[o].approved => \/ agents'[o] = agents[o]
                                                 \/ KeyApproved(agents'[o].key),
         NEW d \in Device, NEW p \in Panel, app' = [app EXCEPT ![d] = p],
         p.flow.pc = "confirm" => \/ p.flow = app[d].flow
                                  \/ \E a \in approvals' : a.key = p.flow.key
  PROVE  CustodyInv'
<1>1. \A k : KeyApproved(k) => KeyApproved(k)'
  BY DEF KeyApproved
<1>2. AgentType'
  BY DEF CustodyInv, AgentType
<1>3. RecordsBacked'
  BY <1>1 DEF CustodyInv, RecordsBacked
<1>4. FlowsBacked'
  BY <1>1 DEF CustodyInv, FlowsBacked, AgentType, KeyApproved
<1>5. ClientsBacked' /\ CallsBacked' /\ OrderBacked'
  BY <1>1 DEF CustodyInv, ClientsBacked, CallsBacked, OrderBacked
<1> QED BY <1>2, <1>3, <1>4, <1>5 DEF CustodyInv

\* The engine hands out a new key unapproved, or the record that already waits.
LEMMA ProvisionStep ==
  ASSUME CustodyInv, NEW d \in Device, ProvisionAgent(d)
  PROVE  CustodyInv'
<1> DEFINE o == app[d].token.sub
           f == approveAgentFlow(d, agents'[o].key)
           p == [app[d] EXCEPT !.flow = f]
<1>1. AgentType /\ app[d] \in Panel /\ app[d].token \in SessionToken /\ app[d].wallet \in AgentOwner
  BY DEF CustodyInv, AgentType, Panel
<1>2. o \in AgentOwner
  BY <1>1 DEF SessionToken, ProvisionAgent
<1>3. /\ agents' \in [AgentOwner -> AgentRecord] /\ keys' \in Nat
      /\ \A q \in AgentOwner : agents'[q].approved => agents'[q] = agents[q]
  <2>1. CASE UNCHANGED <<agents, keys>>
    BY <1>1, <2>1 DEF AgentType
  <2>2. CASE keys' = keys + 1 /\ setAgent(o, [NoAgent EXCEPT !.key = keys + 1])
    <3> DEFINE rec == [NoAgent EXCEPT !.key = keys + 1]
    <3>0. keys + 1 \in Nat
      BY <1>1 DEF AgentType
    <3>1. rec \in AgentRecord /\ rec.approved = FALSE
      BY <3>0 DEF AgentRecord, NoAgent
    <3>2. agents' = [agents EXCEPT ![o] = rec]
      BY <2>2 DEF setAgent
    <3>3. agents \in [AgentOwner -> AgentRecord]
      BY <1>1 DEF AgentType
    <3> HIDE DEF rec, o
    <3> QED BY <2>2, <3>0, <3>1, <3>2, <3>3
  <2> QED BY <2>1, <2>2 DEF ProvisionAgent, provision
<1>4. UNCHANGED <<agTime, approvals, clients, calls, placed>>
  BY DEF ProvisionAgent, orderVars
<1>5. agents'[o].key \in Nat
  BY <1>2, <1>3 DEF AgentRecord
<1>6. f \in ApprovalFlow /\ f.pc = "approve"
  BY <1>1, <1>5 DEF approveAgentFlow, ApprovalFlow
<1>7. app' = [app EXCEPT ![d].flow = f]
  BY DEF ProvisionAgent
<1> HIDE DEF f, o
<1>8. p \in Panel /\ p.flow = f
  BY <1>1, <1>6 DEF Panel
<1>9. app' = [app EXCEPT ![d] = p]
  BY <1>7
<1> HIDE DEF p
<1> QED BY <1>3, <1>4, <1>6, <1>8, <1>9, AppStepKeeps

\* The confirmed address is compared with the record's, so the record it enables is of
\* the key that was approved.
LEMMA ConfirmStep ==
  ASSUME CustodyInv, NEW d \in Device, ConfirmAgent(d)
  PROVE  CustodyInv'
<1> DEFINE f == app[d].flow
           sh == app[d].shown \/ (Authed(f.token) /\ agents'[f.token.sub].approved)
           p == [app[d] EXCEPT !.flow = Rest, !.shown = sh]
<1>1. AgentType /\ app[d] \in Panel /\ f \in ApprovalFlow /\ f.token \in SessionToken
  BY DEF CustodyInv, AgentType, Panel, ApprovalFlow
<1>2. f.pc = "confirm" /\ KeyApproved(f.key)
  BY DEF ConfirmAgent, CustodyInv, FlowsBacked
<1>3. UNCHANGED <<agTime, keys, approvals, clients, calls, placed>>
  BY DEF ConfirmAgent, orderVars
<1>4. /\ agents' \in [AgentOwner -> AgentRecord]
      /\ \A o \in AgentOwner : agents'[o].approved => agents'[o] = agents[o] \/ KeyApproved(agents'[o].key)
  <2>1. CASE UNCHANGED agents
    BY <1>1, <2>1 DEF AgentType
  <2>2. CASE ~UNCHANGED agents
    <3> DEFINE s == f.token.sub
               rec == [agents[s] EXCEPT !.approved = TRUE, !.validUntil = agTime + AgentTtl]
    <3>1. agents[s].key = f.key /\ agents' = [agents EXCEPT ![s] = rec]
      BY <2>2 DEF ConfirmAgent, confirm, setAgent
    <3>2. agTime + AgentTtl \in Nat
      BY <1>1, AgentAssumption DEF AgentType
    <3>3. s \in AgentOwner => rec \in AgentRecord /\ rec.key = f.key
      BY <1>1, <3>1, <3>2 DEF AgentType, AgentRecord
    <3> HIDE DEF rec, s, f
    <3> QED BY <1>1, <1>2, <3>1, <3>3 DEF AgentType
  <2> QED BY <2>1, <2>2
<1>5. app' = [app EXCEPT ![d].flow = Rest, ![d].shown = sh]
  BY DEF ConfirmAgent
<1>6. sh \in BOOLEAN
  OBVIOUS
<1>7. Rest \in ApprovalFlow /\ Rest.pc = "idle"
  BY DEF Rest, ApprovalFlow, SessionToken
<1> HIDE DEF f, sh
<1>8. p \in Panel /\ p.flow = Rest
  BY <1>1, <1>6, <1>7 DEF Panel
<1>9. app' = [app EXCEPT ![d] = p]
  BY <1>1, <1>5 DEF AgentType, Panel
<1> HIDE DEF p
<1> QED BY <1>1, <1>3, <1>4, <1>7, <1>8, <1>9, AppStepKeeps DEF AgentType

LEMMA ApproveStep ==
  ASSUME CustodyInv, NEW d \in Device, NEW lands \in BOOLEAN, NEW ack \in BOOLEAN,
         ApproveAgent(d, lands, ack)
  PROVE  CustodyInv'
<1> DEFINE f == app[d].flow
           g == IF ack THEN [f EXCEPT !.pc = "confirm"] ELSE Rest
           p == [app[d] EXCEPT !.flow = g]
<1>1. AgentType /\ app[d] \in Panel /\ f \in ApprovalFlow
  BY DEF CustodyInv, AgentType, Panel, ApprovalFlow
<1>2. UNCHANGED <<agTime, agents, keys, clients, calls, placed>>
  BY DEF ApproveAgent, engineVars, orderVars
<1>3. approvals \subseteq approvals' /\ (ack => \E a \in approvals' : a.key = f.key)
  <2>1. ack => lands
    BY DEF ApproveAgent
  <2>2. CASE lands
    <3> DEFINE new == [by |-> f.signer, key |-> f.key]
    <3>1. approvals' = approvals \cup {new}
      BY <2>2 DEF ApproveAgent
    <3>2. new.key = f.key
      OBVIOUS
    <3> QED BY <3>1, <3>2
  <2>3. CASE ~lands
    BY <2>1, <2>3 DEF ApproveAgent
  <2> QED BY <2>2, <2>3
<1>4. Rest \in ApprovalFlow /\ Rest.pc = "idle"
  BY DEF Rest, ApprovalFlow, SessionToken
<1>5. g \in ApprovalFlow /\ (g.pc = "confirm" => ack /\ g.key = f.key)
  BY <1>1, <1>4 DEF ApprovalFlow
<1>6. app' = [app EXCEPT ![d].flow = g]
  BY DEF ApproveAgent
<1> HIDE DEF g
<1>7. p \in Panel /\ p.flow = g
  BY <1>1, <1>5 DEF Panel
<1>8. app' = [app EXCEPT ![d] = p]
  BY <1>6
<1>9. p.flow.pc = "confirm" => \E a \in approvals' : a.key = p.flow.key
  BY <1>3, <1>5, <1>7
<1> HIDE DEF p, f
<1> QED BY <1>1, <1>2, <1>3, <1>7, <1>8, <1>9, AppStepKeeps DEF AgentType

\* The remaining steps of an app change its panel and at most remove a record.
LEMMA PanelStep ==
  ASSUME CustodyInv, NEW d \in Device,
         \/ Connect(d) \/ RevokeAgent(d) \/ RefreshPanel(d) \/ LockApp(d)
         \/ \E o \in AgentOwner : SwitchWallet(d, o)
  PROVE  CustodyInv'
<1>1. AgentType /\ app[d] \in Panel
  BY DEF CustodyInv, AgentType
<1>2. UNCHANGED <<agTime, keys, approvals, clients, calls, placed>>
  BY DEF Connect, RevokeAgent, RefreshPanel, LockApp, SwitchWallet, engineVars, orderVars
<1>3. /\ agents' \in [AgentOwner -> AgentRecord]
      /\ \A o \in AgentOwner : agents'[o].approved => agents'[o] = agents[o]
  <2>1. CASE UNCHANGED agents
    BY <1>1, <2>1 DEF AgentType
  <2>2. CASE RevokeAgent(d)
    <3>1. NoAgent \in AgentRecord /\ ~NoAgent.approved
      BY DEF NoAgent, AgentRecord
    <3> QED BY <1>1, <2>2, <3>1 DEF AgentType, RevokeAgent, setAgent
  <2> QED BY <2>1, <2>2 DEF Connect, RefreshPanel, LockApp, SwitchWallet, engineVars
<1>4. \E p \in Panel : p.flow = app[d].flow /\ app' = [app EXCEPT ![d] = p]
  <2>1. CASE Connect(d)
    <3> DEFINE tok == [sub |-> app[d].wallet, exp |-> agTime + TokenTtl]
               p == [app[d] EXCEPT !.token = tok, !.shown = FALSE]
    <3>1. tok \in SessionToken
      BY <1>1, AgentAssumption DEF SessionToken, AgentType, Panel
    <3>2. app' = [app EXCEPT ![d].token = tok, ![d].shown = FALSE]
      BY <2>1 DEF Connect
    <3> HIDE DEF tok
    <3>3. p \in Panel /\ p.flow = app[d].flow
      BY <1>1, <3>1 DEF Panel
    <3>4. app' = [app EXCEPT ![d] = p]
      BY <1>1, <3>2 DEF AgentType, Panel
    <3> QED BY <3>3, <3>4
  <2>2. CASE RevokeAgent(d)
    <3> DEFINE p == [app[d] EXCEPT !.shown = FALSE]
    <3>1. p \in Panel /\ p.flow = app[d].flow
      BY <1>1 DEF Panel
    <3>2. app' = [app EXCEPT ![d] = p]
      BY <2>2 DEF RevokeAgent
    <3> QED BY <3>1, <3>2
  <2>3. CASE RefreshPanel(d)
    <3> DEFINE st == status(app[d].token.sub)
               p == [app[d] EXCEPT !.shown = st]
    <3>1. st \in BOOLEAN
      BY <1>1, <2>3 DEF status, RefreshPanel, AgentType, AgentRecord, Panel, SessionToken
    <3>2. app' = [app EXCEPT ![d].shown = st]
      BY <2>3 DEF RefreshPanel
    <3> HIDE DEF st
    <3>3. p \in Panel /\ p.flow = app[d].flow
      BY <1>1, <3>1 DEF Panel
    <3>4. app' = [app EXCEPT ![d] = p]
      BY <3>2
    <3> QED BY <3>3, <3>4
  <2>4. CASE LockApp(d)
    <3> DEFINE p == [app[d] EXCEPT !.token = NoToken]
    <3>1. p \in Panel /\ p.flow = app[d].flow
      BY <1>1 DEF Panel, SessionToken
    <3>2. app' = [app EXCEPT ![d] = p]
      BY <2>4 DEF LockApp
    <3> QED BY <3>1, <3>2
  <2>5. ASSUME NEW o \in AgentOwner, SwitchWallet(d, o)
        PROVE  \E p \in Panel : p.flow = app[d].flow /\ app' = [app EXCEPT ![d] = p]
    <3> DEFINE p == [app[d] EXCEPT !.wallet = o]
    <3>1. p \in Panel /\ p.flow = app[d].flow
      BY <1>1 DEF Panel
    <3>2. app' = [app EXCEPT ![d] = p]
      BY <2>5 DEF SwitchWallet
    <3> QED BY <3>1, <3>2
  <2> QED BY <2>1, <2>2, <2>3, <2>4, <2>5
<1> QED BY <1>1, <1>2, <1>3, <1>4, AppStepKeeps DEF AgentType

LEMMA CustodyStep == CustodyInv /\ [AgentNext]_agentVars => CustodyInv'
<1> SUFFICES ASSUME CustodyInv, [AgentNext]_agentVars PROVE CustodyInv'
  OBVIOUS
<1> USE DEF CustodyInv, RecordsBacked, FlowsBacked, ClientsBacked, CallsBacked, OrderBacked,
        KeyApproved
<1>1. ASSUME NEW o \in AgentOwner, PlaceOrder(o) PROVE CustodyInv'
  <2>1. clientFor(o) \in Nat /\ KeyApproved(clientFor(o))
    BY <1>1 DEF PlaceOrder, status, clientFor, AgentType, AgentRecord
  <2>2. /\ clients' = [clients EXCEPT ![o] = clientFor(o)]
        /\ calls' = calls \cup {clientFor(o)}
        /\ UNCHANGED <<agTime, agents, keys, app, approvals, placed>>
    BY <1>1 DEF PlaceOrder
  <2>3. AgentType'
    BY <2>1, <2>2 DEF AgentType
  <2>4. ClientsBacked'
    BY <2>1, <2>2 DEF AgentType
  <2>5. RecordsBacked' /\ FlowsBacked' /\ CallsBacked' /\ OrderBacked'
    BY <2>1, <2>2
  <2> QED BY <2>3, <2>4, <2>5
<1>2. ASSUME NEW c \in calls, SignOrder(c) PROVE CustodyInv'
  BY <1>2 DEF SignOrder, engineVars, AgentType
<1>3. CASE RestartEngine
  BY <1>3 DEF RestartEngine, AgentType
<1>4. CASE AgentTime
  BY <1>4 DEF AgentTime, engineVars, orderVars, AgentType
<1>5. CASE UNCHANGED agentVars
  BY <1>5 DEF agentVars, AgentType
<1> HIDE DEF CustodyInv
<1> QED BY <1>1, <1>2, <1>3, <1>4, <1>5, ProvisionStep, ConfirmStep, ApproveStep, PanelStep
        DEF AgentNext

\* Whatever devices approve, confirm, revoke and switch wallets, and whenever the
\* engine restarts, an order is signed with a key some wallet approved on chain.
THEOREM OrdersUseApprovedKeys == AgentSpec => []OrdersSignedByApprovedKey
<1>1. CustodyInv => OrdersSignedByApprovedKey
  BY DEF CustodyInv, OrderBacked, KeyApproved, OrdersSignedByApprovedKey
<1> QED BY <1>1, CustodyStart, CustodyStep, PTL DEF AgentSpec
----------------------------------------------------------------------------
(* The builder fee.  Every yes the engine holds, in its cache or on its way,*)
(* is dated no later than the approval last held.                           *)

FeeEntry == [approved : {"yes", "no"}, at : Int]
FeeWait  == [at : Nat, answer : {"none", "asked", "yes", "no"}]

FeeType ==
  /\ feeTime \in Nat /\ feeOk \in BOOLEAN /\ feeHeld \in Int /\ late \in Int
  /\ feeCache \in FeeEntry
  /\ waiting \in [FeeCall -> FeeWait]

HeldUntilNow == feeHeld <= feeTime /\ (feeOk => feeHeld = feeTime)
CacheDated   == feeCache.approved = "yes" => feeCache.at <= feeHeld
WaitDated(w) ==
  /\ w.answer = "yes" => w.at <= feeHeld
  /\ w.answer # "none" => w.at <= feeTime /\ feeTime - w.at <= MaxLatency
WaitsDated   == \A c \in FeeCall : WaitDated(waiting[c])
LateBound    == late < PositiveTtl

FeeInv == FeeType /\ HeldUntilNow /\ CacheDated /\ WaitsDated /\ LateBound

LEMMA FeeConstants ==
  /\ PositiveTtl \in Nat /\ NegativeTtl \in Nat /\ MaxLatency \in Nat
  /\ MaxLatency < PositiveTtl /\ 0 < PositiveTtl
BY BuilderFeeAssumption

LEMMA FeeStart == FeeInit => FeeInv
<1> SUFFICES ASSUME FeeInit PROVE FeeInv
  OBVIOUS
<1>1. FeeType
  BY FeeConstants DEF FeeInit, FeeType, FeeEntry, FeeWait, NoFee, NoCall
<1>2. HeldUntilNow /\ CacheDated /\ WaitsDated /\ LateBound
  BY FeeConstants DEF FeeInit, HeldUntilNow, CacheDated, WaitsDated, WaitDated, LateBound,
     NoFee, NoCall
<1> QED BY <1>1, <1>2 DEF FeeInv

\* Changes of the clock and of the approval on chain only move both dates forward.
LEMMA ChainStep ==
  ASSUME FeeInv, UNCHANGED <<feeTime, feeCache, waiting, late>>,
         feeOk' \in BOOLEAN,
         feeHeld' \in {feeHeld, feeTime}, feeOk' => feeHeld' = feeTime
  PROVE  FeeInv'
<1>1. feeHeld' \in Int /\ feeHeld <= feeHeld' /\ feeHeld' <= feeTime /\ feeHeld \in Int
  BY DEF FeeInv, FeeType, HeldUntilNow
<1>2. FeeType' /\ HeldUntilNow' /\ LateBound'
  BY <1>1 DEF FeeInv, FeeType, HeldUntilNow, LateBound
<1>3. CacheDated'
  BY <1>1 DEF FeeInv, FeeType, FeeEntry, CacheDated
<1>4. WaitsDated'
  <2> SUFFICES ASSUME NEW c \in FeeCall PROVE WaitDated(waiting[c])'
    BY DEF WaitsDated
  <2>1. WaitDated(waiting[c]) /\ waiting[c] \in FeeWait
    BY DEF FeeInv, FeeType, WaitsDated
  <2> QED BY <1>1, <2>1 DEF WaitDated, FeeWait, FeeInv, FeeType
<1> QED BY <1>2, <1>3, <1>4 DEF FeeInv

LEMMA FeeTimeStep == ASSUME FeeInv, FeeTime PROVE FeeInv'
<1>1. /\ feeTime \in Nat /\ feeHeld \in Int /\ feeHeld <= feeTime /\ feeTime' = feeTime + 1
      /\ feeHeld' = IF feeOk THEN feeTime + 1 ELSE feeHeld
      /\ UNCHANGED <<feeOk, feeCache, waiting, late>>
  BY DEF FeeInv, FeeType, HeldUntilNow, FeeTime
<1>2. feeHeld' \in Int /\ feeHeld <= feeHeld' /\ feeHeld' <= feeTime' /\ feeTime' \in Nat
  BY <1>1
<1>3. FeeType' /\ HeldUntilNow' /\ LateBound'
  BY <1>1, <1>2 DEF FeeInv, FeeType, HeldUntilNow, LateBound
<1>4. CacheDated'
  BY <1>1, <1>2 DEF FeeInv, FeeType, FeeEntry, CacheDated
<1>5. WaitsDated'
  <2> SUFFICES ASSUME NEW c \in FeeCall PROVE WaitDated(waiting[c])'
    BY DEF WaitsDated
  <2>1. WaitDated(waiting[c]) /\ waiting[c] \in FeeWait
    BY DEF FeeInv, FeeType, WaitsDated
  <2>2. waiting[c].answer # "none" => feeTime - waiting[c].at < MaxLatency
    BY DEF FeeTime, NoCall
  <2> QED BY <1>1, <1>2, <2>1, <2>2, FeeConstants DEF WaitDated, FeeWait
<1> QED BY <1>3, <1>4, <1>5 DEF FeeInv

\* A step of one call, which replaces what it waits for by w.
LEMMA CallStep ==
  ASSUME FeeInv, NEW c \in FeeCall, NEW w \in FeeWait, WaitDated(w),
         waiting' = [waiting EXCEPT ![c] = w],
         UNCHANGED <<feeTime, feeOk, feeHeld>>,
         feeCache' \in FeeEntry, CacheDated', late' \in Int, late' < PositiveTtl
  PROVE  FeeInv'
<1>1. FeeType'
  BY DEF FeeInv, FeeType
<1>2. HeldUntilNow' /\ LateBound'
  BY DEF FeeInv, HeldUntilNow, LateBound
<1>3. \A v : WaitDated(v) => WaitDated(v)'
  BY DEF WaitDated
<1>4. WaitsDated'
  BY <1>3 DEF FeeInv, FeeType, WaitsDated, WaitDated
<1> QED BY <1>1, <1>2, <1>4 DEF FeeInv

LEMMA FeeStep == FeeInv /\ [FeeNext]_feeVars => FeeInv'
<1> SUFFICES ASSUME FeeInv, [FeeNext]_feeVars PROVE FeeInv'
  OBVIOUS
<1>0. /\ feeTime \in Nat /\ feeHeld \in Int /\ late \in Int /\ feeCache \in FeeEntry
      /\ feeHeld <= feeTime /\ CacheDated /\ late < PositiveTtl
      /\ waiting \in [FeeCall -> FeeWait]
  BY DEF FeeInv, FeeType, HeldUntilNow, LateBound
<1>1. ASSUME NEW c \in FeeCall, builderFor(c) PROVE FeeInv'
  <2>1. UNCHANGED <<feeTime, feeOk, feeHeld, feeCache>>
    BY <1>1 DEF builderFor
  <2>2. CacheDated'
    BY <1>0, <2>1 DEF CacheDated
  <2>3. CASE fresh(feeTime)
    <3>1. late' = (IF feeCache.approved = "yes" THEN feeTime - feeHeld ELSE 0) /\ waiting' = waiting
      BY <1>1, <2>3 DEF builderFor, Attach
    <3>2. feeCache.approved = "yes" => feeTime - feeCache.at < PositiveTtl /\ feeCache.at <= feeHeld
      BY <1>0, <2>3 DEF fresh, CacheDated
    <3>3. late' \in Int /\ late' < PositiveTtl
      BY <1>0, <3>1, <3>2, FeeConstants DEF FeeEntry
    <3> QED BY <2>1, <3>1, <3>3 DEF FeeInv, FeeType, HeldUntilNow, CacheDated, WaitsDated,
               WaitDated, LateBound
  <2>4. CASE ~fresh(feeTime)
    <3> DEFINE w == [at |-> feeTime, answer |-> "asked"]
    <3>1. waiting' = [waiting EXCEPT ![c] = w] /\ late' = late
      BY <1>1, <2>4 DEF builderFor
    <3>2. w \in FeeWait /\ WaitDated(w)
      BY <1>0, FeeConstants DEF FeeWait, WaitDated
    <3> HIDE DEF w
    <3> QED BY <1>0, <2>1, <2>2, <3>1, <3>2, CallStep
  <2> QED BY <2>3, <2>4
<1>2. ASSUME NEW c \in FeeCall, Answered(c) PROVE FeeInv'
  <2>1. waiting[c] \in FeeWait /\ WaitDated(waiting[c])
    BY <1>0 DEF FeeInv, WaitsDated
  <2>2. /\ waiting[c].answer \in {"yes", "no"} /\ feeCache' = entry(c)
        /\ waiting' = [waiting EXCEPT ![c] = NoCall]
        /\ late' = (IF waiting[c].answer = "yes" THEN feeTime - feeHeld ELSE 0)
        /\ UNCHANGED <<feeTime, feeOk, feeHeld>>
    BY <1>2 DEF Answered, Attach
  <2>3. entry(c) \in FeeEntry /\ entry(c).approved = waiting[c].answer /\ entry(c).at = waiting[c].at
    BY <2>1, <2>2 DEF entry, FeeEntry, FeeWait
  <2>4. CacheDated'
    BY <2>1, <2>2, <2>3 DEF CacheDated, WaitDated
  <2>5. late' \in Int /\ late' < PositiveTtl
    BY <1>0, <2>1, <2>2, FeeConstants DEF WaitDated, FeeWait
  <2>6. NoCall \in FeeWait /\ WaitDated(NoCall)
    BY DEF NoCall, FeeWait, WaitDated
  <2> QED BY <2>2, <2>3, <2>4, <2>5, <2>6, CallStep
<1>3. ASSUME NEW c \in FeeCall, NEW a \in {"yes", "no"}, maxBuilderFee(c, a) PROVE FeeInv'
  <2> DEFINE w == [waiting[c] EXCEPT !.answer = a]
  <2>1. waiting[c] \in FeeWait /\ WaitDated(waiting[c])
    BY <1>0 DEF FeeInv, WaitsDated
  <2>2. /\ waiting[c].answer = "asked" /\ (a = "yes" => feeHeld = feeTime)
        /\ waiting' = [waiting EXCEPT ![c] = w]
        /\ UNCHANGED <<feeTime, feeOk, feeHeld, feeCache, late>>
    BY <1>3 DEF maxBuilderFee, FeeInv, HeldUntilNow
  <2>3. w \in FeeWait /\ w.at = waiting[c].at /\ w.answer = a
    BY <2>1 DEF FeeWait
  <2>4. WaitDated(w)
    BY <2>1, <2>2, <2>3 DEF WaitDated
  <2>5. CacheDated'
    BY <1>0, <2>2 DEF CacheDated
  <2> HIDE DEF w
  <2> QED BY <1>0, <2>2, <2>3, <2>4, <2>5, CallStep
<1>4. CASE approveBuilderFee
  BY <1>0, <1>4, ChainStep DEF approveBuilderFee
<1>5. CASE FeeRestart
  <2>1. NoFee \in FeeEntry /\ NoFee.approved = "no" /\ NoCall \in FeeWait /\ WaitDated(NoCall)
    BY FeeConstants DEF NoFee, NoCall, FeeEntry, FeeWait, WaitDated
  <2> QED BY <1>5, <2>1 DEF FeeRestart, FeeInv, FeeType, HeldUntilNow, CacheDated, WaitsDated,
             WaitDated, LateBound
<1>6. CASE FeeTime
  BY <1>6, FeeTimeStep
<1>7. CASE UNCHANGED feeVars
  BY <1>7 DEF feeVars, FeeInv, FeeType, HeldUntilNow, CacheDated, WaitsDated, WaitDated, LateBound
<1> QED BY <1>1, <1>2, <1>3, <1>4, <1>5, <1>6, <1>7 DEF FeeNext

(* The app.  Its gate opens, and a query tells approved, only when the      *)
(* approval was seen on the network of the order under way - unless the     *)
(* network changed beneath it.                                              *)

AppFeeType ==
  /\ feeNet \in {"main", "test"} /\ testOk \in BOOLEAN
  /\ seen \in BOOLEAN /\ straddled \in BOOLEAN
  /\ gate \in [approved : BOOLEAN, suppressed : BOOLEAN]
  /\ submit \in [at : {"idle", "ask", "told", "prompt", "approve", "place"},
                 net : {"main", "test"}, status : {"none", "approved", "unapproved", "unknown"}]

OrderOnItsNet == submit.at # "idle" /\ ~straddled => submit.net = feeNet
SeenIfApproved == approvedOn(feeNet) => seen
GateEarned == gate.approved => seen \/ straddled
ToldTruly == submit.at = "told" /\ submit.status = "approved" => seen \/ straddled

AppFeeInv ==
  AppFeeType /\ OrderOnItsNet /\ SeenIfApproved /\ GateEarned /\ ToldTruly /\ ~feeOrder

LEMMA AppFeeStart == FeeInit /\ AppFeeInit => AppFeeInv
<1> SUFFICES ASSUME FeeInit, AppFeeInit PROVE AppFeeInv
  OBVIOUS
<1>1. AppFeeType
  BY DEF FeeInit, AppFeeInit, NoSubmit, AppFeeType
<1>2. OrderOnItsNet /\ SeenIfApproved /\ GateEarned /\ ToldTruly
  BY DEF AppFeeInit, NoSubmit, OrderOnItsNet, SeenIfApproved, GateEarned, ToldTruly, approvedOn
<1>3. ~feeOrder
  BY DEF AppFeeInit
<1> QED BY <1>1, <1>2, <1>3 DEF AppFeeInv

LEMMA AppFeeStep ==
  FeeInv /\ AppFeeInv /\ [AppFeeNext]_<<feeVars, appFeeVars>> => AppFeeInv'
<1> SUFFICES ASSUME FeeInv, AppFeeInv, [AppFeeNext]_<<feeVars, appFeeVars>> PROVE AppFeeInv'
  OBVIOUS
<1>0. feeOk \in BOOLEAN
  BY DEF FeeInv, FeeType
<1> USE DEF AppFeeInv, AppFeeType, OrderOnItsNet, SeenIfApproved, GateEarned, ToldTruly,
        approvedOn, feeVars
<1>1. CASE tapSubmit /\ UNCHANGED feeVars
  BY <1>1 DEF tapSubmit
<1>2. CASE queryBuilderApproval /\ UNCHANGED feeVars
  BY <1>2 DEF queryBuilderApproval
<1>3. CASE ensureBuilderApproval /\ UNCHANGED feeVars
  BY <1>3 DEF ensureBuilderApproval
<1>4. CASE placeWithFee /\ UNCHANGED feeVars
  BY <1>4 DEF placeWithFee, builderAttach, NoSubmit
<1>5. CASE feeSwitchNetwork /\ UNCHANGED feeVars
  <2>1. feeNet' \in {"main", "test"} /\ seen' = approvedOn(feeNet') /\ seen' \in BOOLEAN
    BY <1>0, <1>5 DEF feeSwitchNetwork
  <2>2. straddled' = (submit # NoSubmit) /\ straddled' \in BOOLEAN
    BY <1>5 DEF feeSwitchNetwork
  <2>3. submit.at # "idle" => straddled'
    <3>1. NoSubmit.at = "idle"
      BY DEF NoSubmit
    <3> HIDE DEF AppFeeInv, feeVars
    <3> QED BY <2>2, <3>1, Zenon
  <2>4. gate' = [approved |-> FALSE, suppressed |-> FALSE]
    BY <1>5 DEF feeSwitchNetwork, reset
  <2>5. UNCHANGED <<testOk, submit, feeOrder, feeOk>>
    BY <1>5 DEF feeSwitchNetwork
  <2> QED BY <2>1, <2>2, <2>3, <2>4, <2>5
<1>6. ASSUME NEW confirmed \in BOOLEAN, promptAnswered(confirmed), UNCHANGED feeVars
      PROVE  AppFeeInv'
  BY <1>6 DEF promptAnswered
<1>7. ASSUME NEW taken \in BOOLEAN, NEW answered \in BOOLEAN, approveFee(taken, answered)
      PROVE  AppFeeInv'
  <2>1. /\ submit.at = "approve" /\ submit' = [submit EXCEPT !.at = "place"]
        /\ (answered => taken)
        /\ UNCHANGED <<feeNet, straddled, feeOrder>>
    BY <1>7 DEF approveFee
  <2>2. gate' = IF answered THEN [gate EXCEPT !.approved = TRUE] ELSE [gate EXCEPT !.suppressed = TRUE]
    BY <1>7 DEF approveFee
  <2>3. CASE taken
    <3>1. seen' = TRUE /\ testOk' \in BOOLEAN
      BY <1>7, <2>3 DEF approveFee, signApproval
    <3> QED BY <2>1, <2>2, <3>1
  <2>4. CASE ~taken
    <3>1. UNCHANGED <<feeOk, testOk, seen>>
      BY <1>7, <2>4 DEF approveFee
    <3> QED BY <2>1, <2>2, <2>4, <3>1
  <2> QED BY <2>3, <2>4
<1>8. CASE EngineStep
  BY <1>8 DEF EngineStep
<1>9. CASE UNCHANGED <<feeVars, appFeeVars>>
  BY <1>9 DEF appFeeVars
<1> QED BY <1>1, <1>2, <1>3, <1>4, <1>5, <1>6, <1>7, <1>8, <1>9 DEF AppFeeNext, AppStep

\* What the app does changes the engine's half only by an approval on chain.
LEMMA FeeKept == FeeInv /\ [AppFeeNext]_<<feeVars, appFeeVars>> => FeeInv'
<1> SUFFICES ASSUME FeeInv, [AppFeeNext]_<<feeVars, appFeeVars>> PROVE FeeInv'
  OBVIOUS
<1>1. CASE [FeeNext]_feeVars
  BY <1>1, FeeStep
<1>2. ASSUME NEW taken \in BOOLEAN, NEW answered \in BOOLEAN, approveFee(taken, answered),
             UNCHANGED <<feeTime, feeCache, waiting, late, flips>>
      PROVE  FeeInv'
  <2>1. feeOk \in BOOLEAN /\ feeHeld <= feeTime /\ (feeOk => feeHeld = feeTime)
    BY DEF FeeInv, FeeType, HeldUntilNow
  <2>2. feeOk' \in BOOLEAN /\ feeHeld' \in {feeHeld, feeTime} /\ (feeOk' => feeHeld' = feeTime)
    BY <1>2, <2>1 DEF approveFee, signApproval
  <2> QED BY <1>2, <2>2, ChainStep
<1> QED BY <1>1, <1>2 DEF AppFeeNext, AppStep, EngineStep

\* Whatever the answers in flight, the changes on chain and the switches of network, the
\* engine attaches the builder within PositiveTtl of an approval, and the app only after
\* one on the order's network in this session.
THEOREM BuilderFeesInTheirWindow == AppFeeSpec => []BuilderFeeWindow
<1>1. FeeInv /\ AppFeeInv => BuilderFeeWindow
  BY DEF FeeInv, LateBound, AppFeeInv, BuilderFeeWindow
<1> QED BY <1>1, FeeStart, FeeKept, AppFeeStart, AppFeeStep, PTL DEF AppFeeSpec

----------------------------------------------------------------------------
(* The symmetric grid.  The order of a tick is named by the actions done    *)
(* when the tick began, and a name trades once: while it has not traded,    *)
(* the position the tick read counts every trade of the grid.               *)

GridStrat == {s \in Strat : PosKind[s] = "grid"}

PosRow    == [status : {"running", "completed"}, trailPeak : Int, lastLevel : Int, actionsDone : Nat]
PosOrder  == [size : Nat, side : {"buy", "sell"}, reduce : BOOLEAN,
              slot : (Strat \cup {0}) \X Nat, level : Int]
PosSlots  == Strat \X Nat
TickState == [pc : {"idle", "read", "decide", "placing"}, now : Nat, n : DOMAIN PosStrategy \cup {0},
              rows : [Strat -> PosRow] \cup {<<>>}, szi : Int, seen : SUBSET PosSlots, order : PosOrder]

\* A tick under way is at a strategy and holds a copy of the rows; its order is its
\* strategy's.
Walking(p) ==
  p.pc # "idle" =>
    /\ p.n \in DOMAIN PosStrategy /\ p.rows \in [Strat -> PosRow]
    /\ p.pc = "placing" => p.order.slot \in PosSlots /\ p.order.slot[1] = PosStrategy[p.n]

PosType ==
  /\ szi \in [Coin -> Int]
  /\ prow \in [Strat -> PosRow]
  /\ pclock \in Nat
  /\ traded \subseteq PosSlots
  /\ ptick \in [PosTick -> TickState]
  /\ \A t \in PosTick : Walking(ptick[t])

SlotsSpent(s) == \A m \in Nat : m < prow[s].actionsDone => <<s, m>> \in traded

\* A tick's copy is no newer than the row; what it read counts the grid's trades unless
\* its name has traded.
GridTick(s, p) ==
  p.pc # "idle" =>
    /\ p.rows[s].actionsDone <= prow[s].actionsDone
    /\ PosStrategy[p.n] = s /\ p.pc \in {"decide", "placing"}
         /\ <<s, p.rows[s].actionsDone>> \notin traded => tradesOf(s) \subseteq p.seen
    /\ PosStrategy[p.n] = s /\ p.pc = "placing" =>
         p.order.slot = <<s, p.rows[s].actionsDone>>

GridInv(s) == SlotsSpent(s) /\ \A t \in PosTick : GridTick(s, ptick[t])

PosInv == PosType /\ \A s \in GridStrat : GridInv(s)

LEMMA PosStart == PosInit => PosInv
<1> SUFFICES ASSUME PosInit PROVE PosInv
  OBVIOUS
<1>1. NewRow \in PosRow /\ NewRow.actionsDone = 0
  BY DEF NewRow, PosRow
<1>2. NoOrderYet \in PosOrder
  BY DEF NoOrderYet, PosOrder
<1>3. IdlePos \in TickState /\ IdlePos.pc = "idle"
  BY <1>2 DEF IdlePos, TickState
<1>4. \A c \in Coin : szi[c] \in Int
  BY PositionsAssumption DEF PosInit
<1>5. PosType
  BY <1>1, <1>3, <1>4 DEF PosInit, PosType, Walking
<1>6. ASSUME NEW s \in GridStrat PROVE GridInv(s)
  <2>1. s \in Strat /\ CoinOf[s] \in Coin
    BY DEF GridStrat, Coin
  <2>2. SlotsSpent(s)
    BY <1>1, <2>1 DEF PosInit, SlotsSpent
  <2>4. \A t \in PosTick : GridTick(s, ptick[t])
    BY <1>3 DEF PosInit, GridTick
  <2> QED BY <2>2, <2>4 DEF GridInv
<1> QED BY <1>5, <1>6 DEF PosInv

\* A step of tick t that trades nothing and counts no action.
LEMMA QuietTick ==
  ASSUME PosInv, NEW t \in PosTick, NEW p \in TickState, ptick' = [ptick EXCEPT ![t] = p],
         Walking(p), \A s \in GridStrat : GridTick(s, p),
         UNCHANGED <<szi, traded>>, pclock' \in Nat,
         prow' \in [Strat -> PosRow],
         \A s \in Strat : prow'[s].actionsDone = prow[s].actionsDone
  PROVE  PosInv'
<1>1. PosType'
  BY DEF PosInv, PosType
<1>2. ASSUME NEW s \in GridStrat PROVE GridInv(s)'
  <2>1. s \in Strat /\ GridInv(s) /\ prow'[s].actionsDone = prow[s].actionsDone
    BY DEF GridStrat, PosInv
  <2>2. SlotsSpent(s)'
    BY <2>1 DEF GridInv, SlotsSpent
  <2>3. \A q : GridTick(s, q) => GridTick(s, q)'
    BY <2>1 DEF GridTick, tradesOf
  <2>4. \A u \in PosTick : ptick'[u] = ptick[u] \/ ptick'[u] = p
    BY DEF PosInv, PosType
  <2>5. \A u \in PosTick : GridTick(s, ptick'[u])
    BY <2>1, <2>4 DEF GridInv
  <2>6. \A u \in PosTick : GridTick(s, ptick[u])'
    BY <2>1, <2>5 DEF GridTick, tradesOf
  <2> QED BY <2>2, <2>6 DEF GridInv
<1> QED BY <1>1, <1>2 DEF PosInv

\* Where GoOn takes a tick: to the next strategy, or to rest.
NextStop(p) ==
  IF p.n + 1 \in DOMAIN PosStrategy
  THEN [p EXCEPT !.pc = "read", !.n = p.n + 1, !.szi = 0, !.seen = {}, !.order = NoOrderYet]
  ELSE IdlePos

LEMMA GoOnTick ==
  ASSUME PosInv, NEW t \in PosTick, ptick[t].pc # "idle", GoOn(t)
  PROVE  \E p \in TickState :
           /\ ptick' = [ptick EXCEPT ![t] = p]
           /\ p.pc \in {"idle", "read"}
           /\ p.pc # "idle" => p.n \in DOMAIN PosStrategy /\ p.rows = ptick[t].rows
<1>1. ptick[t] \in TickState
  BY DEF PosInv, PosType
<1>2. NoOrderYet \in PosOrder
  BY DEF NoOrderYet, PosOrder
<1> DEFINE p == NextStop(ptick[t])
<1>3. ptick' = [ptick EXCEPT ![t] = p]
  BY DEF GoOn, PosSet, NextStop
<1>4. CASE ptick[t].n + 1 \in DOMAIN PosStrategy
  <2> DEFINE q == [ptick[t] EXCEPT !.pc = "read", !.n = ptick[t].n + 1, !.szi = 0, !.seen = {}, !.order = NoOrderYet]
  <2>1. p = q
    BY <1>4 DEF NextStop
  <2>2. q \in TickState /\ q.pc = "read" /\ q.n = ptick[t].n + 1 /\ q.rows = ptick[t].rows
    <3> DEFINE k == ptick[t].n + 1
    <3>0. k \in DOMAIN PosStrategy \cup {0} /\ 0 \in Int /\ "read" \in {"idle", "read", "decide", "placing"}
      BY <1>4
    <3> HIDE DEF k
    <3>1. [ptick[t] EXCEPT !.pc = "read", !.n = k, !.szi = 0, !.seen = {}, !.order = NoOrderYet] \in TickState
      BY <1>1, <1>2, <3>0 DEF TickState
    <3> QED BY <1>1, <3>1 DEF TickState, k
  <2> HIDE DEF p, q
  <2> QED BY <1>3, <1>4, <2>1, <2>2
<1>5. CASE ptick[t].n + 1 \notin DOMAIN PosStrategy
  <2>1. IdlePos \in TickState /\ IdlePos.pc = "idle"
    BY <1>2 DEF IdlePos, TickState
  <2> QED BY <1>3, <1>5, <2>1 DEF NextStop
<1> QED BY <1>4, <1>5

LEMMA QuietGoOn ==
  ASSUME PosInv, NEW t \in PosTick, ptick[t].pc # "idle", GoOn(t),
         UNCHANGED <<szi, traded>>, pclock' \in Nat, prow' \in [Strat -> PosRow],
         \A s \in Strat : prow'[s].actionsDone = prow[s].actionsDone
  PROVE  PosInv'
<1>1. PICK p \in TickState :
        /\ ptick' = [ptick EXCEPT ![t] = p]
        /\ p.pc \in {"idle", "read"}
        /\ p.pc # "idle" => p.n \in DOMAIN PosStrategy /\ p.rows = ptick[t].rows
  BY GoOnTick
<1>2. Walking(p)
  BY <1>1 DEF PosInv, PosType, Walking
<1>3. ASSUME NEW s \in GridStrat PROVE GridTick(s, p)
  <2>1. GridTick(s, ptick[t])
    BY DEF PosInv, GridInv
  <2> QED BY <1>1, <2>1 DEF GridTick
<1> QED BY <1>1, <1>2, <1>3, QuietTick

LEMMA BeginStep ==
  ASSUME PosInv, NEW t \in PosTick, PosTickBegin(t) PROVE PosInv'
<1> DEFINE p == [IdlePos EXCEPT !.pc = "read", !.now = pclock + 1, !.n = 1, !.rows = prow]
<1>1. /\ ptick' = [ptick EXCEPT ![t] = p] /\ pclock' = pclock + 1
      /\ UNCHANGED <<szi, prow, traded>>
  BY DEF PosTickBegin, PosSet
<1>2. prow \in [Strat -> PosRow] /\ pclock \in Nat
  BY DEF PosInv, PosType
<1>3. p \in TickState /\ p.pc = "read" /\ p.n = 1 /\ p.rows = prow
  <2>1. NoOrderYet \in PosOrder
    BY DEF NoOrderYet, PosOrder
  <2>2. IdlePos \in TickState
    BY <2>1 DEF IdlePos, TickState
  <2>3. 1 \in DOMAIN PosStrategy /\ pclock + 1 \in Nat
    BY <1>2, PositionsAssumption
  <2> QED BY <1>2, <2>2, <2>3 DEF TickState
<1>4. ASSUME NEW s \in GridStrat PROVE GridTick(s, p)
  <2> HIDE DEF p
  <2>1. prow[s].actionsDone \in Nat
    BY <1>2 DEF GridStrat, PosRow
  <2> QED BY <1>3, <2>1 DEF GridTick
<1> HIDE DEF p
<1>5. Walking(p) /\ pclock' \in Nat
  BY <1>1, <1>2, <1>3, PositionsAssumption DEF Walking
<1> QED BY <1>1, <1>2, <1>3, <1>4, <1>5, QuietTick

LEMMA ReadStep ==
  ASSUME PosInv, NEW t \in PosTick, resolvePosition(t) PROVE PosInv'
<1>1. /\ ptick[t].pc = "read" /\ UNCHANGED <<szi, prow, traded, pclock>>
      /\ ptick[t] \in TickState /\ prow \in [Strat -> PosRow] /\ pclock \in Nat
      /\ ptick[t].n \in DOMAIN PosStrategy /\ ptick[t].rows \in [Strat -> PosRow]
  BY DEF PosInv, PosType, Walking, resolvePosition
<1>2. CASE GoOn(t)
  BY <1>1, <1>2, QuietGoOn
<1> DEFINE z == szi[CoinOf[At(t)]]
           e == tradesOf(At(t))
           p == [ptick[t] EXCEPT !.pc = "decide", !.szi = z, !.seen = e]
<1>3. CASE PosSet(t, p)
  <2>1. At(t) = PosStrategy[ptick[t].n] /\ At(t) \in Strat
    BY <1>1 DEF At, Strat
  <2>2. z \in Int /\ e \in SUBSET PosSlots /\ e = tradesOf(At(t))
    BY <2>1 DEF PosInv, PosType, Coin, tradesOf
  <2>3. ptick' = [ptick EXCEPT ![t] = p]
    BY <1>3 DEF PosSet
  <2> HIDE DEF z, e
  <2>4. /\ p \in TickState /\ p.pc = "decide" /\ p.n = ptick[t].n /\ p.rows = ptick[t].rows
        /\ p.seen = e
    BY <1>1, <2>2 DEF TickState
  <2> HIDE DEF p
  <2>5. ASSUME NEW s \in GridStrat PROVE GridTick(s, p)
    <3>1. GridTick(s, ptick[t])
      BY DEF PosInv, GridInv
    <3>2. PosStrategy[p.n] = s => tradesOf(s) \subseteq p.seen
      BY <2>1, <2>2, <2>4
    <3> QED BY <1>1, <2>4, <3>1, <3>2 DEF GridTick
  <2>6. Walking(p)
    BY <1>1, <2>4 DEF Walking
  <2> QED BY <1>1, <2>3, <2>4, <2>5, <2>6, QuietTick
<1> QED BY <1>2, <1>3 DEF resolvePosition

\* An order awaited: what it names is of the tick's copy.
LEMMA AwaitStep ==
  ASSUME PosInv, NEW t \in PosTick, ptick[t].pc = "decide", NEW o \in PosOrder,
         AwaitOrder(t, o),
         o.slot \in PosSlots, o.slot[1] = At(t),
         At(t) \in GridStrat => o.slot = <<At(t), RowOf(t).actionsDone>>,
         UNCHANGED <<szi, traded, pclock>>, prow' \in [Strat -> PosRow],
         \A s \in Strat : prow'[s].actionsDone = prow[s].actionsDone
  PROVE  PosInv'
<1> DEFINE p == [ptick[t] EXCEPT !.pc = "placing", !.order = o]
<1>1. ptick' = [ptick EXCEPT ![t] = p]
  BY DEF AwaitOrder, PosSet
<1>2. /\ ptick[t] \in TickState /\ pclock' \in Nat
      /\ ptick[t].n \in DOMAIN PosStrategy /\ ptick[t].rows \in [Strat -> PosRow]
  BY DEF PosInv, PosType, Walking
<1>3. /\ p \in TickState /\ p.pc = "placing" /\ p.n = ptick[t].n /\ p.rows = ptick[t].rows
      /\ p.seen = ptick[t].seen /\ p.order = o
  BY <1>2 DEF TickState
<1> HIDE DEF p
<1>4. ASSUME NEW s \in GridStrat PROVE GridTick(s, p)
  <2>1. GridTick(s, ptick[t])
    BY DEF PosInv, GridInv
  <2>2. PosStrategy[p.n] = s => o.slot = <<s, p.rows[s].actionsDone>>
    BY <1>3 DEF At, RowOf
  <2> QED BY <1>3, <2>1, <2>2 DEF GridTick
<1>5. Walking(p)
  BY <1>2, <1>3 DEF Walking, At
<1> QED BY <1>1, <1>2, <1>3, <1>4, <1>5, QuietTick

\* What a tick that decides or places holds.
LEMMA BusyTick ==
  ASSUME PosInv, NEW t \in PosTick, ptick[t].pc \in {"decide", "placing"}
  PROVE  /\ ptick[t] \in TickState /\ ptick[t].n \in DOMAIN PosStrategy
         /\ ptick[t].rows \in [Strat -> PosRow] /\ At(t) \in Strat /\ RowOf(t) \in PosRow
         /\ ptick[t].szi \in Int /\ ptick[t].now \in Nat /\ CoinOf[At(t)] \in Coin
<1>1. ptick[t] \in TickState /\ ptick[t].n \in DOMAIN PosStrategy /\ ptick[t].rows \in [Strat -> PosRow]
  BY DEF PosInv, PosType, Walking
<1>2. At(t) \in Strat /\ CoinOf[At(t)] \in Coin
  BY <1>1 DEF At, Strat, Coin
<1>3. RowOf(t) \in PosRow
  BY <1>1, <1>2 DEF RowOf
<1> QED BY <1>1, <1>2, <1>3 DEF TickState

\* Rounded to the nearest, an integer.
LEMMA RoundIsInt == \A a, b \in Int : b > 0 => roundDiv(a, b) \in Int
<1> SUFFICES ASSUME NEW a \in Int, NEW b \in Int, b > 0 PROVE roundDiv(a, b) \in Int
  OBVIOUS
<1>1. 2 * a + b \in Int /\ 2 * b \in Int /\ 2 * b > 0
  OBVIOUS
<1>2. \A x, y \in Int : y > 0 => x \div y \in Int
  OBVIOUS
<1> QED BY <1>1, <1>2 DEF roundDiv

LEMMA BandIsInt == \A mark \in Price : bandIndex(mark) \in Int
<1> SUFFICES ASSUME NEW mark \in Price PROVE bandIndex(mark) \in Int
  OBVIOUS
<1>1. mark - LowerPrice \in Int /\ GridStep \in Int /\ GridStep > 0 /\ GridLevels - 1 \in Int
  BY PositionsAssumption
<1>2. roundDiv(mark - LowerPrice, GridStep) \in Int
  BY <1>1, RoundIsInt
<1> QED BY <1>1, <1>2 DEF bandIndex

\* An order of a grid, at whatever price the placer finds, or none.
LEMMA PlaceStep ==
  ASSUME PosInv, NEW t \in PosTick, ptick[t].pc = "decide",
         NEW side \in {"buy", "sell"}, NEW usdc2 \in Int, NEW band \in Int,
         PlaceUsdc(t, side, usdc2, band), UNCHANGED <<szi, prow, traded, pclock>>
  PROVE  PosInv'
<1>1. /\ At(t) \in Strat /\ RowOf(t) \in PosRow /\ RowOf(t).actionsDone \in Nat
      /\ prow' \in [Strat -> PosRow] /\ pclock' \in Nat
  BY BusyTick DEF PosRow, PosInv, PosType
<1>2. PICK price \in Price :
        LET size == roundDiv(usdc2, 2 * price) IN
        IF size > 0 THEN AwaitOrder(t, GridOrder(t, side, size, band)) ELSE GoOn(t)
  BY DEF PlaceUsdc
<1> DEFINE size == roundDiv(usdc2, 2 * price)
           o == GridOrder(t, side, size, band)
<1>3. size \in Int
  <2>1. 2 * price \in Int /\ 2 * price > 0
    BY PositionsAssumption
  <2> QED BY <2>1, RoundIsInt
<1>4. CASE GoOn(t)
  BY <1>1, <1>4, QuietGoOn
<1>5. CASE size > 0 /\ AwaitOrder(t, o)
  <2>1. size \in Nat
    BY <1>3, <1>5
  <2>2. AwaitOrder(t, o)
    BY <1>5
  <2> HIDE DEF size
  <2>3. o \in PosOrder /\ o.slot = <<At(t), RowOf(t).actionsDone>>
    BY <1>1, <2>1 DEF GridOrder, PosOrder
  <2>4. <<At(t), RowOf(t).actionsDone>> \in PosSlots
    BY <1>1 DEF PosSlots
  <2> HIDE DEF o
  <2> QED BY <1>1, <2>2, <2>3, <2>4, AwaitStep
<1> QED BY <1>2, <1>4, <1>5

LEMMA DecideStep ==
  ASSUME PosInv, NEW t \in PosTick, PosDecide(t) PROVE PosInv'
<1>1. /\ ptick[t].pc = "decide" /\ UNCHANGED <<szi, traded, pclock>>
      /\ prow \in [Strat -> PosRow] /\ pclock' \in Nat
  BY DEF PosDecide, PosInv, PosType
<1>2. /\ At(t) \in Strat /\ RowOf(t) \in PosRow /\ ptick[t].szi \in Int /\ ptick[t].now \in Nat
      /\ RowOf(t).actionsDone \in Nat /\ RowOf(t).lastLevel \in Int /\ RowOf(t).trailPeak \in Int
  BY <1>1, BusyTick DEF PosRow
<1>3. PICK mark \in Price : DecideClose(t, mark) \/ DecideSymmetric(t, mark) \/ DecideLong(t, mark)
  BY DEF PosDecide
<1> DEFINE band == bandIndex(mark)
<1>4. mark \in Int /\ band \in Int
  BY BandIsInt, PositionsAssumption
<1>6. \A r \in Int, s \in Strat : [prow EXCEPT ![s].lastLevel = r] \in [Strat -> PosRow]
  BY <1>1 DEF PosRow
<1>7. \A r \in Int, s, u \in Strat :
        [prow EXCEPT ![s].lastLevel = r][u].actionsDone = prow[u].actionsDone
  BY <1>1 DEF PosRow
<1> HIDE DEF band
<1>8. CASE DecideClose(t, mark)
  <2> DEFINE peak == updateTrailPeak(ptick[t].szi, mark, RowOf(t).trailPeak)
  <2>1. peak \in Int
    BY <1>2, <1>4 DEF updateTrailPeak
  <2>2. prow' = prow \/ prow' = [prow EXCEPT ![At(t)].trailPeak = peak]
    BY <1>8 DEF DecideClose
  <2> HIDE DEF peak
  <2>3. prow' \in [Strat -> PosRow] /\ \A s \in Strat : prow'[s].actionsDone = prow[s].actionsDone
    BY <1>1, <1>2, <2>1, <2>2 DEF PosRow
  <2>4. At(t) \notin GridStrat
    BY <1>8 DEF DecideClose, GridStrat
  <2>5. CASE GoOn(t)
    BY <1>1, <2>3, <2>5, QuietGoOn
  <2>6. CASE AwaitOrder(t, CloseOrder(t))
    <3>1. Abs(ptick[t].szi) \in Nat
      BY <1>2 DEF Abs
    <3>2. CloseOrder(t) \in PosOrder
      BY <1>2, <3>1 DEF CloseOrder, PosOrder, closeSide
    <3>3. CloseOrder(t).slot = <<At(t), ptick[t].now>> /\ <<At(t), ptick[t].now>> \in PosSlots
      BY <1>2 DEF CloseOrder, PosSlots
    <3> QED BY <1>1, <2>3, <2>4, <2>6, <3>2, <3>3, AwaitStep
  <2> QED BY <1>8, <2>5, <2>6 DEF DecideClose
<1>9. CASE DecideSymmetric(t, mark)
  <2> DEFINE delta == targetNetUsdc2(band) - 2 * ptick[t].szi * mark
             side == IF delta >= 0 THEN "buy" ELSE "sell"
  <2>1. side \in {"buy", "sell"} /\ band = bandIndex(mark)
    BY DEF band
  <2>2. \/ GoOn(t) /\ prow' = prow
        \/ GoOn(t) /\ prow' = [prow EXCEPT ![At(t)].lastLevel = band]
        \/ PlaceUsdc(t, side, Abs(delta), band) /\ prow' = prow
    BY <1>9 DEF DecideSymmetric, band
  <2>3. Abs(delta) \in Int
    <3>1. targetNetUsdc2(band) \in Int
      <4>1. (GridLevels - 1) - 2 * band \in Int /\ PerLevelUsdc \in Int
        BY <1>4, PositionsAssumption
      <4> QED BY <4>1 DEF targetNetUsdc2
    <3>2. 2 * ptick[t].szi * mark \in Int
      BY <1>2, <1>4
    <3>3. delta \in Int
      BY <3>1, <3>2
    <3> HIDE DEF delta
    <3> QED BY <3>3 DEF Abs
  <2> HIDE DEF delta, side
  <2>4. CASE GoOn(t) /\ prow' = prow
    BY <1>1, <2>4, QuietGoOn
  <2>5. CASE GoOn(t) /\ prow' = [prow EXCEPT ![At(t)].lastLevel = band]
    BY <1>1, <1>2, <1>4, <1>6, <1>7, <2>5, QuietGoOn
  <2>6. CASE PlaceUsdc(t, side, Abs(delta), band) /\ prow' = prow
    BY <1>1, <1>4, <2>1, <2>3, <2>6, PlaceStep
  <2> QED BY <2>2, <2>4, <2>5, <2>6
<1>10. CASE DecideLong(t, mark)
  <2> DEFINE last == RowOf(t).lastLevel
             down == 2 * (last - band) * PerLevelUsdc
             up   == 2 * (band - last) * PerLevelUsdc
  <2>1. \/ GoOn(t) /\ prow' = prow
        \/ GoOn(t) /\ prow' = [prow EXCEPT ![At(t)].lastLevel = band]
        \/ PlaceUsdc(t, "buy", down, band) /\ prow' = prow
        \/ PlaceUsdc(t, "sell", up, band) /\ prow' = prow
    BY <1>10 DEF DecideLong, band
  <2>2. down \in Int /\ up \in Int
    <3>1. 2 * (last - band) \in Int /\ 2 * (band - last) \in Int /\ PerLevelUsdc \in Int
      BY <1>2, <1>4, PositionsAssumption
    <3> QED BY <3>1
  <2> HIDE DEF down, up
  <2>3. CASE GoOn(t) /\ prow' = prow
    BY <1>1, <2>3, QuietGoOn
  <2>4. CASE GoOn(t) /\ prow' = [prow EXCEPT ![At(t)].lastLevel = band]
    BY <1>1, <1>2, <1>4, <1>6, <1>7, <2>4, QuietGoOn
  <2>5. CASE PlaceUsdc(t, "buy", down, band) /\ prow' = prow
    BY <1>1, <1>4, <2>2, <2>5, PlaceStep
  <2>6. CASE PlaceUsdc(t, "sell", up, band) /\ prow' = prow
    BY <1>1, <1>4, <2>2, <2>6, PlaceStep
  <2> QED BY <2>1, <2>3, <2>4, <2>5, <2>6
<1> QED BY <1>3, <1>8, <1>9, <1>10

\* What a trade records counts at most one action, of the strategy that traded.
LEMMA FillRecorded ==
  ASSUME PosInv, NEW t \in PosTick, ptick[t].pc = "placing", NEW n \in Nat,
         RecordFill(t, n) \/ UNCHANGED prow
  PROVE  /\ prow' \in [Strat -> PosRow]
         /\ \A s \in Strat \ {At(t)} : prow'[s].actionsDone = prow[s].actionsDone
         /\ prow'[At(t)].actionsDone \in {prow[At(t)].actionsDone, prow[At(t)].actionsDone + 1}
<1> DEFINE s == At(t)
           lvl == ptick[t].order.level
<1>1. s \in Strat /\ prow \in [Strat -> PosRow] /\ lvl \in Int
  BY BusyTick DEF PosInv, PosType, TickState, PosOrder
<1>2. prow[s] \in PosRow /\ prow[s].actionsDone \in Nat
  BY <1>1 DEF PosRow
<1>3. \/ prow' = prow
      \/ prow' = [prow EXCEPT ![s].lastLevel = lvl, ![s].actionsDone = @ + 1]
      \/ prow' = [prow EXCEPT ![s].status = "completed"]
  BY DEF RecordFill
<1> HIDE DEF s, lvl
<1>4. CASE prow' = [prow EXCEPT ![s].lastLevel = lvl, ![s].actionsDone = @ + 1]
  <2> DEFINE k == prow[s].actionsDone + 1
             r == [prow[s] EXCEPT !.lastLevel = lvl, !.actionsDone = k]
  <2>0. k \in Nat
    BY <1>2
  <2>1. r \in PosRow /\ r.actionsDone = k
    <3> HIDE DEF k
    <3> QED BY <1>1, <1>2, <2>0 DEF PosRow
  <2>2. prow' = [prow EXCEPT ![s] = r]
    BY <1>1, <1>4 DEF PosRow
  <2> HIDE DEF r
  <2> QED BY <1>1, <2>1, <2>2 DEF s
<1>5. CASE prow' = [prow EXCEPT ![s].status = "completed"]
  <2> DEFINE r == [prow[s] EXCEPT !.status = "completed"]
  <2>1. r \in PosRow /\ r.actionsDone = prow[s].actionsDone
    BY <1>2 DEF PosRow
  <2>2. prow' = [prow EXCEPT ![s] = r]
    BY <1>1, <1>5 DEF PosRow
  <2> HIDE DEF r
  <2> QED BY <1>1, <2>1, <2>2 DEF s
<1> QED BY <1>1, <1>2, <1>3, <1>4, <1>5 DEF s

\* A name that has not traded is of the latest count; every tick that holds the same name
\* is barred from its trade on.
LEMMA TradeStep ==
  ASSUME PosInv, NEW t \in PosTick, PosTrade(t) PROVE PosInv'
<1> DEFINE s == At(t)
           o == ptick[t].order
           c == CoinOf[s]
<1>1. PICK n \in 1..o.size :
        /\ ptick[t].pc = "placing" /\ o.slot \notin traded
        /\ szi' = [szi EXCEPT ![c] = szi[c] + Sign(o.side) * n]
        /\ RecordFill(t, n) \/ UNCHANGED prow
        /\ traded' = traded \cup {o.slot} /\ GoOn(t) /\ pclock' = pclock
  BY DEF PosTrade
<1>2. /\ ptick[t] \in TickState /\ o \in PosOrder /\ s \in Strat /\ c \in Coin
      /\ ptick[t].rows \in [Strat -> PosRow] /\ s = PosStrategy[ptick[t].n]
      /\ o.slot \in PosSlots /\ o.slot[1] = s
  BY <1>1, BusyTick DEF TickState, At, PosInv, PosType, Walking
<1>3. /\ o.size \in Nat /\ n \in Nat /\ szi \in [Coin -> Int] /\ szi[c] \in Int
      /\ Sign(o.side) \in {1, -1}
  BY <1>1, <1>2 DEF PosOrder, PosInv, PosType, Sign
<1>4. /\ prow' \in [Strat -> PosRow]
      /\ \A r \in Strat \ {s} : prow'[r].actionsDone = prow[r].actionsDone
      /\ prow'[s].actionsDone \in {prow[s].actionsDone, prow[s].actionsDone + 1}
  BY <1>1, <1>3, FillRecorded
<1>5. PICK p \in TickState :
        /\ ptick' = [ptick EXCEPT ![t] = p]
        /\ p.pc \in {"idle", "read"}
        /\ p.pc # "idle" => p.n \in DOMAIN PosStrategy /\ p.rows = ptick[t].rows
  BY <1>1, GoOnTick
<1>6. szi[c] + Sign(o.side) * n \in Int
  BY <1>3
<1>7. PosType'
  <2>1. Walking(p)
    BY <1>2, <1>5 DEF Walking
  <2>2. szi' \in [Coin -> Int]
    BY <1>1, <1>2, <1>3, <1>6
  <2>3. ptick' \in [PosTick -> TickState] /\ \A u \in PosTick : Walking(ptick'[u])
    BY <1>5, <2>1 DEF PosInv, PosType
  <2>4. traded' \subseteq PosSlots /\ pclock' \in Nat
    BY <1>1, <1>2 DEF PosInv, PosType
  <2> QED BY <1>4, <2>2, <2>3, <2>4 DEF PosType
<1>8. \A u \in PosTick : ptick'[u] = ptick[u] \/ ptick'[u] = p
  BY <1>5 DEF PosInv, PosType
<1> HIDE DEF s, o, c
<1>9. ASSUME NEW g \in GridStrat PROVE GridInv(g)'
  <2>1. g \in Strat /\ GridInv(g)
    BY DEF GridStrat, PosInv
  <2>2. prow[g].actionsDone \in Nat /\ prow'[g].actionsDone \in Nat
        /\ prow[g].actionsDone <= prow'[g].actionsDone
    BY <1>4, <2>1 DEF PosInv, PosType, PosRow
  <2>3. \A u \in PosTick : ptick[u].pc # "idle" => ptick[u].rows[g].actionsDone \in Nat
    BY <2>1 DEF PosInv, PosType, PosRow, Walking
  <2>4. CASE s # g
    <3>1. tradesOf(g)' = tradesOf(g) /\ prow'[g].actionsDone = prow[g].actionsDone
      BY <1>1, <1>2, <1>4, <2>1, <2>4 DEF tradesOf, o, s
    <3>2. SlotsSpent(g)'
      BY <1>1, <2>1, <3>1 DEF GridInv, SlotsSpent
    <3>3. \A u \in PosTick : GridTick(g, ptick[u])
      BY <2>1 DEF GridInv
    <3>4. ASSUME NEW u \in PosTick PROVE GridTick(g, ptick[u])'
      <4>1. CASE ptick'[u] = p
        <5>1. p.pc # "idle" => p.rows[g].actionsDone <= prow'[g].actionsDone
          BY <1>1, <1>5, <3>1, <3>3 DEF GridTick
        <5> QED BY <1>5, <4>1, <5>1 DEF GridTick
      <4>2. CASE ptick'[u] = ptick[u]
        BY <1>1, <3>1, <3>3, <4>2 DEF GridTick
      <4> QED BY <1>8, <4>1, <4>2
    <3> QED BY <3>2, <3>4 DEF GridInv
  <2>5. CASE s = g
    <3> DEFINE k == ptick[t].rows[g].actionsDone
    <3>1. /\ GridTick(g, ptick[t]) /\ SlotsSpent(g) /\ k \in Nat
          /\ ptick[t].pc = "placing" /\ PosStrategy[ptick[t].n] = g
      BY <1>1, <1>2, <2>1, <2>3, <2>5 DEF GridInv
    <3>2. o.slot = <<g, k>> /\ k <= prow[g].actionsDone
      BY <3>1 DEF GridTick, o
    <3>4. k = prow[g].actionsDone
      BY <1>1, <2>2, <3>1, <3>2 DEF SlotsSpent
    <3> HIDE DEF k
    <3>8. SlotsSpent(g)'
      <4>1. prow'[g].actionsDone \in {k, k + 1}
        BY <1>4, <2>5, <3>4
      <4>2. \A m \in Nat : m < prow'[g].actionsDone => m < prow[g].actionsDone \/ m = k
        BY <3>1, <3>4, <4>1
      <4>3. \A m \in Nat : m < prow'[g].actionsDone => <<g, m>> \in traded'
        BY <1>1, <3>1, <3>2, <4>2 DEF SlotsSpent
      <4> QED BY <4>3 DEF SlotsSpent
    <3>9. \A m \in Nat : m <= prow[g].actionsDone => <<g, m>> \in traded'
      <4>1. \A m \in Nat : m <= prow[g].actionsDone => m < prow[g].actionsDone \/ m = k
        BY <2>2, <3>4
      <4> QED BY <1>1, <3>1, <3>2, <4>1 DEF SlotsSpent
    <3>10. ASSUME NEW u \in PosTick PROVE GridTick(g, ptick[u])'
      <4>1. CASE ptick'[u] = p
        <5>1. p.pc # "idle" => p.rows[g].actionsDone <= prow'[g].actionsDone
          BY <1>5, <2>2, <3>1, <3>2 DEF k
        <5> QED BY <1>5, <4>1, <5>1 DEF GridTick
      <4>2. CASE ptick'[u] = ptick[u]
        <5>1. GridTick(g, ptick[u])
          BY <2>1 DEF GridInv
        <5> DEFINE j == ptick[u].rows[g].actionsDone
        <5>2. ptick[u].pc # "idle" => j <= prow'[g].actionsDone /\ <<g, j>> \in traded'
          BY <2>2, <2>3, <3>9, <5>1 DEF GridTick
        <5> QED BY <4>2, <5>1, <5>2 DEF GridTick
      <4> QED BY <1>8, <4>1, <4>2
    <3> QED BY <3>8, <3>10 DEF GridInv
  <2> QED BY <2>4, <2>5
<1> QED BY <1>7, <1>9 DEF PosInv

LEMMA PosStep == PosInv /\ [PosNext]_posVars => PosInv'
<1> SUFFICES ASSUME PosInv, [PosNext]_posVars PROVE PosInv'
  OBVIOUS
<1>0. prow \in [Strat -> PosRow] /\ pclock \in Nat
  BY DEF PosInv, PosType
<1>1. ASSUME NEW t \in PosTick, PosRefused(t) PROVE PosInv'
  BY <1>0, <1>1, QuietGoOn DEF PosRefused
<1>2. ASSUME NEW t \in PosTick, PosTickFails(t) PROVE PosInv'
  <2>1. NoOrderYet \in PosOrder
    BY DEF NoOrderYet, PosOrder
  <2>2. IdlePos \in TickState /\ IdlePos.pc = "idle"
    BY <2>1 DEF IdlePos, TickState
  <2>3. Walking(IdlePos) /\ \A s \in GridStrat : GridTick(s, IdlePos)
    BY <2>2 DEF GridTick, Walking
  <2> QED BY <1>0, <1>2, <2>2, <2>3, QuietTick DEF PosTickFails, PosSet
<1>3. CASE UNCHANGED posVars
  BY <1>3 DEF posVars, PosInv, PosType, Walking, GridInv, SlotsSpent, GridTick, tradesOf
<1> QED BY <1>1, <1>2, <1>3, BeginStep, ReadStep, DecideStep, TradeStep DEF PosNext

\* A symmetric grid's order that can still trade was sized from a position that counts
\* every trade the grid has made, for any strategies on the coin, any marks, any number of
\* ticks in flight on old copies, partial fills and lost answers.
THEOREM GridOrdersCountTrades == PosSpec => []SizedFromItsTrades
<1>1. PosInv => SizedFromItsTrades
  <2> SUFFICES ASSUME PosInv, NEW t \in PosTick, ptick[t].pc = "placing",
                      PosKind[At(t)] = "grid", ptick[t].order.slot \notin traded
               PROVE  tradesOf(At(t)) \subseteq ptick[t].seen
    BY DEF SizedFromItsTrades
  <2>1. At(t) \in GridStrat /\ PosStrategy[ptick[t].n] = At(t)
    BY BusyTick DEF GridStrat, At
  <2>2. GridTick(At(t), ptick[t])
    BY <2>1 DEF PosInv, GridInv
  <2> QED BY <2>1, <2>2 DEF GridTick
<1> QED BY <1>1, PosStart, PosStep, PTL DEF PosSpec

------------------------------------------------------------------------------
(* The dead-man switch.  A schedule lies a TTL ahead of the last arm, and     *)
(* every interval without an arm costs a miss or is a heartbeat still on its  *)
(* way: that is what keeps the switch from firing for an owner the engine     *)
(* serves.  Failures are counted in whatever order the passes end, but only   *)
(* passes of heartbeats that overlap an arm can come between it and its       *)
(* answer.                                                                    *)

Heartbeat == [at : Nat, todo : SUBSET DmOwner, for : SUBSET DmOwner, counts : BOOLEAN,
              st : {"none", "next", "sent", "armed", "failed"}]

DmType ==
  /\ dmTime \in Nat /\ ttl \in Nat
  /\ engine \in {"starting", "up", "stopping", "down"}
  /\ armed \in [DmOwner -> Nat]
  /\ triggers \in [DmOwner -> [0..DmDay(MaxTime) -> Nat]]
  /\ beat \in [Beat -> Heartbeat]
  /\ misses \in [DmOwner -> 0..2]
  /\ exposed \in [DmOwner -> Nat]
  /\ health \in [DmOwner -> [failures : Nat, alerting : BOOLEAN]]

\* A heartbeat under way has owners to do and is at most MaxLag late; it only begins
\* with the switch enabled.
BeatOK(b) ==
  /\ beat[b].for \subseteq beat[b].todo
  /\ beat[b].todo # {} => /\ ttl >= 3
                          /\ beat[b].at <= dmTime /\ dmTime <= beat[b].at + MaxLag
  /\ beat[b].todo = {} => beat[b] = NoBeat
  /\ beat[b].st = "next" => beat[b].for = {}
  /\ beat[b].st \in {"sent", "armed", "failed"} => \E o \in DmOwner : beat[b].for = {o}

\* Heartbeats begin one after the other.
BeatsApart ==
  \A b, c \in Beat : beat[b].todo # {} /\ beat[c].todo # {} /\ beat[b].at = beat[c].at => b = c

\* Heartbeat b has yet to reach the exchange for owner o.
Due(b, o) == o \in beat[b].todo /\ (beat[b].st \in {"armed", "failed"} => o \notin beat[b].for)
DueNow(o) == \E b \in Beat : beat[b].at = dmTime /\ Due(b, o)

\* An owner with less than two misses is served, and the schedule is as far ahead as a
\* TTL minus the misses, minus one if the present heartbeat has not come to the owner.
Ahead(o) ==
  misses[o] < 2 =>
    /\ engine = "up" /\ wants[o] = "deadMan" /\ ttl >= 3
    /\ armed[o] + misses[o] + (IF DueNow(o) THEN 1 ELSE 0) >= dmTime + ttl

\* The other passes over o that may still count as failures.
Uncounted(b, o) == o \in beat[b].todo /\ (beat[b].st = "armed" => o \notin beat[b].for)
Others(b, o) == {c \in Beat : c # b /\ Uncounted(c, o)}

\* While the answer of an arm is on its way, only heartbeats that overlap it can fail.
ExposedSince(b, o) ==
  beat[b].st = "armed" /\ o \in beat[b].for =>
    exposed[o] + Cardinality(Others(b, o)) <= MaxLag + (dmTime - beat[b].at)

\* The health tracker is behind the exchange by those passes at most.
HealthFollows(o) ==
  /\ exposed[o] <= health[o].failures + 2 * MaxLag
  /\ health[o].failures >= AlertAfter => health[o].alerting

DmBase == DmType /\ BeatsApart /\ \A b \in Beat : BeatOK(b)
DmInv ==
  /\ DmBase
  /\ \A o \in DmOwner : Ahead(o) /\ HealthFollows(o)
  /\ \A b \in Beat, o \in DmOwner : ExposedSince(b, o)

LEMMA MinMax ==
  /\ \A n \in Nat : Min({2, n}) = IF n < 2 THEN n ELSE 2
  /\ \A n \in Nat : Max({1, n}) = IF n < 1 THEN 1 ELSE n
<1>1. ASSUME NEW n \in Nat PROVE Min({2, n}) = IF n < 2 THEN n ELSE 2
  <2> DEFINE m == IF n < 2 THEN n ELSE 2
  <2>1. m \in {2, n} /\ \A y \in {2, n} : m <= y
    OBVIOUS
  <2>2. \A x \in {2, n} : (\A y \in {2, n} : x <= y) => x = m
    OBVIOUS
  <2> QED BY <2>1, <2>2 DEF Min
<1>2. ASSUME NEW n \in Nat PROVE Max({1, n}) = IF n < 1 THEN 1 ELSE n
  <2> DEFINE m == IF n < 1 THEN 1 ELSE n
  <2>1. m \in {1, n} /\ \A y \in {1, n} : m >= y
    OBVIOUS
  <2>2. \A x \in {1, n} : (\A y \in {1, n} : x >= y) => x = m
    OBVIOUS
  <2> QED BY <2>1, <2>2 DEF Max
<1> QED BY <1>1, <1>2

\* What a miss does to the count.
LEMMA MissedCounts ==
  ASSUME DmType, NEW owners, NEW n \in Nat, misses' = Missed(owners, n)
  PROVE  /\ misses' \in [DmOwner -> 0..2]
         /\ \A o \in DmOwner : o \notin owners => misses'[o] = misses[o]
         /\ \A o \in owners \cap DmOwner :
               misses'[o] = IF misses[o] + n < 2 THEN misses[o] + n ELSE 2
<1>1. \A o \in DmOwner : misses[o] \in 0..2 /\ misses[o] + n \in Nat
  BY DEF DmType
<1>2. \A o \in DmOwner : Min({2, misses[o] + n}) = IF misses[o] + n < 2 THEN misses[o] + n ELSE 2
  BY <1>1, MinMax
<1>3. misses' = [o \in DmOwner |-> IF o \in owners THEN Min({2, misses[o] + n}) ELSE misses[o]]
  BY DEF Missed
<1> QED BY <1>1, <1>2, <1>3

LEMMA MissedOne ==
  ASSUME DmType, NEW o \in DmOwner, NEW n \in Nat, misses' = Missed({o}, n)
  PROVE  /\ misses' \in [DmOwner -> 0..2]
         /\ \A q \in DmOwner : q # o => misses'[q] = misses[q]
         /\ misses'[o] < 2 => misses'[o] = misses[o] + n
<1>1. /\ misses' \in [DmOwner -> 0..2]
      /\ \A q \in DmOwner : q \notin {o} => misses'[q] = misses[q]
      /\ \A q \in {o} \cap DmOwner :
            misses'[q] = IF misses[q] + n < 2 THEN misses[q] + n ELSE 2
  BY MissedCounts
<1> QED BY <1>1

LEMMA IdleHeartbeat == NoBeat \in Heartbeat /\ NoBeat.todo = {} /\ NoBeat.for = {} /\ NoBeat.st = "none"
BY DEF NoBeat, Heartbeat

\* The heartbeats that overlap one another are few: they begin in different intervals.
LEMMA OthersBound ==
  ASSUME DmBase, NEW b \in Beat, NEW o \in DmOwner, beat[b].todo # {}
  PROVE  IsFiniteSet(Others(b, o)) /\ Cardinality(Others(b, o)) <= MaxLag
<1> DEFINE I == (dmTime - MaxLag)..dmTime
           J == I \ {beat[b].at}
           f == [c \in Others(b, o) |-> beat[c].at]
<1>1. dmTime \in Nat /\ MaxLag \in Nat /\ \A c \in Beat : beat[c].at \in Nat
  BY DeadManAssumption DEF DmBase, DmType, Heartbeat
<1>2. IsFiniteSet(I) /\ Cardinality(I) = MaxLag + 1
  <2>1. dmTime - MaxLag \in Int /\ dmTime \in Int /\ ~(dmTime - MaxLag > dmTime)
    BY <1>1
  <2>2. /\ IsFiniteSet(I)
        /\ Cardinality(I) = IF dmTime - MaxLag > dmTime THEN 0 ELSE dmTime - (dmTime - MaxLag) + 1
    BY <2>1, FS_Interval
  <2> QED BY <1>1, <2>1, <2>2
<1>3. \A c \in Beat : beat[c].todo # {} => beat[c].at \in I
  BY <1>1 DEF DmBase, BeatOK
<1>4. IsFiniteSet(J) /\ Cardinality(J) = MaxLag
  <2> HIDE DEF I
  <2>1. beat[b].at \in I
    BY <1>3
  <2>2. IsFiniteSet(J) /\ Cardinality(J) = Cardinality(I) - 1
    BY <1>2, <2>1, FS_RemoveElement
  <2> QED BY <1>1, <1>2, <2>2
<1>5. f \in Injection(Others(b, o), J)
  <2>1. \A c \in Others(b, o) : c \in Beat /\ c # b /\ beat[c].todo # {}
    BY DEF Others, Uncounted
  <2>2. \A c \in Others(b, o) : beat[c].at \in J
    BY <1>3, <2>1 DEF DmBase, BeatsApart
  <2>3. \A c, d \in Others(b, o) : beat[c].at = beat[d].at => c = d
    BY <2>1 DEF DmBase, BeatsApart
  <2> QED BY <2>2, <2>3 DEF Injection, IsInjective
<1> HIDE DEF f, J
<1> QED BY <1>4, <1>5, FS_Injection

\* A step that takes heartbeat b on, or ends it.
LEMMA BeatGoesOn ==
  ASSUME DmBase, NEW b \in Beat, NEW k \in Heartbeat, beat' = [beat EXCEPT ![b] = k],
         UNCHANGED <<dmTime, ttl>>,
         k.todo \subseteq beat[b].todo, k.for \subseteq k.todo,
         k.todo = {} => k = NoBeat,
         k.todo # {} => k.at = beat[b].at,
         k.st = "next" => k.for = {},
         k.st \in {"sent", "armed", "failed"} => \E o \in DmOwner : k.for = {o}
  PROVE  /\ beat' \in [Beat -> Heartbeat] /\ beat'[b] = k
         /\ \A c \in Beat : c # b => beat'[c] = beat[c]
         /\ BeatsApart' /\ \A c \in Beat : BeatOK(c)'
<1>1. /\ beat' \in [Beat -> Heartbeat] /\ beat'[b] = k
      /\ \A c \in Beat : c # b => beat'[c] = beat[c]
  BY DEF DmBase, DmType
<1>2. \A c \in Beat : beat'[c].todo # {} => beat[c].todo # {} /\ beat'[c].at = beat[c].at
  BY <1>1
<1>3. BeatsApart'
  BY <1>2 DEF DmBase, BeatsApart
<1>4. \A c \in Beat : BeatOK(c)'
  <2>1. ASSUME NEW c \in Beat, c # b PROVE BeatOK(c)'
    BY <1>1, <2>1 DEF DmBase, BeatOK
  <2>2. BeatOK(b)'
    BY <1>1, <1>2 DEF DmBase, BeatOK
  <2> QED BY <2>1, <2>2
<1> QED BY <1>1, <1>3, <1>4

\* The end of a pass: an answered arm resets the health, anything else is a failure.
LEMMA PassKeeps ==
  ASSUME DmInv, NEW b \in Beat, NEW o \in DmOwner, NEW ok \in BOOLEAN,
         o \in beat[b].todo, Pass(b, o, ok),
         IF ok THEN beat[b].st = "armed" /\ beat[b].for = {o} ELSE beat[b].st # "armed",
         UNCHANGED <<dmTime, ttl, engine, wants, armed, triggers>>,
         misses' \in [DmOwner -> 0..2],
         \A q \in DmOwner : q # o => misses'[q] = misses[q],
         IF Due(b, o) THEN misses'[o] < 2 => misses'[o] = misses[o] + 1 ELSE misses'[o] = misses[o]
  PROVE  DmInv'
<1> DEFINE left == beat[b].todo \ {o}
           k == IF left = {} THEN NoBeat ELSE [NoBeat EXCEPT !.at = beat[b].at, !.todo = left, !.st = "next"]
<1>1. DmBase /\ DmType /\ beat[b] \in Heartbeat /\ BeatOK(b) /\ BeatsApart
  BY DEF DmInv, DmBase, DmType
<1>2. k \in Heartbeat
  BY <1>1, IdleHeartbeat DEF Heartbeat, NoBeat
<1>3. /\ k.todo = left /\ k.for = {} /\ k.st \in {"none", "next"}
      /\ left = {} => k = NoBeat
      /\ left # {} => k.at = beat[b].at /\ k.st = "next"
  BY IdleHeartbeat DEF NoBeat
<1>4. beat' = [beat EXCEPT ![b] = k]
  BY DEF Pass
<1> HIDE DEF k
<1>5. /\ beat' \in [Beat -> Heartbeat] /\ beat'[b] = k
      /\ \A c \in Beat : c # b => beat'[c] = beat[c]
      /\ BeatsApart' /\ \A c \in Beat : BeatOK(c)'
  BY <1>1, <1>2, <1>3, <1>4, BeatGoesOn
<1>6. /\ health' = [health EXCEPT ![o] = healthRecord(health[o], ok)]
      /\ exposed' = [exposed EXCEPT ![o] = IF ok THEN exposed[o] ELSE exposed[o] + 1]
  BY DEF Pass
<1>7. /\ exposed' \in [DmOwner -> Nat]
      /\ exposed'[o] = IF ok THEN exposed[o] ELSE exposed[o] + 1
      /\ \A q \in DmOwner : q # o => exposed'[q] = exposed[q]
  BY <1>1, <1>6 DEF DmType
<1>8. /\ healthRecord(health[o], ok) \in [failures : Nat, alerting : BOOLEAN]
      /\ ok => healthRecord(health[o], ok).failures = 0
      /\ ~ok => /\ healthRecord(health[o], ok).failures = health[o].failures + 1
                /\ health[o].failures + 1 >= AlertAfter => healthRecord(health[o], ok).alerting
  <2>1. health[o] \in [failures : Nat, alerting : BOOLEAN] /\ AlertAfter \in Nat
    BY <1>1, DeadManAssumption DEF DmType
  <2>2. CASE ok
    BY <2>2 DEF healthRecord, Healthy
  <2>3. CASE ~ok
    <3>1. (health[o].alerting \/ health[o].failures + 1 >= AlertAfter) \in BOOLEAN
      BY <2>1
    <3>2. health[o].failures + 1 \in Nat
      BY <2>1
    <3>3. healthRecord(health[o], ok) =
            [failures |-> health[o].failures + 1,
             alerting |-> health[o].alerting \/ health[o].failures + 1 >= AlertAfter]
      BY <2>3 DEF healthRecord
    <3>4. ASSUME NEW f \in Nat, NEW a \in BOOLEAN
          PROVE  [failures |-> f, alerting |-> a] \in [failures : Nat, alerting : BOOLEAN]
      OBVIOUS
    <3>5. healthRecord(health[o], ok) \in [failures : Nat, alerting : BOOLEAN]
      BY <3>1, <3>2, <3>3, <3>4, Zenon
    <3> DEFINE alert == health[o].alerting \/ health[o].failures + 1 >= AlertAfter
    <3>6. alert \in BOOLEAN /\ (health[o].failures + 1 >= AlertAfter => alert)
      BY <3>1
    <3>7. healthRecord(health[o], ok) = [failures |-> health[o].failures + 1, alerting |-> alert]
      BY <3>3
    <3> HIDE DEF alert
    <3>8. healthRecord(health[o], ok).failures = health[o].failures + 1
          /\ healthRecord(health[o], ok).alerting = alert
      BY <3>7
    <3>9. health[o].failures + 1 >= AlertAfter => healthRecord(health[o], ok).alerting
      BY <3>6, <3>8
    <3> QED BY <2>3, <3>5, <3>8, <3>9
  <2> QED BY <2>2, <2>3
<1>9. /\ health' \in [DmOwner -> [failures : Nat, alerting : BOOLEAN]]
      /\ health'[o] = healthRecord(health[o], ok)
      /\ \A q \in DmOwner : q # o => health'[q] = health[q]
  BY <1>1, <1>6, <1>8 DEF DmType
<1>10. DmBase'
  BY <1>1, <1>5, <1>7, <1>9 DEF DmBase, DmType
<1>11. ASSUME NEW q \in DmOwner PROVE Ahead(q)'
  <2>1. CASE q # o
    <3>1. DueNow(q) => DueNow(q)'
      BY <1>3, <1>5, <2>1 DEF DueNow, Due
    <3>2. Ahead(q) /\ misses'[q] = misses[q]
      BY <2>1 DEF DmInv
    <3>3. misses[q] \in 0..2 /\ armed[q] \in Nat /\ dmTime \in Nat /\ ttl \in Nat
      BY <1>1 DEF DmType
    <3> HIDE DEF left
    <3> QED BY <3>1, <3>2, <3>3 DEF Ahead
  <2>2. CASE q = o /\ Due(b, o)
    <3>1. Ahead(o)
      BY DEF DmInv
    <3>2. /\ misses[o] \in 0..2 /\ misses'[o] \in 0..2
          /\ armed[o] \in Nat /\ dmTime \in Nat /\ ttl \in Nat
      BY <1>1 DEF DmType
    <3>3. misses'[o] < 2 => misses'[o] = misses[o] + 1
      BY <2>2
    <3> QED BY <2>2, <3>1, <3>2, <3>3 DEF Ahead
  <2>3. CASE q = o /\ ~Due(b, o)
    <3>1. DueNow(o) => DueNow(o)'
      BY <1>5, <2>3 DEF DueNow, Due
    <3>2. Ahead(o) /\ misses'[o] = misses[o]
      BY <2>3 DEF DmInv
    <3>3. misses[o] \in 0..2 /\ armed[o] \in Nat /\ dmTime \in Nat /\ ttl \in Nat
      BY <1>1 DEF DmType
    <3> QED BY <2>3, <3>1, <3>2, <3>3 DEF Ahead
  <2> QED BY <2>1, <2>2, <2>3
<1>12. MaxLag \in Nat /\ AlertAfter \in Nat \ {0}
  BY DeadManAssumption
<1>13. ASSUME NEW q \in DmOwner PROVE HealthFollows(q)'
  <2>1. CASE q # o
    BY <1>7, <1>9, <2>1 DEF DmInv, HealthFollows
  <2>2. CASE q = o /\ ok
    <3>1. ExposedSince(b, o) /\ beat[b].st = "armed" /\ o \in beat[b].for
      BY <2>2 DEF DmInv
    <3>2. Cardinality(Others(b, o)) \in Nat
      BY <1>1, OthersBound, FS_CardinalityType
    <3>3. dmTime <= beat[b].at + MaxLag /\ dmTime \in Nat /\ beat[b].at \in Nat /\ exposed[o] \in Nat
      BY <1>1 DEF BeatOK, DmType, Heartbeat
    <3>4. exposed[o] <= 2 * MaxLag
      BY <1>12, <3>1, <3>2, <3>3 DEF ExposedSince
    <3>5. exposed'[o] = exposed[o] /\ health'[o].failures = 0
      BY <1>7, <1>8, <1>9, <2>2
    <3>6. exposed'[o] <= health'[o].failures + 2 * MaxLag /\ ~(health'[o].failures >= AlertAfter)
      BY <1>12, <3>3, <3>4, <3>5
    <3> QED BY <2>2, <3>6 DEF HealthFollows
  <2>3. CASE q = o /\ ~ok
    <3>1. HealthFollows(o) /\ exposed[o] \in Nat /\ health[o].failures \in Nat
      BY <1>1 DEF DmInv, DmType
    <3> QED BY <1>7, <1>8, <1>9, <1>12, <2>3, <3>1 DEF HealthFollows
  <2> QED BY <2>1, <2>2, <2>3
<1>14. ASSUME NEW c \in Beat, NEW q \in DmOwner PROVE ExposedSince(c, q)'
  <2> SUFFICES ASSUME beat'[c].st = "armed", q \in beat'[c].for
               PROVE  exposed'[q] + Cardinality(Others(c, q)') <= MaxLag + (dmTime - beat'[c].at)
    BY DEF ExposedSince
  <2>1. c # b /\ beat'[c] = beat[c]
    BY <1>3, <1>5
  <2>2. beat[c].todo # {} /\ ExposedSince(c, q)
    BY <2>1 DEF DmInv, DmBase, BeatOK
  <2>3. IsFiniteSet(Others(c, q)) /\ Cardinality(Others(c, q)) \in Nat
    BY <1>1, <2>2, OthersBound, FS_CardinalityType
  <2>4. \A d \in Beat : Uncounted(d, q)' => Uncounted(d, q) /\ (d = b => q # o)
    BY <1>1, <1>3, <1>5 DEF Uncounted
  <2>5. Others(c, q)' \subseteq Others(c, q) /\ (q = o => b \notin Others(c, q)')
    BY <2>4 DEF Others
  <2>6. Cardinality(Others(c, q)') <= Cardinality(Others(c, q)) /\ Cardinality(Others(c, q)') \in Nat
    BY <2>3, <2>5, FS_Subset, FS_CardinalityType
  <2>7. exposed[q] \in Nat /\ dmTime \in Nat /\ beat[c].at \in Nat
    BY <1>1 DEF DmType, Heartbeat
  <2>8. CASE q # o \/ ok
    BY <1>7, <1>12, <2>1, <2>2, <2>3, <2>6, <2>7, <2>8 DEF ExposedSince
  <2>9. CASE q = o /\ ~ok
    <3>1. b \in Others(c, o)
      BY <2>1, <2>9 DEF Others, Uncounted
    <3>2. Cardinality(Others(c, o) \ {b}) = Cardinality(Others(c, o)) - 1 /\ IsFiniteSet(Others(c, o) \ {b})
      BY <2>3, <2>9, <3>1, FS_RemoveElement
    <3>3. Others(c, o)' \subseteq Others(c, o) \ {b}
      BY <2>5, <2>9
    <3>4. Cardinality(Others(c, o)') <= Cardinality(Others(c, o)) - 1
      BY <3>2, <3>3, FS_Subset
    <3> QED BY <1>7, <1>12, <2>1, <2>2, <2>3, <2>6, <2>7, <2>9, <3>4 DEF ExposedSince
  <2> QED BY <2>8, <2>9
<1> QED BY <1>10, <1>11, <1>13, <1>14 DEF DmInv

\* A step of heartbeat b before its pass over o ends.
LEMMA BeatWaits ==
  ASSUME DmInv, NEW b \in Beat, NEW k \in Heartbeat, beat' = [beat EXCEPT ![b] = k],
         beat[b].todo # {}, k.todo = beat[b].todo, k.at = beat[b].at,
         UNCHANGED <<dmTime, ttl, triggers, health>>,
         engine' = engine, wants' = wants,
         k.for \subseteq k.todo, k.st \in {"sent", "armed", "failed"},
         \E o \in DmOwner : k.for = {o},
         armed' \in [DmOwner -> Nat], misses' \in [DmOwner -> 0..2], exposed' \in [DmOwner -> Nat],
         \A q \in DmOwner : \/ exposed'[q] = 0
                            \/ exposed'[q] = exposed[q] /\ (k.st = "armed" => q \notin k.for),
         \A c \in Beat, q \in DmOwner : Uncounted(c, q)' => Uncounted(c, q),
         \A q \in DmOwner : Ahead(q)'
  PROVE  DmInv'
<1>1. DmBase /\ DmType
  BY DEF DmInv, DmBase
<1>2. /\ beat' \in [Beat -> Heartbeat] /\ beat'[b] = k
      /\ \A c \in Beat : c # b => beat'[c] = beat[c]
      /\ BeatsApart' /\ \A c \in Beat : BeatOK(c)'
  BY <1>1, BeatGoesOn
<1>3. DmBase'
  BY <1>1, <1>2 DEF DmBase, DmType
<1>4. MaxLag \in Nat
  BY DeadManAssumption
<1>5. ASSUME NEW q \in DmOwner PROVE HealthFollows(q)'
  <2>1. exposed[q] \in Nat /\ health[q].failures \in Nat
    BY <1>1 DEF DmType
  <2>2. exposed'[q] <= exposed[q] /\ exposed'[q] \in Nat
    <3>1. exposed'[q] = 0 \/ exposed'[q] = exposed[q]
      OBVIOUS
    <3> QED BY <2>1, <3>1
  <2>3. HealthFollows(q) /\ health'[q] = health[q]
    BY DEF DmInv
  <2> QED BY <1>4, <2>1, <2>2, <2>3 DEF HealthFollows
<1>6. ASSUME NEW c \in Beat, NEW q \in DmOwner PROVE ExposedSince(c, q)'
  <2> SUFFICES ASSUME beat'[c].st = "armed", q \in beat'[c].for
               PROVE  exposed'[q] + Cardinality(Others(c, q)') <= MaxLag + (dmTime - beat'[c].at)
    BY DEF ExposedSince
  <2>1. beat'[c].at = beat[c].at /\ beat[c].todo # {} /\ BeatOK(c)
    BY <1>1, <1>2 DEF DmBase, BeatOK
  <2>2. Others(c, q)' \subseteq Others(c, q)
    BY DEF Others
  <2>3. IsFiniteSet(Others(c, q)) /\ Cardinality(Others(c, q)) <= MaxLag
    BY <1>1, <2>1, OthersBound
  <2>4. /\ Cardinality(Others(c, q)') <= Cardinality(Others(c, q))
        /\ Cardinality(Others(c, q)') \in Nat /\ Cardinality(Others(c, q)) \in Nat
    BY <2>2, <2>3, FS_Subset, FS_CardinalityType
  <2>5. exposed[q] \in Nat /\ dmTime \in Nat /\ beat[c].at \in Nat /\ beat[c].at <= dmTime
    BY <1>1, <2>1 DEF DmType, Heartbeat, BeatOK
  <2>6. CASE exposed'[q] = 0
    BY <1>4, <2>1, <2>3, <2>4, <2>5, <2>6
  <2>7. CASE exposed'[q] = exposed[q] /\ c # b
    <3>1. ExposedSince(c, q) /\ beat[c].st = "armed" /\ q \in beat[c].for
      BY <1>2, <2>7 DEF DmInv
    <3> QED BY <1>4, <2>1, <2>4, <2>5, <2>7, <3>1 DEF ExposedSince
  <2> QED BY <1>2, <2>6, <2>7
<1> QED BY <1>3, <1>5, <1>6 DEF DmInv

LEMMA BeatDecideKeeps ==
  ASSUME DmInv, NEW b \in Beat, NEW o \in DmOwner, BeatDecide(b, o)
  PROVE  DmInv'
<1>1. /\ DmType /\ BeatOK(b) /\ beat[b] \in Heartbeat
      /\ beat[b].st = "next" /\ o \in beat[b].todo
      /\ UNCHANGED <<dmTime, ttl, engine, wants, armed, triggers>>
  BY DEF DmInv, DmBase, DmType, BeatDecide
<1>2. CASE Pass(b, o, FALSE) /\ misses' = Missed({o}, 1)
  <2>1. /\ misses' \in [DmOwner -> 0..2]
        /\ \A q \in DmOwner : q # o => misses'[q] = misses[q]
        /\ misses'[o] < 2 => misses'[o] = misses[o] + 1
    BY <1>1, <1>2, MissedOne
  <2>2. Due(b, o)
    BY <1>1 DEF Due
  <2> QED BY <1>1, <1>2, <2>1, <2>2, PassKeeps
<1>3. CASE /\ beat' = [beat EXCEPT ![b].for = {o}, ![b].st = "sent",
                            ![b].counts = decideBudget(budget[o], beat[b].at) = "counts"]
           /\ UNCHANGED <<health, exposed, misses>>
  <2> DEFINE k == [beat[b] EXCEPT !.for = {o}, !.st = "sent",
                                  !.counts = decideBudget(budget[o], beat[b].at) = "counts"]
  <2>1. ASSUME NEW a \in BOOLEAN
        PROVE  [beat[b] EXCEPT !.for = {o}, !.st = "sent", !.counts = a] \in Heartbeat
    BY <1>1 DEF Heartbeat
  <2>2. (decideBudget(budget[o], beat[b].at) = "counts") \in BOOLEAN
    OBVIOUS
  <2>3. k \in Heartbeat
    BY <2>1, <2>2, Zenon
  <2>4. /\ k.for = {o} /\ k.st = "sent" /\ k.todo = beat[b].todo /\ k.at = beat[b].at
    BY <1>1 DEF Heartbeat
  <2>5. beat' = [beat EXCEPT ![b] = k]
    BY <1>1, <1>3 DEF DmType, Heartbeat
  <2> HIDE DEF k
  <2>6. beat'[b] = k /\ \A c \in Beat : c # b => beat'[c] = beat[c]
    BY <1>1, <2>5 DEF DmType
  <2>7. \A c \in Beat, q \in DmOwner : Uncounted(c, q)' => Uncounted(c, q)
    BY <1>1, <2>4, <2>6 DEF Uncounted
  <2>8. \A q \in DmOwner : Ahead(q)'
    <3> SUFFICES ASSUME NEW q \in DmOwner PROVE Ahead(q)'
      OBVIOUS
    <3>1. DueNow(q) => DueNow(q)'
      BY <1>1, <2>4, <2>6 DEF DueNow, Due
    <3>2. misses[q] \in 0..2 /\ armed[q] \in Nat /\ dmTime \in Nat /\ ttl \in Nat /\ Ahead(q)
      BY <1>1 DEF DmType, DmInv
    <3> QED BY <1>1, <1>3, <3>1, <3>2 DEF Ahead
  <2>9. beat[b].todo # {} /\ {o} \subseteq beat[b].todo
    BY <1>1
  <2>10. exposed' = exposed /\ misses' = misses /\ health' = health
    BY <1>3
  <2> QED BY <1>1, <2>3, <2>4, <2>5, <2>7, <2>8, <2>9, <2>10, BeatWaits DEF DmType
<1> QED BY <1>2, <1>3 DEF BeatDecide

\* A late arm is as old as the misses it counts.
LEMMA BeatArmKeeps ==
  ASSUME DmInv, NEW b \in Beat, NEW o \in DmOwner, BeatArm(b, o)
  PROVE  DmInv'
<1> DEFINE silent == dmFaults' # dmFaults
           missed == silent \/ dmTime > beat[b].at \/ engine # "up" \/ o \notin activeOwners
           k == [beat[b] EXCEPT !.st = IF silent THEN "failed" ELSE "armed"]
           n == Max({1, dmTime - beat[b].at})
<1>1. /\ DmType /\ BeatOK(b) /\ beat[b] \in Heartbeat
      /\ beat[b].st = "sent" /\ beat[b].for = {o}
      /\ UNCHANGED <<dmTime, ttl, engine, wants, triggers, health>>
      /\ armed' = [armed EXCEPT ![o] = beat[b].at + ttl]
      /\ exposed' = [exposed EXCEPT ![o] = 0]
      /\ misses' = IF missed THEN Missed({o}, n) ELSE [misses EXCEPT ![o] = 0]
  BY DEF DmInv, DmBase, DmType, BeatArm
<1>2. /\ k \in Heartbeat /\ k.for = {o} /\ k.st \in {"armed", "failed"}
      /\ k.todo = beat[b].todo /\ k.at = beat[b].at
  BY <1>1 DEF Heartbeat
<1>3. beat' = [beat EXCEPT ![b] = k]
  BY DEF BeatArm, DmInv, DmBase, DmType, Heartbeat
<1>4. o \in beat[b].todo /\ beat[b].at \in Nat /\ dmTime \in Nat /\ ttl \in Nat
      /\ beat[b].at <= dmTime /\ ttl >= 3
  BY <1>1 DEF BeatOK, DmType, Heartbeat
<1>5. n \in Nat /\ n >= dmTime - beat[b].at
  <2> DEFINE behind == dmTime - beat[b].at
  <2>1. behind \in Nat
    BY <1>4
  <2> HIDE DEF behind
  <2>2. Max({1, behind}) = IF behind < 1 THEN 1 ELSE behind
    BY <2>1, MinMax
  <2>3. Max({1, behind}) \in Nat /\ Max({1, behind}) >= behind
    BY <2>1, <2>2
  <2> QED BY <2>3 DEF behind
<1> HIDE DEF k, n
<1>6. beat'[b] = k /\ \A c \in Beat : c # b => beat'[c] = beat[c]
  BY <1>1, <1>3 DEF DmType
<1>7. /\ armed' \in [DmOwner -> Nat] /\ exposed' \in [DmOwner -> Nat]
      /\ armed'[o] = beat[b].at + ttl /\ exposed'[o] = 0
      /\ \A q \in DmOwner : q # o => armed'[q] = armed[q] /\ exposed'[q] = exposed[q]
  BY <1>1, <1>4 DEF DmType
<1>8. \A c \in Beat, q \in DmOwner : Uncounted(c, q)' => Uncounted(c, q)
  BY <1>1, <1>2, <1>6 DEF Uncounted
<1>9. /\ misses' \in [DmOwner -> 0..2]
      /\ \A q \in DmOwner : q # o => misses'[q] = misses[q]
      /\ missed => (misses'[o] < 2 => misses'[o] = misses[o] + n)
      /\ ~missed => misses'[o] = 0
  <2>1. CASE missed
    <3>1. misses' = Missed({o}, n)
      BY <1>1, <2>1
    <3> QED BY <1>1, <1>5, <2>1, <3>1, MissedOne
  <2>2. CASE ~missed
    BY <1>1, <2>2 DEF DmType
  <2> QED BY <2>1, <2>2
<1>10. Ahead(o)'
  <2> SUFFICES ASSUME misses'[o] < 2
               PROVE  /\ engine = "up" /\ wants[o] = "deadMan" /\ ttl >= 3
                      /\ beat[b].at + ttl + misses'[o] + (IF DueNow(o)' THEN 1 ELSE 0) >= dmTime + ttl
    BY <1>1, <1>7 DEF Ahead
  <2>1. CASE missed
    <3>1. misses'[o] = misses[o] + n /\ misses[o] \in 0..2
      BY <1>1, <1>9, <2>1 DEF DmType
    <3>2. misses[o] < 2 /\ Ahead(o)
      BY <1>5, <3>1 DEF DmInv
    <3> QED BY <1>4, <1>5, <3>1, <3>2 DEF Ahead
  <2>2. CASE ~missed
    <3>1. beat[b].at = dmTime /\ engine = "up" /\ o \in activeOwners
      BY <1>4, <2>2
    <3>2. wants[o] = "deadMan"
      BY <3>1 DEF activeOwners
    <3> QED BY <1>4, <1>9, <2>2, <3>1, <3>2
  <2> QED BY <2>1, <2>2
<1>11. \A q \in DmOwner : Ahead(q)'
  <2> SUFFICES ASSUME NEW q \in DmOwner, q # o PROVE Ahead(q)'
    BY <1>10
  <2>1. DueNow(q) => DueNow(q)'
    BY <1>1, <1>2, <1>6 DEF DueNow, Due
  <2>2. misses[q] \in 0..2 /\ armed[q] \in Nat /\ Ahead(q)
    BY <1>1 DEF DmType, DmInv
  <2>3. misses'[q] = misses[q] /\ armed'[q] = armed[q]
    BY <1>7, <1>9
  <2>4. UNCHANGED <<dmTime, ttl, engine, wants>>
    BY <1>1
  <2> HIDE DEF missed, silent
  <2> QED BY <1>4, <2>1, <2>2, <2>3, <2>4 DEF Ahead
<1>12. \A q \in DmOwner : \/ exposed'[q] = 0
                          \/ exposed'[q] = exposed[q] /\ (k.st = "armed" => q \notin k.for)
  <2> TAKE q \in DmOwner
  <2>1. CASE q = o
    BY <1>7, <2>1
  <2>2. CASE q # o
    <3>1. exposed'[q] = exposed[q] /\ q \notin k.for
      BY <1>2, <1>7, <2>2
    <3> QED BY <3>1
  <2> QED BY <2>1, <2>2
<1>13. /\ beat[b].todo # {} /\ k.for \subseteq k.todo /\ k.st \in {"sent", "armed", "failed"}
       /\ \E q \in DmOwner : k.for = {q}
  BY <1>2, <1>4
<1>14. /\ UNCHANGED <<dmTime, ttl, triggers, health>> /\ engine' = engine /\ wants' = wants
       /\ armed' \in [DmOwner -> Nat] /\ misses' \in [DmOwner -> 0..2] /\ exposed' \in [DmOwner -> Nat]
       /\ k \in Heartbeat /\ k.todo = beat[b].todo /\ k.at = beat[b].at
  BY <1>1, <1>2, <1>7, <1>9
<1> HIDE DEF missed, silent
<1> QED BY <1>3, <1>8, <1>11, <1>12, <1>13, <1>14, BeatWaits

\* The passes that end.
LEMMA PassEnds ==
  ASSUME DmInv, NEW b \in Beat, NEW o \in DmOwner, BeatFails(b, o) \/ BeatRecord(b, o)
  PROVE  DmInv'
<1>1. /\ DmType /\ BeatOK(b) /\ beat[b].for = {o} /\ o \in beat[b].todo
      /\ UNCHANGED <<dmTime, ttl, engine, wants, armed, triggers>>
  BY DEF DmInv, DmBase, BeatOK, BeatFails, BeatRecord
<1>2. CASE BeatFails(b, o)
  <2>1. Pass(b, o, FALSE) /\ misses' = Missed({o}, 1) /\ beat[b].st = "sent"
    BY <1>2 DEF BeatFails
  <2>2. /\ misses' \in [DmOwner -> 0..2]
        /\ \A q \in DmOwner : q # o => misses'[q] = misses[q]
        /\ misses'[o] < 2 => misses'[o] = misses[o] + 1
    BY <1>1, <2>1, MissedOne
  <2>3. Due(b, o)
    BY <1>1, <2>1 DEF Due
  <2> QED BY <1>1, <2>1, <2>2, <2>3, PassKeeps
<1>3. CASE BeatRecord(b, o)
  <2>1. Pass(b, o, beat[b].st = "armed") /\ misses' = misses /\ beat[b].st \in {"armed", "failed"}
    BY <1>3 DEF BeatRecord
  <2>2. ~Due(b, o)
    BY <1>1, <2>1 DEF Due
  <2>3. (beat[b].st = "armed") \in BOOLEAN
    OBVIOUS
  <2>4. IF beat[b].st = "armed" THEN beat[b].st = "armed" /\ beat[b].for = {o} ELSE beat[b].st # "armed"
    BY <1>1
  <2> QED BY <1>1, <2>1, <2>2, <2>3, <2>4, PassKeeps DEF DmType
<1> QED BY <1>2, <1>3

LEMMA Incremented ==
  ASSUME NEW S, NEW f \in [S -> Nat], NEW d
  PROVE  [f EXCEPT ![d] = f[d] + 1] \in [S -> Nat] /\ [f EXCEPT ![d] = f[d] + 0] = f
<1>1. CASE d \in S
  <2>1. f[d] \in Nat /\ f[d] + 0 = f[d] /\ f[d] + 1 \in Nat
    BY <1>1
  <2>2. [f EXCEPT ![d] = f[d] + 1] \in [S -> Nat]
    BY <2>1
  <2>3. [f EXCEPT ![d] = f[d]] = f
    OBVIOUS
  <2>4. [f EXCEPT ![d] = f[d] + 0] = [f EXCEPT ![d] = f[d]]
    BY <2>1
  <2> QED BY <2>2, <2>3, <2>4
<1>2. CASE d \notin S
  <2>1. ASSUME NEW v PROVE [f EXCEPT ![d] = v] = f
    <3> DEFINE g == [f EXCEPT ![d] = v]
    <3>1. g = [x \in S |-> IF x = d THEN v ELSE f[x]]
      OBVIOUS
    <3>2. \A x \in S : x # d
      BY <1>2
    <3>3. g = [x \in S |-> f[x]]
      BY <3>1, <3>2
    <3>4. f = [x \in S |-> f[x]]
      OBVIOUS
    <3> QED BY <3>3, <3>4
  <2> QED BY <2>1
<1> QED BY <1>1, <1>2

\* What an interval does to schedules, triggers and misses: a schedule that runs out is
\* one of an owner with two misses.
LEMMA ExpiryKeeps ==
  ASSUME DmInv, IntervalPasses
  PROVE  /\ armed' \in [DmOwner -> Nat] /\ misses' \in [DmOwner -> 0..2]
         /\ triggers' \in [DmOwner -> [0..DmDay(MaxTime) -> Nat]]
         /\ \A o \in DmOwner :
              /\ misses'[o] < 2 =>
                   /\ armed'[o] = armed[o] /\ triggers'[o] = triggers[o]
                   /\ misses[o] < 2
                   /\ misses'[o] >= misses[o] + (IF DueNow(o) THEN 1 ELSE 0)
              /\ misses'[o] \in 0..2
<1>1. DmType /\ dmTime \in Nat /\ ttl \in Nat
  BY DEF DmInv, DmBase, DmType
<1>2. /\ armed' = [o \in DmOwner |-> IF Expires(o, dmTime + 1) THEN 0 ELSE armed[o]]
      /\ triggers' = [o \in DmOwner |-> [triggers[o] EXCEPT ![DmDay(dmTime + 1)] =
                          triggers[o][DmDay(dmTime + 1)] + (IF Expires(o, dmTime + 1) THEN 1 ELSE 0)]]
      /\ misses' = Missed(UNION {beat[b].todo : b \in Beat}, 1)
  BY DEF IntervalPasses
<1>3. armed' \in [DmOwner -> Nat]
  BY <1>1, <1>2 DEF DmType
<1>4. /\ misses' \in [DmOwner -> 0..2]
      /\ \A o \in DmOwner : o \notin UNION {beat[b].todo : b \in Beat} => misses'[o] = misses[o]
      /\ \A o \in (UNION {beat[b].todo : b \in Beat}) \cap DmOwner :
            misses'[o] = IF misses[o] + 1 < 2 THEN misses[o] + 1 ELSE 2
  BY <1>1, <1>2, MissedCounts
<1>5. ASSUME NEW o \in DmOwner
      PROVE  /\ triggers'[o] \in [0..DmDay(MaxTime) -> Nat]
             /\ ~Expires(o, dmTime + 1) => triggers'[o] = triggers[o]
  <2> DEFINE d == DmDay(dmTime + 1)
  <2>1. /\ triggers[o] \in [0..DmDay(MaxTime) -> Nat]
        /\ triggers'[o] = [triggers[o] EXCEPT ![d] = triggers[o][d] + (IF Expires(o, dmTime + 1) THEN 1 ELSE 0)]
    BY <1>1, <1>2 DEF DmType
  <2> HIDE DEF d
  <2>2. /\ [triggers[o] EXCEPT ![d] = triggers[o][d] + 1] \in [0..DmDay(MaxTime) -> Nat]
        /\ [triggers[o] EXCEPT ![d] = triggers[o][d] + 0] = triggers[o]
    BY <2>1, Incremented
  <2>3. CASE Expires(o, dmTime + 1)
    <3>1. triggers'[o] = [triggers[o] EXCEPT ![d] = triggers[o][d] + 1]
      BY <2>1, <2>3
    <3> QED BY <2>2, <2>3, <3>1
  <2>4. CASE ~Expires(o, dmTime + 1)
    <3>1. triggers'[o] = [triggers[o] EXCEPT ![d] = triggers[o][d] + 0]
      BY <2>1, <2>4
    <3> QED BY <2>1, <2>2, <3>1
  <2> QED BY <2>3, <2>4
<1>6. triggers' \in [DmOwner -> [0..DmDay(MaxTime) -> Nat]]
  BY <1>2, <1>5
<1>7. ASSUME NEW o \in DmOwner, misses'[o] < 2
      PROVE  /\ misses[o] < 2 /\ ~Expires(o, dmTime + 1)
             /\ misses'[o] >= misses[o] + (IF DueNow(o) THEN 1 ELSE 0)
  <2>1. DueNow(o) => o \in UNION {beat[b].todo : b \in Beat}
    BY DEF DueNow, Due
  <2>2. misses[o] \in 0..2 /\ armed[o] \in Nat
    BY <1>1 DEF DmType
  <2>3. misses[o] < 2 /\ misses'[o] >= misses[o] + (IF DueNow(o) THEN 1 ELSE 0)
    <3>1. CASE o \in UNION {beat[b].todo : b \in Beat}
      <4>1. misses'[o] = IF misses[o] + 1 < 2 THEN misses[o] + 1 ELSE 2
        BY <1>4, <3>1
      <4> QED BY <1>7, <2>2, <4>1
    <3>2. CASE o \notin UNION {beat[b].todo : b \in Beat}
      <4>1. misses'[o] = misses[o] /\ ~DueNow(o)
        BY <1>4, <2>1, <3>2
      <4> QED BY <1>7, <2>2, <4>1
    <3> QED BY <3>1, <3>2
  <2>4. Ahead(o)
    BY DEF DmInv
  <2>5. armed[o] + misses[o] + (IF DueNow(o) THEN 1 ELSE 0) >= dmTime + ttl /\ ttl >= 3
    BY <2>3, <2>4 DEF Ahead
  <2>6. misses'[o] \in 0..2
    BY <1>4
  <2>7. armed[o] > dmTime + 1
    BY <1>1, <1>7, <2>2, <2>3, <2>5, <2>6
  <2>8. ~Expires(o, dmTime + 1)
    BY <1>1, <2>2, <2>7 DEF Expires
  <2> QED BY <2>3, <2>8
<1> QED BY <1>2, <1>3, <1>4, <1>5, <1>6, <1>7

LEMMA IntervalPassesKeeps == ASSUME DmInv, IntervalPasses PROVE DmInv'
<1>1. /\ DmBase /\ DmType /\ dmTime \in Nat /\ ttl \in Nat /\ MaxLag \in Nat
      /\ UNCHANGED <<ttl, engine, wants, health, exposed>> /\ dmTime' = dmTime + 1
      /\ \A b \in Beat : beat[b] # NoBeat => dmTime < beat[b].at + MaxLag
  BY DeadManAssumption DEF DmInv, DmBase, DmType, IntervalPasses
<1>2. \A b \in Beat : beat[b] \in Heartbeat /\ beat[b].at \in Nat
  BY <1>1 DEF DmType, Heartbeat
<1> DEFINE n == [NoBeat EXCEPT !.at = dmTime + 1, !.todo = activeOwners, !.st = "next"]
           k == IF activeOwners = {} THEN NoBeat ELSE n
<1>3. /\ n \in Heartbeat /\ n.at = dmTime + 1 /\ n.todo = activeOwners
      /\ n.st = "next" /\ n.for = {}
  <2>1. dmTime + 1 \in Nat /\ activeOwners \in SUBSET DmOwner
    BY <1>1 DEF activeOwners
  <2>2. n \in Heartbeat
    BY <2>1, IdleHeartbeat DEF Heartbeat, NoBeat
  <2> QED BY <2>2, IdleHeartbeat DEF NoBeat
<1>4. \/ beat' = beat /\ ~(engine = "up" /\ deadManEnabled)
      \/ /\ engine = "up" /\ deadManEnabled
         /\ \E b \in Beat : beat[b] = NoBeat /\ beat' = [beat EXCEPT ![b] = k]
  BY DEF IntervalPasses
<1> HIDE DEF n
<1>5. k \in Heartbeat /\ k.for = {} /\ k.st \in {"none", "next"} /\ k.todo = activeOwners
      /\ (activeOwners = {} => k = NoBeat) /\ (activeOwners # {} => k.at = dmTime + 1)
  BY <1>3, IdleHeartbeat
<1> HIDE DEF k
\* A heartbeat is an old one, or the one that begins now.
<1>6. ASSUME NEW b \in Beat
      PROVE  \/ beat'[b] = beat[b]
             \/ /\ beat'[b] = k /\ beat[b] = NoBeat /\ ttl >= 3
                /\ \A c \in Beat : c # b => beat'[c] = beat[c]
  BY <1>1, <1>4 DEF DmType, deadManEnabled
<1>7. beat' \in [Beat -> Heartbeat]
  BY <1>1, <1>4, <1>5 DEF DmType
<1>8. \A b \in Beat : beat[b].todo # {} => beat[b].at <= dmTime /\ dmTime + 1 <= beat[b].at + MaxLag
  BY <1>1, <1>2, IdleHeartbeat DEF DmBase, BeatOK
<1>9. ASSUME NEW b \in Beat PROVE BeatOK(b)'
  <2>1. CASE beat'[b] = beat[b]
    <3>1. BeatOK(b) /\ beat[b].at \in Nat
      BY <1>1, <1>2 DEF DmBase
    <3> QED BY <1>1, <1>8, <2>1, <3>1 DEF BeatOK
  <2>2. CASE beat'[b] = k /\ ttl >= 3
    <3>1. dmTime + 1 <= dmTime + 1 + MaxLag
      BY <1>1
    <3> QED BY <1>1, <1>5, <2>2, <3>1 DEF BeatOK
  <2> QED BY <1>6, <2>1, <2>2
<1>10. BeatsApart'
  <2> SUFFICES ASSUME NEW b \in Beat, NEW c \in Beat,
                      beat'[b].todo # {}, beat'[c].todo # {}, beat'[b].at = beat'[c].at
               PROVE  b = c
    BY DEF BeatsApart
  <2>1. CASE beat'[b] = beat[b] /\ beat'[c] = beat[c]
    BY <1>1, <2>1 DEF DmBase, BeatsApart
  <2>2. ASSUME NEW e \in Beat, NEW d \in Beat, beat'[e] = k, beat'[d] = beat[d],
               beat'[e].todo # {}, beat'[d].todo # {}, beat'[e].at = beat'[d].at
        PROVE  FALSE
    <3>1. beat[d].at <= dmTime /\ beat[d].at = dmTime + 1
      BY <1>5, <1>8, <2>2
    <3> QED BY <1>1, <3>1
  <2>3. b # c => beat'[b] = beat[b] \/ beat'[c] = beat[c]
    BY <1>6
  <2>4. \A e \in Beat : beat'[e] = k \/ beat'[e] = beat[e]
    BY <1>6
  <2> QED BY <2>1, <2>2, <2>3, <2>4
<1>11. DmBase'
  BY <1>1, <1>7, <1>9, <1>10, ExpiryKeeps DEF DmBase, DmType
<1>12. ASSUME NEW o \in DmOwner PROVE Ahead(o)'
  <2> SUFFICES ASSUME misses'[o] < 2
               PROVE  /\ engine = "up" /\ wants[o] = "deadMan" /\ ttl >= 3
                      /\ armed'[o] + misses'[o] + (IF DueNow(o)' THEN 1 ELSE 0) >= dmTime + 1 + ttl
    BY <1>1 DEF Ahead
  <2>1. /\ armed'[o] = armed[o] /\ misses[o] < 2
        /\ misses'[o] >= misses[o] + (IF DueNow(o) THEN 1 ELSE 0)
        /\ misses'[o] \in 0..2
    BY ExpiryKeeps
  <2>2. misses[o] \in 0..2 /\ armed[o] \in Nat /\ Ahead(o)
    BY <1>1 DEF DmType, DmInv
  <2>3. /\ engine = "up" /\ wants[o] = "deadMan" /\ ttl >= 3
        /\ armed[o] + misses[o] + (IF DueNow(o) THEN 1 ELSE 0) >= dmTime + ttl
    BY <2>1, <2>2 DEF Ahead
  <2>4. DueNow(o)'
    <3>1. PICK b \in Beat : beat[b] = NoBeat /\ beat' = [beat EXCEPT ![b] = k]
      BY <1>4, <2>3 DEF deadManEnabled
    <3>2. beat'[b] = k /\ o \in activeOwners
      BY <1>1, <2>3, <3>1 DEF DmType, activeOwners
    <3>3. beat'[b].at = dmTime' /\ Due(b, o)'
      BY <1>1, <1>5, <3>2 DEF Due
    <3> QED BY <3>3 DEF DueNow
  <2>5. dmTime \in Nat /\ ttl \in Nat
    BY <1>1
  <2>6. armed[o] + misses'[o] >= dmTime + ttl
    <3>1. CASE DueNow(o)
      BY <2>1, <2>2, <2>3, <2>5, <3>1
    <3>2. CASE ~DueNow(o)
      BY <2>1, <2>2, <2>3, <2>5, <3>2
    <3> QED BY <3>1, <3>2
  <2>7. armed[o] + misses'[o] + 1 >= dmTime + 1 + ttl
    BY <2>1, <2>2, <2>5, <2>6
  <2>8. (IF DueNow(o)' THEN 1 ELSE 0) = 1
    BY <2>4
  <2>9. armed'[o] + misses'[o] + (IF DueNow(o)' THEN 1 ELSE 0) >= dmTime + 1 + ttl
    BY <2>1, <2>7, <2>8
  <2> QED BY <2>3, <2>9
<1>13. ASSUME NEW b \in Beat, NEW o \in DmOwner PROVE ExposedSince(b, o)'
  <2> SUFFICES ASSUME beat'[b].st = "armed", o \in beat'[b].for
               PROVE  exposed'[o] + Cardinality(Others(b, o)') <= MaxLag + (dmTime' - beat'[b].at)
    BY DEF ExposedSince
  <2>1. beat'[b] = beat[b]
    BY <1>5, <1>6
  <2>2. beat[b].todo # {} /\ ExposedSince(b, o)
    BY <1>1, <2>1 DEF DmInv, DmBase, BeatOK
  <2>3. IsFiniteSet(Others(b, o)) /\ Cardinality(Others(b, o)) \in Nat
    BY <1>1, <2>2, OthersBound, FS_CardinalityType
  <2>4. \E x : Others(b, o)' \subseteq Others(b, o) \cup {x}
    <3>1. CASE beat' = beat
      BY <3>1 DEF Others, Uncounted
    <3>2. ASSUME NEW x \in Beat, \A c \in Beat : c # x => beat'[c] = beat[c]
          PROVE  Others(b, o)' \subseteq Others(b, o) \cup {x}
      BY <3>2 DEF Others, Uncounted
    <3>3. beat' = beat \/ \E x \in Beat : \A c \in Beat : c # x => beat'[c] = beat[c]
      BY <1>1, <1>4 DEF DmType
    <3> QED BY <3>1, <3>2, <3>3
  <2>5. PICK x : Others(b, o)' \subseteq Others(b, o) \cup {x}
    BY <2>4
  <2>6. /\ IsFiniteSet(Others(b, o) \cup {x})
        /\ Cardinality(Others(b, o) \cup {x}) =
             IF x \in Others(b, o) THEN Cardinality(Others(b, o)) ELSE Cardinality(Others(b, o)) + 1
    BY <2>3, FS_AddElement
  <2>7. /\ Cardinality(Others(b, o)') <= Cardinality(Others(b, o) \cup {x})
        /\ Cardinality(Others(b, o)') \in Nat
    BY <2>5, <2>6, FS_Subset, FS_CardinalityType
  <2>8. exposed[o] \in Nat
    BY <1>1 DEF DmType
  <2>9. exposed[o] + Cardinality(Others(b, o)) <= MaxLag + (dmTime - beat[b].at)
    BY <2>1, <2>2 DEF ExposedSince
  <2>10. /\ MaxLag \in Nat /\ dmTime \in Nat /\ beat[b].at \in Nat
         /\ exposed'[o] = exposed[o] /\ dmTime' = dmTime + 1 /\ beat'[b].at = beat[b].at
    BY <1>1, <1>2, <2>1
  <2>11. Cardinality(Others(b, o)') <= Cardinality(Others(b, o)) + 1
    BY <2>3, <2>6, <2>7
  <2> QED BY <2>3, <2>7, <2>8, <2>9, <2>10, <2>11
<1>14. \A o \in DmOwner : HealthFollows(o)'
  BY <1>1 DEF DmInv, HealthFollows
<1> QED BY <1>11, <1>12, <1>13, <1>14 DEF DmInv

\* A start or an end of the process leaves no heartbeat and no failure behind.
LEMMA ProcessKeeps ==
  ASSUME DmInv, Process, UNCHANGED <<dmTime, ttl, armed, triggers>>,
         engine' \in {"starting", "up", "stopping", "down"},
         misses' \in [DmOwner -> 0..2], \A o \in DmOwner : misses'[o] = 2
  PROVE  DmInv'
<1>1. DmType /\ DmBase
  BY DEF DmInv, DmBase
<1>2. /\ \A b \in Beat : beat'[b] = NoBeat
      /\ \A o \in DmOwner : exposed'[o] = 0 /\ health'[o] = Healthy
      /\ beat' \in [Beat -> Heartbeat] /\ exposed' \in [DmOwner -> Nat]
      /\ health' \in [DmOwner -> [failures : Nat, alerting : BOOLEAN]]
  BY IdleHeartbeat DEF Process, Healthy
<1>3. DmType'
  BY <1>1, <1>2 DEF DmType
<1>4. BeatsApart' /\ \A b \in Beat : BeatOK(b)'
  BY <1>2, IdleHeartbeat DEF BeatsApart, BeatOK
<1>5. \A o \in DmOwner : Ahead(o)'
  BY DEF Ahead
<1>6. \A o \in DmOwner : HealthFollows(o)'
  BY <1>2, DeadManAssumption DEF HealthFollows, Healthy
<1>7. \A b \in Beat, o \in DmOwner : ExposedSince(b, o)'
  BY <1>2, IdleHeartbeat DEF ExposedSince
<1> QED BY <1>3, <1>4, <1>5, <1>6, <1>7 DEF DmInv, DmBase

\* The steps that touch no heartbeat.
LEMMA AsideKeeps ==
  ASSUME DmInv, UNCHANGED <<dmTime, ttl, triggers, beat, health, exposed>>,
         engine' \in {"starting", "up", "stopping", "down"},
         armed' \in [DmOwner -> Nat], misses' \in [DmOwner -> 0..2],
         \A o \in DmOwner : misses'[o] < 2 =>
            /\ misses'[o] = misses[o] /\ armed'[o] = armed[o]
            /\ engine' = engine /\ wants'[o] = wants[o]
  PROVE  DmInv'
<1>1. DmBase'
  BY DEF DmInv, DmBase, DmType, BeatsApart, BeatOK
<1>2. \A o \in DmOwner : Ahead(o)'
  BY DEF DmInv, Ahead, DueNow, Due
<1>3. \A o \in DmOwner : HealthFollows(o)'
  BY DEF DmInv, HealthFollows
<1>4. \A b \in Beat, o \in DmOwner : ExposedSince(b, o)'
  BY DEF DmInv, ExposedSince, Others, Uncounted
<1> QED BY <1>1, <1>2, <1>3, <1>4 DEF DmInv

LEMMA DmStarts == DmInit => DmInv
<1> SUFFICES ASSUME DmInit PROVE DmInv
  OBVIOUS
<1>1. /\ dmTime \in Nat /\ ttl \in Nat /\ engine = "down"
      /\ beat = [b \in Beat |-> NoBeat] /\ health = [o \in DmOwner |-> Healthy]
      /\ armed \in [DmOwner -> Nat] /\ misses = [o \in DmOwner |-> 2]
      /\ exposed = [o \in DmOwner |-> 0]
  BY DeadManAssumption DEF DmInit
<1>2. triggers \in [DmOwner -> [0..DmDay(MaxTime) -> Nat]]
  BY DEF DmInit
<1>3. Healthy \in [failures : Nat, alerting : BOOLEAN] /\ Healthy.failures = 0
  BY DEF Healthy
<1>4. /\ beat \in [Beat -> Heartbeat] /\ \A b \in Beat : beat[b] = NoBeat
      /\ health \in [DmOwner -> [failures : Nat, alerting : BOOLEAN]]
      /\ \A o \in DmOwner : health[o].failures = 0 /\ exposed[o] = 0 /\ misses[o] = 2
  BY <1>1, <1>3, IdleHeartbeat
<1>5. DmType
  BY <1>1, <1>2, <1>4 DEF DmType
<1>6. BeatsApart /\ \A b \in Beat : BeatOK(b)
  BY <1>4, IdleHeartbeat DEF BeatsApart, BeatOK
<1>7. \A o \in DmOwner : Ahead(o)
  BY <1>4 DEF Ahead
<1>8. \A o \in DmOwner : HealthFollows(o)
  BY <1>4, DeadManAssumption DEF HealthFollows
<1>9. \A b \in Beat, o \in DmOwner : ExposedSince(b, o)
  BY <1>4, IdleHeartbeat DEF ExposedSince
<1> QED BY <1>5, <1>6, <1>7, <1>8, <1>9 DEF DmInv, DmBase

LEMMA DmStep == DmInv /\ [DmNext]_dmVars => DmInv'
<1> SUFFICES ASSUME DmInv, [DmNext]_dmVars PROVE DmInv'
  OBVIOUS
<1>1. /\ dmTime \in Nat /\ ttl \in Nat /\ engine \in {"starting", "up", "stopping", "down"}
      /\ armed \in [DmOwner -> Nat] /\ misses \in [DmOwner -> 0..2]
      /\ \A o \in DmOwner : misses[o] < 2 => engine = "up"
      /\ \A o \in DmOwner : misses[o] \in 0..2 /\ (~(misses[o] < 2) => misses[o] = 2)
  BY DEF DmInv, DmBase, DmType, Ahead
<1>2. CASE Start
  BY <1>1, <1>2, ProcessKeeps DEF Start
<1>3. CASE Listen
  BY <1>1, <1>3, AsideKeeps DEF Listen
<1>4. CASE Shutdown
  <2>1. misses' \in [DmOwner -> 0..2] /\ \A o \in DmOwner : ~(misses'[o] < 2)
    BY <1>4 DEF Shutdown
  <2> QED BY <1>1, <1>4, <2>1, AsideKeeps DEF Shutdown
<1>5. CASE Exit
  BY <1>1, <1>5, ProcessKeeps DEF Exit
<1>6. CASE IntervalPasses
  BY <1>6, IntervalPassesKeeps
<1>7. ASSUME NEW o \in DmOwner, deadManClearAll(o) PROVE DmInv'
  <2>1. engine \in {"starting", "stopping"} /\ armed' \in [DmOwner -> Nat]
    BY <1>1, <1>7 DEF deadManClearAll
  <2> QED BY <1>1, <1>7, <2>1, AsideKeeps DEF deadManClearAll
<1>8. ASSUME NEW o \in DmOwner, NEW w \in {"deadMan", "plain", "none"}, Edit(o, w) PROVE DmInv'
  <2>1. /\ misses' \in [DmOwner -> 0..2] /\ misses'[o] = 2
        /\ \A q \in DmOwner : q # o => misses'[q] = misses[q] /\ wants'[q] = wants[q]
    BY <1>1, <1>8 DEF Edit
  <2>2. UNCHANGED <<dmTime, ttl, engine, triggers, beat, health, exposed, armed>>
    BY <1>8 DEF Edit
  <2> QED BY <1>1, <2>1, <2>2, AsideKeeps
<1>9. ASSUME NEW b \in Beat, NEW o \in DmOwner,
             BeatDecide(b, o) \/ BeatArm(b, o) \/ BeatFails(b, o) \/ BeatRecord(b, o)
      PROVE  DmInv'
  BY <1>9, BeatDecideKeeps, BeatArmKeeps, PassEnds
<1>10. CASE UNCHANGED dmVars
  BY <1>1, <1>10, AsideKeeps DEF dmVars
<1> QED BY <1>2, <1>3, <1>4, <1>5, <1>6, <1>7, <1>8, <1>9, <1>10 DEF DmNext

\* However heartbeats overlap and their answers are reordered, and whatever fails in between,
\* an owner left unarmed for long enough is alerted.
THEOREM UnprotectedOwnersAreAlerted == DmSpec => []ExposureIsAlerted
<1>1. DmInv => ExposureIsAlerted
  <2> SUFFICES ASSUME DmInv, NEW o \in DmOwner, exposed[o] >= AlertAfter + 2 * MaxLag
               PROVE  health[o].alerting
    BY DEF ExposureIsAlerted
  <2>1. HealthFollows(o) /\ exposed[o] \in Nat /\ health[o].failures \in Nat
    BY DEF DmInv, DmBase, DmType
  <2>2. MaxLag \in Nat /\ AlertAfter \in Nat
    BY DeadManAssumption
  <2> QED BY <2>1, <2>2 DEF HealthFollows
<1> QED BY <1>1, DmStarts, DmStep, PTL DEF DmSpec

\* The switch never fires for an owner that the engine serves and that has missed one pass
\* at most since its last arm in time: the switch only runs with a TTL of three intervals, and no
\* order of late answers undoes it.
THEOREM OneMissIsTolerated == DmSpec => OneMissTolerated
<1>1. DmInv /\ [DmNext]_dmVars =>
        [\A o \in DmOwner : triggers'[o] # triggers[o] => misses'[o] = 2]_dmVars
  <2> SUFFICES ASSUME DmInv, DmNext, NEW o \in DmOwner, triggers'[o] # triggers[o]
               PROVE  misses'[o] = 2
    BY DEF dmVars
  <2>1. IntervalPasses
    <3>1. ASSUME NEW q \in DmOwner, deadManClearAll(q) PROVE triggers' = triggers
      BY <3>1 DEF deadManClearAll
    <3>2. ASSUME NEW q \in DmOwner, NEW w, Edit(q, w) PROVE triggers' = triggers
      BY <3>2 DEF Edit
    <3>3. ASSUME NEW b \in Beat, NEW q \in DmOwner,
                 BeatDecide(b, q) \/ BeatArm(b, q) \/ BeatFails(b, q) \/ BeatRecord(b, q)
          PROVE  triggers' = triggers
      BY <3>3 DEF BeatDecide, BeatArm, BeatFails, BeatRecord
    <3>4. Start \/ Listen \/ Shutdown \/ Exit => triggers' = triggers
      BY DEF Start, Listen, Shutdown, Exit
    <3> QED BY <3>1, <3>2, <3>3, <3>4 DEF DmNext
  <2>2. misses'[o] \in 0..2 /\ (misses'[o] < 2 => triggers'[o] = triggers[o])
    BY <2>1, ExpiryKeeps
  <2> QED BY <2>2
<1> QED BY <1>1, DmStarts, DmStep, PTL DEF DmSpec, OneMissTolerated

---------------------------------------------------------------------------
(* The budget.  It learns of an arm later than the exchange, so what it     *)
(* counted is compared with the triggers that happened and those that may   *)
(* still happen: a schedule at the exchange is one, and an arm that the     *)
(* budget, or an answer on its way, takes to be in effect beyond that       *)
(* schedule is another, since its refreshes are free.                       *)

One(p) == IF p THEN 1 ELSE 0
Today == DmDay(dmTime)
Fired(o) == triggers[o][Today]
CountedToday(o) == IF budget[o].day = Today THEN budget[o].count ELSE 0

\* The answer to an arm of o is on its way to the budget; it will count today.
Awaits(b, o) == beat[b].st = "armed" /\ o \in beat[b].for
Uncommitted(o) == \E b \in Beat : Awaits(b, o) /\ beat[b].counts /\ DmDay(beat[b].at) = Today

\* An arm that is taken to be in effect beyond the exchange's schedule.
Outlived(o) == \/ budget[o].until > dmTime /\ budget[o].until > armed[o]
               \/ \E b \in Beat : Awaits(b, o) /\ beat[b].at + ttl > armed[o]
Windows(o) == One(armed[o] # 0) + One(Outlived(o))

\* Every trigger, past or to come, was counted, is about to be, or is a slip.
BudgetCovers(o) == Fired(o) + Windows(o) <= CountedToday(o) + One(Uncommitted(o)) + slips[o]
BudgetRoom(o) == Fired(o) + Windows(o) <= MaxPerDay + slips[o]

\* An arm decided in this interval has room for one more trigger.
DecidedInTime(b, o) ==
  beat[b].st = "sent" /\ o \in beat[b].for /\ beat[b].at = dmTime =>
    /\ Fired(o) + 1 <= MaxPerDay + slips[o]
    /\ ~beat[b].counts => budget[o].until > dmTime

\* While a heartbeat of an earlier day has o to do, only slips have fired today; once its
\* arm was taken, one slip more than that.
OldBeat(b, o) ==
  o \in beat[b].todo /\ DmDay(beat[b].at) # Today =>
    Fired(o) + One(armed[o] # 0 /\ armed[o] <= beat[b].at + ttl) <= slips[o]
OldArm(b, o) ==
  Awaits(b, o) =>
    (IF DmDay(beat[b].at) # Today THEN Fired(o) + 1 ELSE 0)
      + One(armed[o] # 0 /\ armed[o] < beat[b].at + ttl) <= slips[o]

\* Only a late arm puts the schedule before what was recorded.
SlippedBack(o) == armed[o] # 0 /\ Outlived(o) => slips[o] >= 1

BudgetType ==
  /\ budget \in [DmOwner -> [day : Nat, count : Nat, until : Nat]]
  /\ slips \in [DmOwner -> Nat]
  /\ ttl \in TtlChoices /\ dmTime <= MaxTime
  /\ engine = "down" => \A b \in Beat : beat[b].todo = {}

OwnBudget(o) ==
  /\ budget[o].until <= dmTime + ttl /\ budget[o].day <= Today
  /\ \A d \in 0..DmDay(MaxTime) : /\ d > Today => triggers[o][d] = 0
                                  /\ triggers[o][d] <= MaxPerDay + slips[o]
  /\ BudgetCovers(o) /\ BudgetRoom(o) /\ SlippedBack(o)
  /\ \A b \in Beat : DecidedInTime(b, o) /\ OldBeat(b, o) /\ OldArm(b, o)

\* Heartbeats are done with o before the TTL they arm for has run out.
Prompt(o) == \A b \in Beat : o \in beat[b].todo => dmTime < beat[b].at + ttl

BudgetInv == BudgetType /\ \A o \in DmOwner : ~overran[o] => OwnBudget(o) /\ Prompt(o)

LEMMA DaysPass ==
  ASSUME NEW t \in Nat, NEW u \in Nat, t <= u
  PROVE  DmDay(t) \in Nat /\ DmDay(u) \in Nat /\ DmDay(t) <= DmDay(u)
BY DeadManAssumption DEF DmDay

\* What the steps below use of a state.
LEMMA BudgetFacts ==
  ASSUME DmInv, BudgetInv, NEW o \in DmOwner, ~overran[o]
  PROVE  /\ dmTime \in Nat /\ ttl \in Nat /\ Today \in Nat /\ Today \in 0..DmDay(MaxTime)
         /\ MaxPerDay \in Nat
         /\ armed[o] \in Nat /\ slips[o] \in Nat /\ Fired(o) \in Nat
         /\ budget[o] \in [day : Nat, count : Nat, until : Nat]
         /\ CountedToday(o) \in Nat
         /\ triggers[o] \in [0..DmDay(MaxTime) -> Nat]
         /\ \A b \in Beat : /\ beat[b].at \in Nat
                            /\ o \in beat[b].todo => /\ beat[b].at <= dmTime /\ DmDay(beat[b].at) <= Today
                                                     /\ dmTime < beat[b].at + ttl
                            /\ o \in beat[b].for => o \in beat[b].todo
                            /\ Awaits(b, o) => beat[b].for = {o}
<1>1. DmType /\ (\A b \in Beat : BeatOK(b)) /\ BudgetType
  BY DEF DmInv, DmBase, BudgetInv
<1>2. dmTime \in Nat /\ ttl \in Nat /\ MaxTime \in Nat /\ MaxPerDay \in Nat /\ dmTime <= MaxTime
  BY <1>1, DeadManAssumption DEF DmType, BudgetType
<1>3. Today \in Nat /\ Today \in 0..DmDay(MaxTime)
  BY <1>2, DaysPass DEF Today
<1>4. armed[o] \in Nat /\ slips[o] \in Nat /\ budget[o] \in [day : Nat, count : Nat, until : Nat]
      /\ triggers[o] \in [0..DmDay(MaxTime) -> Nat]
  BY <1>1 DEF DmType, BudgetType
<1>5. Fired(o) \in Nat /\ CountedToday(o) \in Nat
  BY <1>3, <1>4 DEF Fired, CountedToday
<1>6. ASSUME NEW b \in Beat
      PROVE  /\ beat[b].at \in Nat
             /\ o \in beat[b].todo => /\ beat[b].at <= dmTime /\ DmDay(beat[b].at) <= Today
                                      /\ dmTime < beat[b].at + ttl
             /\ o \in beat[b].for => o \in beat[b].todo
             /\ Awaits(b, o) => beat[b].for = {o}
  <2>1. beat[b] \in Heartbeat /\ BeatOK(b)
    BY <1>1 DEF DmType
  <2>2. beat[b].at \in Nat
    BY <2>1 DEF Heartbeat
  <2>3. o \in beat[b].todo => beat[b].at <= dmTime /\ dmTime < beat[b].at + ttl
    BY <2>1 DEF BeatOK, BudgetInv, Prompt
  <2>4. o \in beat[b].todo => DmDay(beat[b].at) <= Today
    BY <1>2, <2>2, <2>3, DaysPass DEF Today
  <2>5. o \in beat[b].for => o \in beat[b].todo
    BY <2>1 DEF BeatOK
  <2>6. Awaits(b, o) => beat[b].for = {o}
    BY <2>1 DEF BeatOK, Awaits
  <2> QED BY <1>2, <2>2, <2>3, <2>4, <2>5, <2>6
<1> QED BY <1>2, <1>3, <1>4, <1>5, <1>6

\* A step within the interval that takes nothing from the budget of o: a schedule may be
\* cleared and a heartbeat may end, but for what it counts as a slip.
LEMMA BudgetUntaken ==
  ASSUME DmInv, BudgetInv, NEW o \in DmOwner, ~overran[o],
         UNCHANGED <<dmTime, ttl, triggers>>, budget'[o] = budget[o],
         armed'[o] \in {armed[o], 0},
         slips'[o] \in Nat, slips'[o] >= slips[o],
         Uncommitted(o) => Uncommitted(o)' \/ slips'[o] >= slips[o] + 1,
         \A b \in Beat :
           /\ Awaits(b, o)' => Awaits(b, o) /\ beat'[b].at = beat[b].at
           /\ o \in beat'[b].todo => o \in beat[b].todo /\ beat'[b].at = beat[b].at
           /\ beat'[b].st = "sent" /\ o \in beat'[b].for /\ beat'[b].at = dmTime =>
                /\ Fired(o) + 1 <= MaxPerDay + slips[o]
                /\ ~beat'[b].counts => budget[o].until > dmTime
  PROVE  OwnBudget(o)'
<1>1. OwnBudget(o) /\ Today' = Today /\ Fired(o)' = Fired(o) /\ CountedToday(o)' = CountedToday(o)
  BY DEF BudgetInv, Today, Fired, CountedToday
<1>2. /\ MaxPerDay \in Nat /\ armed[o] \in Nat /\ slips[o] \in Nat /\ Fired(o) \in Nat
      /\ CountedToday(o) \in Nat /\ dmTime \in Nat /\ ttl \in Nat
      /\ budget[o].until \in Nat
      /\ triggers[o] \in [0..DmDay(MaxTime) -> Nat]
      /\ \A b \in Beat : beat[b].at \in Nat
  BY BudgetFacts
<1>3. armed'[o] \in Nat /\ (armed'[o] = armed[o] \/ armed'[o] = 0)
  BY <1>2
<1>4. Outlived(o)' => Outlived(o) \/ (armed[o] # 0 /\ armed'[o] = 0)
  BY <1>2, <1>3 DEF Outlived
<1>5. Windows(o)' <= Windows(o) /\ Windows(o)' \in Nat /\ Windows(o) \in Nat
  BY <1>3, <1>4 DEF Windows, One
<1>6. One(Uncommitted(o)) \in Nat /\ One(Uncommitted(o)') \in Nat
      /\ One(Uncommitted(o)) + slips[o] <= One(Uncommitted(o)') + slips'[o]
  BY <1>2 DEF One
<1>7. BudgetCovers(o)'
  <2> HIDE DEF One
  <2>1. BudgetCovers(o)
    BY <1>1 DEF OwnBudget
  <2> QED BY <1>1, <1>2, <1>5, <1>6, <2>1 DEF BudgetCovers
<1>8. BudgetRoom(o)'
  <2>1. BudgetRoom(o)
    BY <1>1 DEF OwnBudget
  <2> QED BY <1>1, <1>2, <1>5, <2>1 DEF BudgetRoom
<1>9. SlippedBack(o)'
  BY <1>1, <1>2, <1>3, <1>4 DEF OwnBudget, SlippedBack
<1>10. ASSUME NEW b \in Beat PROVE DecidedInTime(b, o)'
  BY <1>1, <1>2 DEF DecidedInTime
<1>11. ASSUME NEW b \in Beat PROVE OldBeat(b, o)'
  <2> SUFFICES ASSUME o \in beat'[b].todo, DmDay(beat'[b].at) # Today
               PROVE  Fired(o) + One(armed'[o] # 0 /\ armed'[o] <= beat'[b].at + ttl) <= slips'[o]
    BY <1>1 DEF OldBeat
  <2>1. OldBeat(b, o) /\ o \in beat[b].todo /\ beat'[b].at = beat[b].at
    BY <1>1 DEF OwnBudget
  <2> QED BY <1>2, <1>3, <2>1 DEF OldBeat, One
<1>12. ASSUME NEW b \in Beat PROVE OldArm(b, o)'
  <2> SUFFICES ASSUME Awaits(b, o)'
               PROVE  (IF DmDay(beat'[b].at) # Today THEN Fired(o) + 1 ELSE 0)
                        + One(armed'[o] # 0 /\ armed'[o] < beat'[b].at + ttl) <= slips'[o]
    BY <1>1 DEF OldArm
  <2>1. OldArm(b, o) /\ Awaits(b, o) /\ beat'[b].at = beat[b].at
    BY <1>1 DEF OwnBudget
  <2> QED BY <1>2, <1>3, <2>1 DEF OldArm, One
<1>13. \A d \in 0..DmDay(MaxTime) : /\ d > Today => triggers[o][d] = 0
                                    /\ triggers[o][d] <= MaxPerDay + slips'[o]
  <2> TAKE d \in 0..DmDay(MaxTime)
  <2>1. triggers[o][d] \in Nat
    BY <1>2
  <2>2. (d > Today => triggers[o][d] = 0) /\ triggers[o][d] <= MaxPerDay + slips[o]
    BY <1>1 DEF OwnBudget
  <2> QED BY <1>2, <2>1, <2>2
<1> QED BY <1>1, <1>7, <1>8, <1>9, <1>10, <1>11, <1>12, <1>13 DEF OwnBudget

\* The exchange takes an arm of o.
LEMMA ArmInBudget ==
  ASSUME DmInv, BudgetInv, NEW o \in DmOwner, ~overran[o], NEW b \in Beat, BeatArm(b, o)
  PROVE  OwnBudget(o)'
<1> DEFINE slipped == dmFaults' # dmFaults \/ dmTime > beat[b].at
<1>1. /\ beat[b].st = "sent" /\ beat[b].for = {o} /\ beat[b].at + ttl > dmTime
      /\ armed' = [armed EXCEPT ![o] = beat[b].at + ttl]
      /\ slips' = IF slipped THEN Slip({o}) ELSE slips
      /\ beat' = [beat EXCEPT ![b].st = IF dmFaults' # dmFaults THEN "failed" ELSE "armed"]
      /\ UNCHANGED <<dmTime, ttl, budget, triggers>>
  BY DEF BeatArm
<1>2. OwnBudget(o) /\ Today' = Today /\ Fired(o)' = Fired(o) /\ CountedToday(o)' = CountedToday(o)
  BY <1>1 DEF BudgetInv, Today, Fired, CountedToday
<1>3. /\ MaxPerDay \in Nat /\ armed[o] \in Nat /\ slips[o] \in Nat /\ Fired(o) \in Nat
      /\ CountedToday(o) \in Nat /\ dmTime \in Nat /\ ttl \in Nat
      /\ budget[o].until \in Nat
      /\ triggers[o] \in [0..DmDay(MaxTime) -> Nat]
      /\ \A c \in Beat : beat[c].at \in Nat
      /\ \A c \in Beat : o \in beat[c].todo => beat[c].at <= dmTime
      /\ \A c \in Beat : o \in beat[c].for => o \in beat[c].todo
  <2>1. o \in beat[b].todo
    BY <1>1, BudgetFacts
  <2> QED BY <2>1, BudgetFacts
<1>4. /\ armed'[o] = beat[b].at + ttl /\ armed'[o] > dmTime /\ armed'[o] \in Nat
      /\ slips'[o] = slips[o] + One(slipped) /\ slips'[o] \in Nat
  <2>1. armed \in [DmOwner -> Nat] /\ slips \in [DmOwner -> Nat]
    BY DEF DmInv, DmBase, DmType, BudgetInv, BudgetType
  <2> QED BY <1>1, <1>3, <2>1 DEF Slip, One
<1>5. /\ \A c \in Beat : /\ beat'[c].at = beat[c].at /\ beat'[c].todo = beat[c].todo
                         /\ beat'[c].for = beat[c].for /\ beat'[c].counts = beat[c].counts
                         /\ c # b => beat'[c] = beat[c]
      /\ beat'[b].st = IF dmFaults' # dmFaults THEN "failed" ELSE "armed"
  <2>1. beat \in [Beat -> Heartbeat] /\ beat[b] \in Heartbeat
    BY DEF DmInv, DmBase, DmType
  <2> QED BY <1>1, <2>1 DEF Heartbeat
<1>6. \A c \in Beat : Awaits(c, o)' => c = b \/ Awaits(c, o)
  BY <1>5 DEF Awaits
<1>7. Uncommitted(o) => Uncommitted(o)'
  BY <1>1, <1>2, <1>5 DEF Uncommitted, Awaits
<1>8. beat[b].at <= dmTime /\ (~slipped => beat[b].at = dmTime)
  BY <1>1, <1>3
<1>9. Windows(o) = 0 => armed[o] = 0 /\ budget[o].until <= dmTime /\ \A c \in Beat : ~Awaits(c, o)
  <2> HAVE Windows(o) = 0
  <2>1. armed[o] = 0 /\ ~Outlived(o)
    BY DEF Windows, One
  <2>2. \A c \in Beat : Awaits(c, o) => beat[c].at + ttl > 0
    BY BudgetFacts DEF Awaits
  <2> QED BY <1>3, <2>1, <2>2 DEF Outlived
<1>10. Windows(o) \in 0..2 /\ Windows(o)' \in 0..2
  BY DEF Windows, One
<1>11. ~slipped => ~Outlived(o)'
  <2> HAVE ~slipped
  <2>1. armed'[o] = dmTime + ttl
    BY <1>4, <1>8
  <2>2. budget[o].until <= dmTime + ttl
    BY <1>2 DEF OwnBudget
  <2>3. \A c \in Beat : Awaits(c, o)' => beat'[c].at <= dmTime
    BY <1>1, <1>3, <1>5 DEF Awaits
  <2> HIDE DEF slipped
  <2> QED BY <1>1, <1>3, <1>5, <2>1, <2>2, <2>3 DEF Outlived
<1>12. Windows(o)' <= 1 \/ (slipped /\ Windows(o)' <= Windows(o) + 1)
  <2>1. CASE ~slipped
    BY <1>11, <2>1 DEF Windows, One
  <2>2. CASE slipped /\ Windows(o) # 0
    BY <1>10, <2>2
  <2>3. CASE Windows(o) = 0
    <3>1. ~Outlived(o)'
      BY <1>1, <1>3, <1>4, <1>5, <1>6, <1>9, <2>3 DEF Outlived
    <3> QED BY <3>1 DEF Windows, One
  <2> QED BY <2>1, <2>2, <2>3
<1>13. ~slipped => Windows(o)' = 1
  BY <1>3, <1>4, <1>11 DEF Windows, One
<1> HIDE DEF slipped
<1>14. ~slipped => Fired(o) + 1 <= MaxPerDay + slips[o] /\ (~beat[b].counts => budget[o].until > dmTime)
  BY <1>1, <1>2, <1>8 DEF OwnBudget, DecidedInTime
<1>15. BudgetRoom(o)'
  <2>1. BudgetRoom(o)
    BY <1>2 DEF OwnBudget
  <2>2. CASE slipped
    <3>1. slips'[o] = slips[o] + 1
      BY <1>4, <2>2 DEF One
    <3>2. Windows(o)' <= Windows(o) + 1
      BY <1>10, <1>12
    <3> QED BY <1>2, <1>3, <1>10, <2>1, <3>1, <3>2 DEF BudgetRoom
  <2>3. CASE ~slipped
    <3>1. slips'[o] = slips[o] /\ Windows(o)' = 1
      BY <1>3, <1>4, <1>13, <2>3 DEF One
    <3> QED BY <1>2, <1>14, <2>3, <3>1 DEF BudgetRoom
  <2> QED BY <2>2, <2>3
<1>16. BudgetCovers(o)'
  <2>1. BudgetCovers(o)
    BY <1>2 DEF OwnBudget
  <2>2. One(Uncommitted(o)) \in 0..1 /\ One(Uncommitted(o)') \in 0..1
        /\ One(Uncommitted(o)) <= One(Uncommitted(o)')
    BY <1>7 DEF One
  <2>3. CASE slipped
    <3>1. slips'[o] = slips[o] + 1
      BY <1>4, <2>3 DEF One
    <3>2. Windows(o)' <= Windows(o) + 1
      BY <1>10, <1>12
    <3> QED BY <1>2, <1>3, <1>10, <2>1, <2>2, <3>1, <3>2 DEF BudgetCovers
  <2>4. CASE ~slipped
    <3>1. slips'[o] = slips[o] /\ Windows(o)' = 1
      BY <1>3, <1>4, <1>13, <2>4 DEF One
    <3>2. CASE Windows(o) # 0
      BY <1>2, <1>3, <1>10, <2>1, <2>2, <3>1, <3>2 DEF BudgetCovers
    <3>3. CASE Windows(o) = 0
      <4>1. budget[o].until <= dmTime /\ ~Uncommitted(o)
        BY <1>9, <3>3 DEF Uncommitted
      <4>2. beat[b].counts
        BY <1>3, <1>14, <2>4, <4>1
      <4>3. dmFaults' = dmFaults /\ DmDay(beat[b].at) = Today
        BY <1>8, <2>4 DEF slipped, Today
      <4>4. Uncommitted(o)'
        BY <1>1, <1>2, <1>5, <4>2, <4>3 DEF Uncommitted, Awaits
      <4>5. One(Uncommitted(o)) = 0 /\ One(Uncommitted(o)') = 1
        BY <4>1, <4>4 DEF One
      <4> QED BY <1>2, <1>3, <2>1, <3>1, <3>3, <4>5 DEF BudgetCovers
    <3> QED BY <3>2, <3>3
  <2> QED BY <2>3, <2>4
<1>17. SlippedBack(o)'
  BY <1>3, <1>4, <1>11 DEF SlippedBack, One
<1>18. ASSUME NEW c \in Beat PROVE DecidedInTime(c, o)'
  <2>1. beat'[c].st = "sent" => beat[c].st = "sent"
    BY <1>5
  <2>2. DecidedInTime(c, o)
    BY <1>2 DEF OwnBudget
  <2>3. slips'[o] >= slips[o]
    BY <1>3, <1>4 DEF One
  <2> QED BY <1>1, <1>2, <1>3, <1>4, <1>5, <2>1, <2>2, <2>3 DEF DecidedInTime
<1>19. ASSUME NEW c \in Beat PROVE OldBeat(c, o)'
  <2> SUFFICES ASSUME o \in beat[c].todo, DmDay(beat[c].at) # Today
               PROVE  Fired(o) + One(armed'[o] # 0 /\ armed'[o] <= beat[c].at + ttl) <= slips'[o]
    BY <1>1, <1>2, <1>5 DEF OldBeat
  <2>1. Fired(o) <= slips[o]
    <3>1. OldBeat(c, o)
      BY <1>2 DEF OwnBudget
    <3> QED BY <1>3, <3>1 DEF OldBeat, One
  <2>2. CASE slipped
    BY <1>3, <1>4, <2>1, <2>2 DEF One
  <2>3. CASE ~slipped
    <3>1. beat[c].at < dmTime
      BY <1>3 DEF Today
    <3>2. armed'[o] > beat[c].at + ttl
      BY <1>3, <1>4, <1>8, <2>3, <3>1
    <3>3. slips'[o] = slips[o]
      BY <1>3, <1>4, <2>3 DEF One
    <3>4. One(armed'[o] # 0 /\ armed'[o] <= beat[c].at + ttl) = 0
      <4>1. ~(armed'[o] <= beat[c].at + ttl)
        BY <1>3, <1>4, <3>2
      <4> QED BY <4>1 DEF One
    <3> QED BY <1>3, <2>1, <3>3, <3>4
  <2> QED BY <2>2, <2>3
<1>20. ASSUME NEW c \in Beat PROVE OldArm(c, o)'
  <2> DEFINE q == IF DmDay(beat[c].at) # Today THEN Fired(o) + 1 ELSE 0
             back == armed'[o] # 0 /\ armed'[o] < beat[c].at + ttl
  <2> SUFFICES ASSUME Awaits(c, o)'
               PROVE  q + One(back) <= slips'[o]
    BY <1>1, <1>2, <1>5 DEF OldArm
  <2>1. q \in Nat /\ One(back) \in 0..1
    BY <1>3 DEF One
  <2>2. CASE c # b
    <3>1. OldArm(c, o) /\ Awaits(c, o)
      BY <1>2, <1>6, <2>2 DEF OwnBudget
    <3>2. q <= slips[o]
      BY <1>3, <2>1, <3>1 DEF OldArm, One
    <3>3. CASE slipped
      BY <1>3, <1>4, <2>1, <3>2, <3>3 DEF One
    <3>4. CASE ~slipped
      <4>1. o \in beat[c].todo
        BY <1>3, <3>1 DEF Awaits
      <4>2. ~back
        BY <1>3, <1>4, <1>8, <3>4, <4>1
      <4> HIDE DEF q, back
      <4> QED BY <1>3, <1>4, <2>1, <3>2, <3>4, <4>2 DEF One
    <3> QED BY <3>3, <3>4
  <2>3. CASE c = b
    <3>1. One(back) = 0
      BY <1>3, <1>4, <2>3 DEF One
    <3>2. CASE slipped
      <4>1. OldBeat(b, o) /\ o \in beat[b].todo
        BY <1>1, <1>2, <1>3 DEF OwnBudget
      <4>2. DmDay(beat[b].at) # Today => Fired(o) <= slips[o]
        BY <1>3, <4>1 DEF OldBeat, One
      <4>3. q <= slips[o] + 1
        BY <1>3, <2>3, <4>2
      <4>4. slips'[o] = slips[o] + 1
        BY <1>4, <3>2 DEF One
      <4> HIDE DEF q, back
      <4> QED BY <1>3, <2>1, <3>1, <4>3, <4>4
    <3>3. CASE ~slipped
      <4>1. q = 0
        BY <1>8, <2>3, <3>3 DEF Today
      <4> HIDE DEF q, back
      <4> QED BY <1>4, <3>1, <4>1
    <3> QED BY <3>2, <3>3
  <2> QED BY <2>2, <2>3
<1>21. \A d \in 0..DmDay(MaxTime) : /\ d > Today => triggers[o][d] = 0
                                    /\ triggers[o][d] <= MaxPerDay + slips'[o]
  <2> TAKE d \in 0..DmDay(MaxTime)
  <2>1. triggers[o][d] \in Nat
    BY <1>3
  <2>2. (d > Today => triggers[o][d] = 0) /\ triggers[o][d] <= MaxPerDay + slips[o]
    BY <1>2 DEF OwnBudget
  <2>3. slips[o] <= slips'[o]
    BY <1>3, <1>4 DEF One
  <2> QED BY <1>3, <1>4, <2>1, <2>2, <2>3
<1>22. budget'[o].until <= dmTime' + ttl' /\ budget'[o].day <= Today'
  BY <1>1, <1>2 DEF OwnBudget
<1> QED BY <1>1, <1>2, <1>15, <1>16, <1>17, <1>18, <1>19, <1>20, <1>21, <1>22 DEF OwnBudget

LEMMA RecordTypes ==
  ASSUME DmInv, BudgetInv, NEW o \in DmOwner, NEW b \in Beat, Awaits(b, o), BeatRecord(b, o)
  PROVE  slips' \in [DmOwner -> Nat] /\ budget' \in [DmOwner -> [day : Nat, count : Nat, until : Nat]]
<1> DEFINE n == (IF budget[o].day = DmDay(beat[b].at) THEN budget[o].count ELSE 0)
                  + (IF beat[b].counts THEN 1 ELSE 0)
<1>1. /\ budget' = [budget EXCEPT ![o] = nextBudget(budget[o], beat[b].at, beat[b].at + ttl, beat[b].counts)]
      /\ slips' = slips \/ slips' = Slip({o})
  BY DEF Awaits, BeatRecord
<1>2. /\ slips \in [DmOwner -> Nat] /\ budget \in [DmOwner -> [day : Nat, count : Nat, until : Nat]]
      /\ beat[b].at \in Nat /\ ttl \in Nat
  BY DEF BudgetInv, BudgetType, DmInv, DmBase, DmType, Heartbeat
<1>3. n \in Nat /\ DmDay(beat[b].at) \in Nat
  BY <1>2, DaysPass
<1>4. nextBudget(budget[o], beat[b].at, beat[b].at + ttl, beat[b].counts) =
        [day |-> DmDay(beat[b].at), until |-> beat[b].at + ttl, count |-> n]
  BY DEF nextBudget
<1> HIDE DEF n
<1>5. [day |-> DmDay(beat[b].at), until |-> beat[b].at + ttl, count |-> n] \in [day : Nat, count : Nat, until : Nat]
  BY <1>2, <1>3
<1> QED BY <1>1, <1>2, <1>4, <1>5 DEF Slip

\* The budget records an arm of o that was answered.
LEMMA RecordInBudget ==
  ASSUME DmInv, BudgetInv, NEW o \in DmOwner, ~overran[o], NEW b \in Beat,
         Awaits(b, o), BeatRecord(b, o)
  PROVE  OwnBudget(o)'
<1> DEFINE old == DmDay(beat[b].at) # Today
           n == (IF budget[o].day = DmDay(beat[b].at) THEN budget[o].count ELSE 0)
                  + (IF beat[b].counts THEN 1 ELSE 0)
<1>1. /\ beat[b].st = "armed" /\ beat[b].for = {o}
      /\ budget' = [budget EXCEPT ![o] = nextBudget(budget[o], beat[b].at, beat[b].at + ttl, beat[b].counts)]
      /\ slips' = IF old THEN Slip({o}) ELSE slips
      /\ Pass(b, o, TRUE)
      /\ UNCHANGED <<dmTime, ttl, armed, triggers>>
  BY DEF Awaits, BeatRecord, Today
<1>2. OwnBudget(o) /\ Today' = Today /\ Fired(o)' = Fired(o)
  BY <1>1 DEF BudgetInv, Today, Fired
<1>3. /\ MaxPerDay \in Nat /\ armed[o] \in Nat /\ slips[o] \in Nat /\ Fired(o) \in Nat
      /\ CountedToday(o) \in Nat /\ dmTime \in Nat /\ ttl \in Nat /\ Today \in Nat
      /\ budget[o] \in [day : Nat, count : Nat, until : Nat]
      /\ triggers[o] \in [0..DmDay(MaxTime) -> Nat]
      /\ \A c \in Beat : beat[c].at \in Nat
      /\ beat[b].at <= dmTime /\ dmTime < beat[b].at + ttl /\ DmDay(beat[b].at) <= Today
  <2>1. o \in beat[b].todo
    BY <1>1, BudgetFacts
  <2> QED BY <2>1, BudgetFacts
<1>4. DmDay(beat[b].at) \in Nat
  BY <1>3, DaysPass
<1>5. n \in Nat
  BY <1>3
<1>6. nextBudget(budget[o], beat[b].at, beat[b].at + ttl, beat[b].counts) =
        [day |-> DmDay(beat[b].at), until |-> beat[b].at + ttl, count |-> n]
  BY DEF nextBudget
<1> HIDE DEF n
<1>7. /\ budget' \in [DmOwner -> [day : Nat, count : Nat, until : Nat]]
      /\ budget'[o].day = DmDay(beat[b].at) /\ budget'[o].until = beat[b].at + ttl
      /\ budget'[o].count = n
  <2>1. budget \in [DmOwner -> [day : Nat, count : Nat, until : Nat]]
    BY DEF BudgetInv, BudgetType
  <2>2. [day |-> DmDay(beat[b].at), until |-> beat[b].at + ttl, count |-> n] \in [day : Nat, count : Nat, until : Nat]
    BY <1>3, <1>4, <1>5
  <2> QED BY <1>1, <1>6, <2>1, <2>2
<1>8. slips' \in [DmOwner -> Nat] /\ slips'[o] = slips[o] + One(old) /\ slips'[o] \in Nat
  <2>1. slips \in [DmOwner -> Nat]
    BY DEF BudgetInv, BudgetType
  <2> HIDE DEF old
  <2> QED BY <1>1, <2>1 DEF Slip, One
<1>9. /\ \A c \in Beat : c # b => beat'[c] = beat[c]
      /\ beat'[b].for = {} /\ beat'[b].st \in {"none", "next"}
      /\ o \in beat'[b].todo => o \in beat[b].todo /\ beat'[b].at = beat[b].at
  <2> DEFINE left == beat[b].todo \ {o}
             k == IF left = {} THEN NoBeat ELSE [NoBeat EXCEPT !.at = beat[b].at, !.todo = left, !.st = "next"]
  <2>1. beat \in [Beat -> Heartbeat] /\ beat' = [beat EXCEPT ![b] = k]
    BY <1>1 DEF Pass, DmInv, DmBase, DmType
  <2>2. k.for = {} /\ k.st \in {"none", "next"} /\ k.todo \subseteq beat[b].todo /\ (k.todo # {} => k.at = beat[b].at)
    BY DEF NoBeat
  <2> HIDE DEF k
  <2> QED BY <2>1, <2>2
<1>10. \A c \in Beat : Awaits(c, o)' => c # b /\ Awaits(c, o) /\ beat'[c] = beat[c]
  BY <1>9 DEF Awaits
<1>11. Outlived(o)' => Outlived(o)
  <2>1. beat[b].at + ttl > armed[o] => Outlived(o)
    BY DEF Outlived
  <2> QED BY <1>1, <1>3, <1>7, <1>10, <2>1 DEF Outlived
<1>12. Windows(o)' <= Windows(o) /\ Windows(o)' \in 0..2 /\ Windows(o) \in 0..2
  BY <1>1, <1>11 DEF Windows, One
<1>13. slips'[o] >= slips[o]
  BY <1>3, <1>8 DEF One
<1>14. BudgetRoom(o)'
  <2>1. BudgetRoom(o)
    BY <1>2 DEF OwnBudget
  <2> QED BY <1>2, <1>3, <1>8, <1>12, <1>13, <2>1 DEF BudgetRoom
<1>15. BudgetCovers(o)'
  <2>1. One(Uncommitted(o)) \in 0..1 /\ One(Uncommitted(o)') \in 0..1
    BY DEF One
  <2>2. CASE old
    <3>1. CountedToday(o)' = 0 /\ slips'[o] = slips[o] + 1
      BY <1>2, <1>7, <1>8, <2>2 DEF CountedToday, One
    <3>2. Fired(o) + 1 <= slips[o]
      <4>1. OldArm(b, o)
        BY <1>2 DEF OwnBudget
      <4> QED BY <1>3, <2>2, <4>1 DEF OldArm, One
    <3> QED BY <1>2, <1>3, <1>12, <2>1, <3>1, <3>2 DEF BudgetCovers
  <2>3. CASE ~old
    <3>1. CountedToday(o)' = CountedToday(o) + One(beat[b].counts) /\ slips'[o] = slips[o]
      BY <1>2, <1>3, <1>7, <1>8, <2>3 DEF CountedToday, One, n
    <3>2. Uncommitted(o) => Uncommitted(o)' \/ beat[b].counts
      BY <1>2, <1>9 DEF Uncommitted, Awaits
    <3>3. One(Uncommitted(o)) <= One(Uncommitted(o)') + One(beat[b].counts) /\ One(beat[b].counts) \in 0..1
      BY <3>2 DEF One
    <3>4. BudgetCovers(o)
      BY <1>2 DEF OwnBudget
    <3> HIDE DEF One, old
    <3>5. Fired(o) + Windows(o) <= CountedToday(o) + One(Uncommitted(o)) + slips[o]
      BY <3>4 DEF BudgetCovers
    <3>6. Fired(o) + Windows(o)' <= CountedToday(o) + One(beat[b].counts) + One(Uncommitted(o)') + slips[o]
      <4>1. Windows(o)' <= Windows(o) /\ One(Uncommitted(o)) <= One(Uncommitted(o)') + One(beat[b].counts)
        BY <1>12, <3>3
      <4>2. /\ {Fired(o), CountedToday(o), slips[o]} \subseteq Nat
            /\ {Windows(o), Windows(o)', One(Uncommitted(o)), One(Uncommitted(o)'), One(beat[b].counts)} \subseteq Nat
        BY <1>3, <1>12, <2>1, <3>3
      <4> QED BY <3>5, <4>1, <4>2
    <3> QED BY <1>2, <3>1, <3>6 DEF BudgetCovers
  <2> QED BY <2>2, <2>3
<1>16. SlippedBack(o)'
  BY <1>1, <1>2, <1>3, <1>8, <1>11, <1>13 DEF OwnBudget, SlippedBack
<1>17. ASSUME NEW c \in Beat PROVE DecidedInTime(c, o)'
  <2>1. CASE c = b
    BY <1>9, <2>1 DEF DecidedInTime
  <2>2. CASE c # b
    <3>1. DecidedInTime(c, o) /\ beat'[c] = beat[c]
      BY <1>2, <1>9, <2>2 DEF OwnBudget
    <3>2. budget'[o].until > dmTime
      BY <1>3, <1>7
    <3> QED BY <1>1, <1>2, <1>3, <1>8, <1>13, <3>1, <3>2 DEF DecidedInTime
  <2> QED BY <2>1, <2>2
<1>18. ASSUME NEW c \in Beat PROVE OldBeat(c, o)'
  <2>1. OldBeat(c, o) /\ (o \in beat'[c].todo => o \in beat[c].todo /\ beat'[c].at = beat[c].at)
    BY <1>2, <1>9 DEF OwnBudget
  <2> DEFINE x == One(armed[o] # 0 /\ armed[o] <= beat[c].at + ttl)
  <2>2. x \in 0..1
    BY DEF One
  <2>3. o \in beat[c].todo /\ DmDay(beat[c].at) # Today => Fired(o) + x <= slips[o]
    BY <2>1 DEF OldBeat
  <2> SUFFICES ASSUME o \in beat'[c].todo, DmDay(beat'[c].at) # Today
               PROVE  Fired(o) + One(armed'[o] # 0 /\ armed'[o] <= beat'[c].at + ttl) <= slips'[o]
    BY <1>1, <1>2 DEF OldBeat
  <2>4. One(armed'[o] # 0 /\ armed'[o] <= beat'[c].at + ttl) = x
    BY <1>1, <2>1
  <2> HIDE DEF x
  <2> QED BY <1>3, <1>8, <1>13, <2>1, <2>2, <2>3, <2>4
<1>19. ASSUME NEW c \in Beat PROVE OldArm(c, o)'
  <2>1. OldArm(c, o)
    BY <1>2 DEF OwnBudget
  <2> DEFINE x == (IF DmDay(beat[c].at) # Today THEN Fired(o) + 1 ELSE 0)
                    + One(armed[o] # 0 /\ armed[o] < beat[c].at + ttl)
  <2>2. x \in Nat
    BY <1>3 DEF One
  <2>3. Awaits(c, o) => x <= slips[o]
    BY <2>1 DEF OldArm
  <2> SUFFICES ASSUME Awaits(c, o)'
               PROVE  (IF DmDay(beat'[c].at) # Today THEN Fired(o) + 1 ELSE 0)
                        + One(armed'[o] # 0 /\ armed'[o] < beat'[c].at + ttl) <= slips'[o]
    BY <1>1, <1>2 DEF OldArm
  <2>4. beat'[c] = beat[c] /\ armed' = armed /\ x <= slips[o]
    BY <1>1, <1>10, <2>3
  <2>5. x <= slips'[o]
    <3> HIDE DEF x
    <3> QED BY <1>3, <1>8, <1>13, <2>2, <2>4
  <2> QED BY <2>4, <2>5
<1>20. \A d \in 0..DmDay(MaxTime) : /\ d > Today => triggers[o][d] = 0
                                    /\ triggers[o][d] <= MaxPerDay + slips'[o]
  <2> TAKE d \in 0..DmDay(MaxTime)
  <2>1. triggers[o][d] \in Nat
    BY <1>3
  <2>2. (d > Today => triggers[o][d] = 0) /\ triggers[o][d] <= MaxPerDay + slips[o]
    BY <1>2 DEF OwnBudget
  <2> QED BY <1>3, <1>8, <1>13, <2>1, <2>2
<1>21. budget'[o].until <= dmTime' + ttl' /\ budget'[o].day <= Today'
  BY <1>1, <1>2, <1>3, <1>7
<1>22. OwnBudget(o)'
  BY <1>1, <1>14, <1>15, <1>16, <1>17, <1>18, <1>19, <1>20, <1>21, <1>2 DEF OwnBudget
<1> QED BY <1>7, <1>8, <1>22

\* An interval passes.
LEMMA IntervalInBudget ==
  ASSUME DmInv, BudgetInv, NEW o \in DmOwner, ~overran'[o], IntervalPasses
  PROVE  OwnBudget(o)'
<1> DEFINE next == DmDay(dmTime + 1)
           fires == armed[o] # 0 /\ armed[o] <= dmTime + 1
<1>1. /\ dmTime' = dmTime + 1 /\ dmTime < MaxTime
      /\ UNCHANGED <<ttl, budget>>
  BY DEF IntervalPasses
<1>0. ~overran[o] /\ \A c \in Beat : o \in beat[c].todo => ~(beat[c].at + ttl <= dmTime + 1)
  BY DEF IntervalPasses
<1>2. OwnBudget(o) /\ Today' = next
  BY <1>0, <1>1 DEF BudgetInv, Today
<1>3. /\ MaxPerDay \in Nat
      /\ armed[o] \in Nat /\ slips[o] \in Nat /\ Fired(o) \in Nat
      /\ CountedToday(o) \in Nat /\ dmTime \in Nat /\ ttl \in Nat /\ Today \in Nat
      /\ budget[o] \in [day : Nat, count : Nat, until : Nat]
      /\ triggers[o] \in [0..DmDay(MaxTime) -> Nat]
      /\ \A c \in Beat : beat[c].at \in Nat
      /\ \A c \in Beat : o \in beat[c].todo => beat[c].at <= dmTime /\ DmDay(beat[c].at) <= Today
      /\ \A c \in Beat : o \in beat[c].for => o \in beat[c].todo
      /\ \A c \in Beat : Awaits(c, o) => beat[c].for = {o}
  BY <1>0, BudgetFacts
<1>4. next \in Nat /\ Today <= next /\ next \in 0..DmDay(MaxTime)
  <2>1. MaxTime \in Nat /\ dmTime + 1 \in Nat /\ dmTime + 1 <= MaxTime
    BY <1>1, <1>3, DeadManAssumption
  <2>2. DmDay(dmTime) \in Nat /\ DmDay(dmTime) <= next /\ next \in Nat
    <3>1. dmTime <= dmTime + 1
      BY <1>3
    <3> QED BY <1>3, <2>1, <3>1, DaysPass
  <2>3. DmDay(MaxTime) \in Nat /\ next <= DmDay(MaxTime)
    BY <2>1, DaysPass
  <2> QED BY <2>2, <2>3 DEF Today
<1>5. armed'[o] = IF fires THEN 0 ELSE armed[o]
  BY DEF IntervalPasses, Expires
<1>6. /\ \A d \in 0..DmDay(MaxTime) : d # next => triggers'[o][d] = triggers[o][d]
      /\ triggers'[o][next] = triggers[o][next] + One(fires)
  BY <1>3, <1>4 DEF IntervalPasses, Expires, One
<1>7. slips'[o] = slips[o] + One(next # Today /\ CarriedOver(o))
  <2>1. slips' = IF next = Today THEN slips ELSE Slip({q \in DmOwner : CarriedOver(q)})
    BY DEF IntervalPasses, Today
  <2> HIDE DEF next
  <2> QED BY <1>3, <2>1 DEF Slip, One
<1>8. ASSUME NEW c \in Beat
      PROVE  \/ beat'[c] = beat[c]
             \/ beat'[c].todo = {} /\ beat'[c].st = "none"
             \/ beat'[c].at = dmTime + 1 /\ beat'[c].st = "next" /\ beat'[c].for = {} 
  <2>1. beat \in [Beat -> Heartbeat]
    BY DEF DmInv, DmBase, DmType
  <2>2. CASE engine = "up" /\ deadManEnabled
    <3> DEFINE b == CHOOSE e \in Beat : beat[e] = NoBeat
               k == IF activeOwners = {} THEN NoBeat
                    ELSE [NoBeat EXCEPT !.at = dmTime + 1, !.todo = activeOwners, !.st = "next"]
    <3>1. beat' = [beat EXCEPT ![b] = k]
      BY <2>2 DEF IntervalPasses
    <3>2. \/ k.todo = {} /\ k.st = "none"
          \/ k.at = dmTime + 1 /\ k.st = "next" /\ k.for = {}
      BY DEF NoBeat
    <3> HIDE DEF b, k
    <3> QED BY <2>1, <3>1, <3>2
  <2>3. CASE ~(engine = "up" /\ deadManEnabled)
    BY <2>3 DEF IntervalPasses
  <2> QED BY <2>2, <2>3
<1>9. \A c \in Beat : Awaits(c, o)' => Awaits(c, o) /\ beat'[c] = beat[c]
  BY <1>8 DEF Awaits
<1>10. \A c \in Beat : o \in beat[c].todo => dmTime + 1 < beat[c].at + ttl
  BY <1>0, <1>3
<1>11. \A c \in Beat : Awaits(c, o) => o \in beat[c].todo /\ dmTime + 1 < beat[c].at + ttl /\ CarriedOver(o)
  BY <1>3, <1>10 DEF Awaits, CarriedOver
<1>12. Uncommitted(o) /\ next = Today => Uncommitted(o)'
  <2> HAVE Uncommitted(o) /\ next = Today
  <2>1. PICK c \in Beat : Awaits(c, o) /\ beat[c].counts /\ DmDay(beat[c].at) = Today
    BY DEF Uncommitted
  <2>2. beat'[c] = beat[c]
    <3>1. beat[c] # NoBeat
      BY <2>1 DEF Awaits, NoBeat
    <3>2. beat \in [Beat -> Heartbeat]
      BY DEF DmInv, DmBase, DmType
    <3>3. CASE engine = "up" /\ deadManEnabled
      <4> DEFINE b == CHOOSE e \in Beat : beat[e] = NoBeat
      <4>1. beat[b] = NoBeat /\ b # c
        BY <3>1, <3>3 DEF IntervalPasses
      <4> HIDE DEF b
      <4>2. \E k : beat' = [beat EXCEPT ![b] = k]
        BY <3>3 DEF IntervalPasses, b
      <4> QED BY <3>2, <4>1, <4>2
    <3>4. CASE ~(engine = "up" /\ deadManEnabled)
      BY <3>4 DEF IntervalPasses
    <3> QED BY <3>3, <3>4
  <2>3. Awaits(c, o)' /\ beat'[c].counts /\ DmDay(beat'[c].at) = Today'
    BY <1>2, <2>1, <2>2 DEF Awaits
  <2> QED BY <2>3 DEF Uncommitted
<1>13. Outlived(o)' => /\ Outlived(o)
                       /\ budget[o].until > dmTime + 1 \/ \E c \in Beat : Awaits(c, o)
  <2> HAVE Outlived(o)'
  <2>1. CASE budget[o].until > dmTime + 1 /\ budget[o].until > armed'[o]
    <3>1. budget[o].until > armed[o] /\ budget[o].until > dmTime
      BY <1>3, <1>5, <2>1
    <3> QED BY <2>1, <3>1 DEF Outlived
  <2>2. CASE \E c \in Beat : Awaits(c, o)' /\ beat'[c].at + ttl > armed'[o]
    <3>1. PICK c \in Beat : Awaits(c, o) /\ beat[c].at + ttl > armed'[o]
      BY <1>9, <2>2
    <3>2. beat[c].at + ttl > armed[o]
      BY <1>3, <1>5, <1>11, <3>1
    <3> QED BY <3>1, <3>2 DEF Outlived
  <2> QED BY <1>1, <2>1, <2>2 DEF Outlived
<1>14. One(fires) + Windows(o)' <= Windows(o)
  BY <1>5, <1>13 DEF Windows, One
<1>15. Windows(o) \in 0..2 /\ Windows(o)' \in 0..2 /\ One(fires) \in 0..1
  BY DEF Windows, One
<1> HIDE DEF next
<1>16. next # Today => One(fires) + Windows(o)' <= slips'[o]
  <2> HAVE next # Today
  <2>1. CASE One(fires) + Windows(o)' = 0
    BY <1>3, <1>7, <2>1 DEF One
  <2>2. CASE One(fires) + Windows(o)' # 0
    <3>1. CarriedOver(o)
      <4>1. armed[o] # 0 \/ Outlived(o)'
        BY <1>5, <2>2 DEF Windows, One
      <4> QED BY <1>11, <1>13, <4>1 DEF CarriedOver
    <3>2. slips'[o] = slips[o] + 1
      BY <1>7, <3>1 DEF One
    <3>3. Windows(o) = 2 => slips[o] >= 1
      <4>1. Windows(o) = 2 => armed[o] # 0 /\ Outlived(o)
        BY DEF Windows, One
      <4> QED BY <1>2, <4>1 DEF OwnBudget, SlippedBack
    <3> QED BY <1>3, <1>14, <1>15, <3>2, <3>3
  <2> QED BY <2>1, <2>2
<1>17. /\ next # Today => triggers[o][next] = 0
       /\ Fired(o)' = (IF next = Today THEN Fired(o) ELSE 0) + One(fires)
  <2>1. next # Today => triggers[o][next] = 0
    BY <1>2, <1>3, <1>4 DEF OwnBudget
  <2> QED BY <1>2, <1>6, <2>1 DEF Fired
<1>18. slips'[o] \in Nat /\ slips'[o] >= slips[o] /\ (next = Today => slips'[o] = slips[o])
  BY <1>3, <1>7 DEF One
<1>19. BudgetCovers(o)'
  <2>1. One(Uncommitted(o)) \in 0..1 /\ One(Uncommitted(o)') \in 0..1
        /\ (next = Today => One(Uncommitted(o)) <= One(Uncommitted(o)'))
    BY <1>12 DEF One
  <2>2. CountedToday(o)' \in Nat /\ (next = Today => CountedToday(o)' = CountedToday(o))
    BY <1>1, <1>2, <1>3 DEF CountedToday
  <2>3. BudgetCovers(o)
    BY <1>2 DEF OwnBudget
  <2>4. CASE next = Today
    BY <1>3, <1>14, <1>15, <1>17, <1>18, <2>1, <2>2, <2>3, <2>4 DEF BudgetCovers
  <2>5. CASE next # Today
    BY <1>3, <1>15, <1>16, <1>17, <1>18, <2>1, <2>2, <2>5 DEF BudgetCovers
  <2> QED BY <2>4, <2>5
<1>20. BudgetRoom(o)'
  <2>1. BudgetRoom(o)
    BY <1>2 DEF OwnBudget
  <2>2. CASE next = Today
    BY <1>3, <1>14, <1>15, <1>17, <1>18, <2>1, <2>2 DEF BudgetRoom
  <2>3. CASE next # Today
    <3>1. Fired(o)' = One(fires) /\ One(fires) + Windows(o)' <= slips'[o]
      BY <1>15, <1>16, <1>17, <2>3
    <3> QED BY <1>3, <1>15, <1>18, <3>1 DEF BudgetRoom
  <2> QED BY <2>2, <2>3
<1>21. SlippedBack(o)'
  <2> SUFFICES ASSUME armed'[o] # 0, Outlived(o)' PROVE slips'[o] >= 1
    BY DEF SlippedBack
  <2>1. armed[o] # 0 /\ Outlived(o)
    BY <1>5, <1>13
  <2> QED BY <1>2, <1>3, <1>18, <2>1 DEF OwnBudget, SlippedBack
<1>22. ASSUME NEW c \in Beat PROVE DecidedInTime(c, o)'
  <2>1. ~(beat'[c].st = "sent" /\ o \in beat'[c].for /\ beat'[c].at = dmTime + 1)
    BY <1>3, <1>8
  <2> QED BY <1>1, <2>1 DEF DecidedInTime
<1>23. ASSUME NEW c \in Beat PROVE OldBeat(c, o)'
  <2> DEFINE left == armed'[o] # 0 /\ armed'[o] <= beat[c].at + ttl
             was == armed[o] # 0 /\ armed[o] <= beat[c].at + ttl
  <2> SUFFICES ASSUME o \in beat'[c].todo, DmDay(beat'[c].at) # next
               PROVE  Fired(o)' + One(armed'[o] # 0 /\ armed'[o] <= beat'[c].at + ttl) <= slips'[o]
    BY <1>1, <1>2 DEF OldBeat
  <2>1. beat'[c] = beat[c]
    BY <1>8 DEF next
  <2>2. o \in beat[c].todo /\ dmTime + 1 < beat[c].at + ttl
    BY <1>10, <2>1
  <2>3. One(fires) + One(left) <= One(was) /\ One(left) \in 0..1 /\ One(was) \in 0..1
    BY <1>3, <1>5, <2>2 DEF One
  <2>4. CASE next = Today
    <3>1. Fired(o) + One(was) <= slips[o]
      <4>1. OldBeat(c, o)
        BY <1>2 DEF OwnBudget
      <4> QED BY <2>1, <2>2, <2>4, <4>1 DEF OldBeat
    <3> HIDE DEF left, was
    <3>2. Fired(o)' + One(left) <= slips'[o]
      BY <1>3, <1>15, <1>17, <1>18, <2>3, <2>4, <3>1
    <3> QED BY <2>1, <3>2 DEF left
  <2>5. CASE next # Today
    <3>1. One(was) <= slips'[o]
      BY <1>3, <1>7, <2>5 DEF One, CarriedOver
    <3> HIDE DEF left, was
    <3>2. Fired(o)' + One(left) <= slips'[o]
      BY <1>15, <1>17, <1>18, <2>3, <2>5, <3>1
    <3> QED BY <2>1, <3>2 DEF left
  <2> QED BY <2>4, <2>5
<1>24. ASSUME NEW c \in Beat PROVE OldArm(c, o)'
  <2> DEFINE back == armed'[o] # 0 /\ armed'[o] < beat[c].at + ttl
             was == armed[o] # 0 /\ armed[o] < beat[c].at + ttl
             q == IF DmDay(beat[c].at) # next THEN Fired(o)' + 1 ELSE 0
             p == IF DmDay(beat[c].at) # Today THEN Fired(o) + 1 ELSE 0
  <2> SUFFICES ASSUME Awaits(c, o)'
               PROVE  (IF DmDay(beat'[c].at) # next THEN Fired(o)' + 1 ELSE 0)
                        + One(armed'[o] # 0 /\ armed'[o] < beat'[c].at + ttl) <= slips'[o]
    BY <1>1, <1>2 DEF OldArm
  <2>1. beat'[c] = beat[c] /\ Awaits(c, o) /\ CarriedOver(o) /\ dmTime + 1 < beat[c].at + ttl
    BY <1>9, <1>11
  <2>2. One(fires) + One(back) <= One(was) /\ One(back) \in 0..1 /\ One(was) \in 0..1
    BY <1>3, <1>5, <2>1 DEF One
  <2>3. p + One(was) <= slips[o] /\ p \in Nat
    <3>1. OldArm(c, o)
      BY <1>2 DEF OwnBudget
    <3> QED BY <1>3, <2>1, <3>1 DEF OldArm
  <2>4. q + One(back) <= slips'[o]
    <3>1. CASE next = Today
      <4>1. q <= p + One(fires) /\ q \in Nat
        BY <1>3, <1>15, <1>17, <3>1
      <4> HIDE DEF back, was, q, p
      <4> QED BY <1>3, <1>15, <1>18, <2>2, <2>3, <3>1, <4>1
    <3>2. CASE next # Today
      <4>1. slips'[o] = slips[o] + 1
        BY <1>7, <2>1, <3>2 DEF One
      <4>2. q <= One(fires) + 1 /\ q \in Nat
        BY <1>15, <1>17, <3>2
      <4> HIDE DEF back, was, q, p
      <4> QED BY <1>3, <1>15, <2>2, <2>3, <4>1, <4>2
    <3> QED BY <3>1, <3>2
  <2> QED BY <2>1, <2>4
<1>25. \A d \in 0..DmDay(MaxTime) : /\ d > next => triggers'[o][d] = 0
                                    /\ triggers'[o][d] <= MaxPerDay + slips'[o]
  <2> TAKE d \in 0..DmDay(MaxTime)
  <2>1. CASE d = next
    <3>1. triggers'[o][d] = Fired(o)'
      BY <1>2, <2>1 DEF Fired
    <3>2. Fired(o)' \in Nat
      BY <1>3, <1>15, <1>17
    <3>3. Fired(o)' + Windows(o)' <= MaxPerDay + slips'[o]
      BY <1>20 DEF BudgetRoom
    <3>4. Fired(o)' <= MaxPerDay + slips'[o]
      BY <1>3, <1>15, <1>18, <3>2, <3>3
    <3> QED BY <1>4, <2>1, <3>1, <3>4
  <2>2. CASE d # next
    <3>1. triggers'[o][d] = triggers[o][d] /\ triggers[o][d] \in Nat
      BY <1>3, <1>6, <2>2
    <3>2. (d > Today => triggers[o][d] = 0) /\ triggers[o][d] <= MaxPerDay + slips[o]
      BY <1>2 DEF OwnBudget
    <3>3. triggers'[o][d] <= MaxPerDay + slips'[o]
      BY <1>3, <1>18, <3>1, <3>2
    <3>4. d > next => triggers'[o][d] = 0
      <4>1. d \in Nat
        OBVIOUS
      <4> QED BY <1>3, <1>4, <3>1, <3>2, <4>1
    <3> QED BY <3>3, <3>4
  <2> QED BY <2>1, <2>2
<1>26. budget'[o].until <= dmTime' + ttl' /\ budget'[o].day <= Today'
  <2>1. budget[o].until <= dmTime + ttl /\ budget[o].day <= Today
    BY <1>2 DEF OwnBudget
  <2> QED BY <1>1, <1>2, <1>3, <1>4, <2>1
<1>27. /\ \A d \in 0..DmDay(MaxTime) : /\ d > Today' => triggers'[o][d] = 0
                                      /\ triggers'[o][d] <= MaxPerDay + slips'[o]
       /\ \A c \in Beat : DecidedInTime(c, o)' /\ OldBeat(c, o)' /\ OldArm(c, o)'
  <2>1. Today' = next
    BY <1>2
  <2> QED BY <1>22, <1>23, <1>24, <1>25, <2>1
<1> QED BY <1>19, <1>20, <1>21, <1>26, <1>27 DEF OwnBudget

\* The steps of heartbeat b that leave owner q alone.
LEMMA BeatElsewhere ==
  ASSUME DmInv, BudgetInv, NEW q \in DmOwner, ~overran[q], NEW b \in Beat,
         NEW k \in Heartbeat, beat' = [beat EXCEPT ![b] = k],
         k.todo \subseteq beat[b].todo, k.todo # {} => k.at = beat[b].at,
         q \notin k.for, q \notin beat[b].for,
         UNCHANGED <<dmTime, ttl, triggers>>,
         budget'[q] = budget[q], armed'[q] = armed[q], slips'[q] = slips[q]
  PROVE  OwnBudget(q)'
<1>1. beat'[b] = k /\ \A c \in Beat : c # b => beat'[c] = beat[c]
  BY DEF DmInv, DmBase, DmType
<1>2. OwnBudget(q) /\ slips[q] \in Nat
  BY BudgetFacts DEF BudgetInv
<1>3. \A c \in Beat : /\ Awaits(c, q)' => Awaits(c, q) /\ beat'[c].at = beat[c].at
                      /\ q \in beat'[c].todo => q \in beat[c].todo /\ beat'[c].at = beat[c].at
                      /\ beat'[c].st = "sent" /\ q \in beat'[c].for /\ beat'[c].at = dmTime =>
                           /\ Fired(q) + 1 <= MaxPerDay + slips[q]
                           /\ ~beat'[c].counts => budget[q].until > dmTime
  BY <1>1, <1>2 DEF Awaits, OwnBudget, DecidedInTime
<1>4. Uncommitted(q) => Uncommitted(q)'
  BY <1>1 DEF Uncommitted, Awaits, Today
<1> QED BY <1>2, <1>3, <1>4, BudgetUntaken

\* A pass over o ends without an answer that the budget would record.
LEMMA PassInBudget ==
  ASSUME DmInv, BudgetInv, NEW o \in DmOwner, NEW b \in Beat, NEW ok,
         Pass(b, o, ok), ~Awaits(b, o), beat[b].for \subseteq {o},
         UNCHANGED <<dmTime, ttl, triggers, budget, armed, slips>>
  PROVE  \A q \in DmOwner : ~overran[q] => OwnBudget(q)'
<1> DEFINE left == beat[b].todo \ {o}
           k == IF left = {} THEN NoBeat ELSE [NoBeat EXCEPT !.at = beat[b].at, !.todo = left, !.st = "next"]
<1>1. beat' = [beat EXCEPT ![b] = k] /\ beat[b] \in Heartbeat
  BY DEF Pass, DmInv, DmBase, DmType
<1>2. k \in Heartbeat /\ k.for = {} /\ k.st \in {"none", "next"}
      /\ k.todo \subseteq beat[b].todo /\ (k.todo # {} => k.at = beat[b].at)
  BY <1>1, IdleHeartbeat DEF Heartbeat, NoBeat
<1> HIDE DEF k
<1> SUFFICES ASSUME NEW q \in DmOwner, ~overran[q] PROVE OwnBudget(q)'
  OBVIOUS
<1>3. CASE q # o
  <2>1. q \notin k.for /\ q \notin beat[b].for
    BY <1>2, <1>3
  <2> QED BY <1>1, <1>2, <2>1, BeatElsewhere
<1>4. CASE q = o
  <2>0. ~overran[o]
    BY <1>4
  <2>1. beat'[b] = k /\ \A c \in Beat : c # b => beat'[c] = beat[c]
    BY <1>1 DEF DmInv, DmBase, DmType
  <2>2. OwnBudget(o) /\ slips[o] \in Nat /\ armed'[o] = armed[o]
    BY <2>0, BudgetFacts DEF BudgetInv
  <2>3. \A c \in Beat : /\ Awaits(c, o)' => Awaits(c, o) /\ beat'[c].at = beat[c].at
                        /\ o \in beat'[c].todo => o \in beat[c].todo /\ beat'[c].at = beat[c].at
                        /\ beat'[c].st = "sent" /\ o \in beat'[c].for /\ beat'[c].at = dmTime =>
                             /\ Fired(o) + 1 <= MaxPerDay + slips[o]
                             /\ ~beat'[c].counts => budget[o].until > dmTime
    BY <1>2, <2>1, <2>2 DEF Awaits, OwnBudget, DecidedInTime
  <2>4. Uncommitted(o) => Uncommitted(o)'
    BY <2>1 DEF Uncommitted, Awaits, Today
  <2> QED BY <1>4, <2>0, <2>2, <2>3, <2>4, BudgetUntaken
<1> QED BY <1>3, <1>4

\* A decision in this interval has room for one more trigger.
LEMMA DecideInBudget ==
  ASSUME DmInv, BudgetInv, NEW o \in DmOwner, NEW b \in Beat, BeatDecide(b, o)
  PROVE  \A q \in DmOwner : ~overran[q] => OwnBudget(q)'
<1> DEFINE d == decideBudget(budget[o], beat[b].at)
           k == [beat[b] EXCEPT !.for = {o}, !.st = "sent", !.counts = (d = "counts")]
<1>1. /\ beat[b].st = "next" /\ o \in beat[b].todo
      /\ UNCHANGED <<dmTime, ttl, budget, armed, triggers, slips>>
      /\ beat \in [Beat -> Heartbeat] /\ beat[b] \in Heartbeat /\ beat[b].for = {}
  <2>1. beat \in [Beat -> Heartbeat] /\ BeatOK(b)
    BY DEF DmInv, DmBase, DmType
  <2> QED BY <2>1 DEF BeatDecide, BeatOK
<1>2. CASE d = "skip"
  <2>1. Pass(b, o, FALSE)
    BY <1>2 DEF BeatDecide
  <2> QED BY <1>1, <2>1, PassInBudget DEF Awaits
<1>3. CASE d # "skip"
  <2>1. beat' = [beat EXCEPT ![b] = k]
    BY <1>1, <1>3 DEF BeatDecide
  <2>2. k \in Heartbeat /\ k.for = {o} /\ k.st = "sent" /\ k.todo = beat[b].todo /\ k.at = beat[b].at
        /\ k.counts = (d = "counts")
    BY <1>1 DEF Heartbeat
  <2>3. beat'[b] = k /\ \A c \in Beat : c # b => beat'[c] = beat[c]
    BY <1>1, <2>1
  <2> HIDE DEF k
  <2>7. ASSUME NEW q \in DmOwner, q # o, ~overran[q] PROVE OwnBudget(q)'
    <3>1. q \notin k.for /\ q \notin beat[b].for
      BY <1>1, <2>2, <2>7
    <3> QED BY <1>1, <2>1, <2>2, <2>7, <3>1, BeatElsewhere
  <2>8. ASSUME ~overran[o] PROVE OwnBudget(o)'
    <3>4. /\ MaxPerDay \in Nat /\ armed[o] \in Nat /\ slips[o] \in Nat /\ Fired(o) \in Nat
          /\ dmTime \in Nat /\ budget[o] \in [day : Nat, count : Nat, until : Nat] /\ OwnBudget(o)
      BY <2>8, BudgetFacts DEF BudgetInv
    <3>5. Windows(o) \in 0..2 /\ (Windows(o) = 0 => ~Uncommitted(o) /\ budget[o].until <= dmTime)
      <4>1. Windows(o) \in 0..2
        BY DEF Windows, One
      <4> SUFFICES ASSUME Windows(o) = 0 PROVE ~Uncommitted(o) /\ budget[o].until <= dmTime
        BY <4>1
      <4>2. armed[o] = 0 /\ ~Outlived(o)
        BY DEF Windows, One
      <4>3. \A c \in Beat : Awaits(c, o) => beat[c].at + ttl > 0
        BY <2>8, BudgetFacts DEF Awaits
      <4> QED BY <3>4, <4>2, <4>3 DEF Outlived, Uncommitted
    <3>6. beat[b].at = dmTime =>
             /\ Fired(o) + 1 <= MaxPerDay + slips[o]
             /\ d # "counts" => budget[o].until > dmTime
      <4> SUFFICES ASSUME beat[b].at = dmTime
                   PROVE  /\ Fired(o) + 1 <= MaxPerDay + slips[o]
                          /\ d # "counts" => budget[o].until > dmTime
        OBVIOUS
      <4>1. d = IF budget[o].until > dmTime THEN "free"
                ELSE IF CountedToday(o) >= MaxPerDay THEN "skip" ELSE "counts"
        BY DEF decideBudget, CountedToday, Today
      <4>2. d # "counts" => budget[o].until > dmTime
        BY <1>3, <4>1
      <4>3. BudgetRoom(o) /\ BudgetCovers(o)
        BY <3>4 DEF OwnBudget
      <4>4. CASE Windows(o) # 0
        BY <3>4, <3>5, <4>2, <4>3, <4>4 DEF BudgetRoom
      <4>5. CASE Windows(o) = 0
        <5>1. ~(budget[o].until > dmTime) /\ ~Uncommitted(o)
          BY <3>4, <3>5, <4>5
        <5>2. ~(CountedToday(o) >= MaxPerDay) /\ CountedToday(o) \in Nat
          BY <1>3, <4>1, <2>8, <5>1, BudgetFacts
        <5>3. Fired(o) + 0 <= CountedToday(o) + 0 + slips[o]
          BY <4>3, <4>5, <5>1 DEF BudgetCovers, One
        <5> HIDE DEF d
        <5> QED BY <3>4, <4>2, <5>2, <5>3
      <4> QED BY <4>4, <4>5
    <3> HIDE DEF d
    <3>7. \A c \in Beat : /\ Awaits(c, o)' => Awaits(c, o) /\ beat'[c].at = beat[c].at
                          /\ o \in beat'[c].todo => o \in beat[c].todo /\ beat'[c].at = beat[c].at
                          /\ beat'[c].st = "sent" /\ o \in beat'[c].for /\ beat'[c].at = dmTime =>
                               /\ Fired(o) + 1 <= MaxPerDay + slips[o]
                               /\ ~beat'[c].counts => budget[o].until > dmTime
      <4> TAKE c \in Beat
      <4>1. CASE c = b
        BY <2>2, <2>3, <3>6, <4>1 DEF Awaits
      <4>2. CASE c # b
        BY <2>3, <3>4, <4>2 DEF Awaits, OwnBudget, DecidedInTime
      <4> QED BY <4>1, <4>2
    <3>8. Uncommitted(o) => Uncommitted(o)'
      BY <1>1, <2>3 DEF Uncommitted, Awaits, Today
    <3> QED BY <1>1, <3>4, <3>7, <3>8, <2>8, BudgetUntaken
  <2> QED BY <2>7, <2>8
<1> QED BY <1>2, <1>3

\* Every heartbeat is dropped: the answers that were on their way slip.
LEMMA DropInBudget ==
  ASSUME DmInv, BudgetInv, NEW o \in DmOwner, ~overran[o], Process,
         UNCHANGED <<dmTime, ttl, triggers, budget, armed>>,
         slips'[o] \in Nat, slips'[o] >= slips[o],
         \A b \in Beat : Awaits(b, o) => slips'[o] >= slips[o] + 1
  PROVE  OwnBudget(o)'
<1>1. \A b \in Beat : beat'[b].todo = {} /\ beat'[b].st = "none"
  BY DEF Process, NoBeat
<1>2. Uncommitted(o) => slips'[o] >= slips[o] + 1
  BY DEF Uncommitted
<1>3. armed'[o] \in {armed[o], 0} /\ budget'[o] = budget[o]
  OBVIOUS
<1> QED BY <1>1, <1>2, <1>3, BudgetUntaken DEF Awaits

LEMMA BudgetStarts == DmInit => BudgetInv
<1> SUFFICES ASSUME DmInit PROVE BudgetInv
  OBVIOUS
<1>1. /\ dmTime = 1 /\ ttl \in TtlChoices /\ engine = "down"
      /\ budget = [o \in DmOwner |-> NoBudget] /\ armed = [o \in DmOwner |-> 0]
      /\ slips = [o \in DmOwner |-> 0]
      /\ triggers = [o \in DmOwner |-> [d \in 0..DmDay(MaxTime) |-> 0]]
      /\ beat = [b \in Beat |-> NoBeat]
  BY DEF DmInit
<1>2. \A b \in Beat : beat[b].todo = {} /\ beat[b].st = "none"
  BY <1>1 DEF NoBeat
<1>3. MaxTime \in Nat \ {0} /\ MaxPerDay \in Nat /\ ttl \in Nat
  BY <1>1, DeadManAssumption
<1>4. NoBudget \in [day : Nat, count : Nat, until : Nat]
      /\ NoBudget.day = 0 /\ NoBudget.count = 0 /\ NoBudget.until = 0
  BY DEF NoBudget
<1>5. BudgetType
  BY <1>1, <1>2, <1>3, <1>4 DEF BudgetType
<1>6. Today \in 0..DmDay(MaxTime) /\ Today \in Nat
  BY <1>1, <1>3, DaysPass DEF Today
<1>7. ASSUME NEW o \in DmOwner PROVE OwnBudget(o)
  <2>1. /\ budget[o] = NoBudget /\ armed[o] = 0 /\ slips[o] = 0 /\ Fired(o) = 0
        /\ \A d \in 0..DmDay(MaxTime) : triggers[o][d] = 0
    BY <1>1, <1>6 DEF Fired
  <2>2. \A b \in Beat : ~Awaits(b, o)
    BY <1>2 DEF Awaits
  <2>3. Windows(o) = 0 /\ ~Uncommitted(o) /\ CountedToday(o) = 0
    BY <1>1, <1>4, <2>1, <2>2 DEF Windows, Outlived, One, Uncommitted, CountedToday
  <2>4. BudgetCovers(o) /\ BudgetRoom(o) /\ SlippedBack(o)
    BY <1>3, <2>1, <2>3 DEF BudgetCovers, BudgetRoom, SlippedBack, One
  <2>5. \A b \in Beat : DecidedInTime(b, o) /\ OldBeat(b, o) /\ OldArm(b, o)
    BY <1>2, <2>2 DEF DecidedInTime, OldBeat, OldArm
  <2>6. budget[o].until <= dmTime + ttl /\ budget[o].day <= Today
    BY <1>1, <1>3, <1>4, <1>6, <2>1
  <2> QED BY <1>3, <2>1, <2>4, <2>5, <2>6 DEF OwnBudget
<1>8. \A o \in DmOwner : Prompt(o)
  BY <1>2 DEF Prompt
<1> QED BY <1>5, <1>7, <1>8 DEF BudgetInv

LEMMA BudgetTypeKeeps ==
  ASSUME DmInv, BudgetInv, [DmNext]_dmVars,
         budget' \in [DmOwner -> [day : Nat, count : Nat, until : Nat]],
         slips' \in [DmOwner -> Nat]
  PROVE  BudgetType'
<1>1. BudgetType /\ dmTime \in Nat /\ MaxTime \in Nat
  BY DeadManAssumption DEF BudgetInv, DmInv, DmBase, DmType
<1>2. ttl' = ttl /\ (dmTime' = dmTime \/ IntervalPasses)
  BY DEF DmNext, dmVars, Start, Listen, Shutdown, Exit, IntervalPasses, deadManClearAll, Edit,
         BeatDecide, BeatArm, BeatFails, BeatRecord
<1>3. dmTime' <= MaxTime
  BY <1>1, <1>2 DEF BudgetType, IntervalPasses
<1>4. engine' = "down" => \A b \in Beat : beat'[b].todo = {}
  <2>1. CASE Exit
    BY <2>1 DEF Exit, Process, NoBeat
  <2>2. CASE IntervalPasses
    BY <1>1, <2>2 DEF IntervalPasses, BudgetType
  <2>3. ASSUME NEW b \in Beat, NEW o \in DmOwner,
               BeatDecide(b, o) \/ BeatArm(b, o) \/ BeatFails(b, o) \/ BeatRecord(b, o)
        PROVE  engine' # "down"
    <3>1. beat[b].todo # {} /\ engine' = engine
      <4>1. BeatOK(b)
        BY DEF DmInv, DmBase
      <4> QED BY <2>3, <4>1 DEF BeatDecide, BeatArm, BeatFails, BeatRecord, BeatOK
    <3> QED BY <1>1, <3>1 DEF BudgetType
  <2>4. CASE Start \/ Listen \/ Shutdown
    BY <2>4 DEF Start, Listen, Shutdown
  <2>5. ASSUME NEW o \in DmOwner, deadManClearAll(o) \/ \E w \in {"deadMan", "plain", "none"} : Edit(o, w)
        PROVE  UNCHANGED <<engine, beat>>
    BY <2>5 DEF deadManClearAll, Edit
  <2>6. CASE UNCHANGED dmVars
    BY <1>1, <2>6 DEF dmVars, BudgetType
  <2> QED BY <1>1, <2>1, <2>2, <2>3, <2>4, <2>5, <2>6 DEF DmNext, BudgetType
<1> QED BY <1>1, <1>2, <1>3, <1>4 DEF BudgetType

\* But for the intervals, heartbeats only get done.
LEMMA BeatsOnlyShrink ==
  ASSUME DmInv, [DmNext]_dmVars, ~IntervalPasses, NEW b \in Beat, NEW o \in beat'[b].todo
  PROVE  o \in beat[b].todo /\ beat'[b].at = beat[b].at
<1>1. beat \in [Beat -> Heartbeat] /\ beat[b] \in Heartbeat
  BY DEF DmInv, DmBase, DmType
<1>2. CASE Exit \/ Start
  <2>1. beat'[b] = NoBeat
    BY <1>2 DEF Exit, Start, Process
  <2> QED BY <2>1 DEF NoBeat
<1>3. ASSUME NEW c \in Beat, NEW q \in DmOwner, NEW ok, Pass(c, q, ok)
      PROVE  o \in beat[b].todo /\ beat'[b].at = beat[b].at
  <2> DEFINE left == beat[c].todo \ {q}
             k == IF left = {} THEN NoBeat ELSE [NoBeat EXCEPT !.at = beat[c].at, !.todo = left, !.st = "next"]
  <2>1. beat' = [beat EXCEPT ![c] = k]
    BY <1>3 DEF Pass
  <2>2. k.todo = left /\ (k.todo # {} => k.at = beat[c].at)
    BY DEF NoBeat
  <2> HIDE DEF k
  <2> QED BY <1>1, <2>1, <2>2
<1>4. ASSUME NEW c \in Beat, NEW q \in DmOwner,
             BeatDecide(c, q) \/ BeatArm(c, q) \/ BeatFails(c, q) \/ BeatRecord(c, q)
      PROVE  o \in beat[b].todo /\ beat'[b].at = beat[b].at
  <2>1. CASE BeatDecide(c, q)
    <3>1. CASE beat' = [beat EXCEPT ![c].for = {q}, ![c].st = "sent",
                             ![c].counts = decideBudget(budget[q], beat[c].at) = "counts"]
      BY <1>1, <3>1 DEF Heartbeat
    <3> QED BY <1>3, <2>1, <3>1 DEF BeatDecide
  <2>2. CASE BeatArm(c, q)
    <3>1. beat' = [beat EXCEPT ![c].st = IF dmFaults' # dmFaults THEN "failed" ELSE "armed"]
      BY <2>2 DEF BeatArm
    <3> QED BY <1>1, <3>1 DEF Heartbeat
  <2>3. CASE BeatFails(c, q) \/ BeatRecord(c, q)
    BY <1>3, <2>3 DEF BeatFails, BeatRecord
  <2> QED BY <1>4, <2>1, <2>2, <2>3
<1>5. CASE beat' = beat
  BY <1>5
<1> QED BY <1>2, <1>4, <1>5 DEF DmNext, dmVars, Listen, Shutdown, deadManClearAll, Edit

LEMMA IntervalPrompt ==
  ASSUME DmInv, IntervalPasses, NEW o \in DmOwner,
         \A c \in Beat : o \in beat[c].todo => ~(beat[c].at + ttl <= dmTime + 1)
  PROVE  Prompt(o)'
<1>1. /\ beat \in [Beat -> Heartbeat] /\ \A b \in Beat : BeatOK(b)
      /\ dmTime \in Nat /\ ttl \in Nat /\ dmTime' = dmTime + 1 /\ ttl' = ttl
  BY DEF DmInv, DmBase, DmType, IntervalPasses
<1>2. \A c \in Beat : beat[c].at \in Nat
  BY <1>1 DEF Heartbeat
<1> SUFFICES ASSUME NEW c \in Beat, o \in beat'[c].todo PROVE dmTime' < beat'[c].at + ttl
  BY <1>1 DEF Prompt
<1>3. CASE beat'[c] = beat[c]
  BY <1>1, <1>2, <1>3
<1>4. CASE beat'[c] # beat[c]
  <2> DEFINE b == CHOOSE e \in Beat : beat[e] = NoBeat
             k == IF activeOwners = {} THEN NoBeat
                  ELSE [NoBeat EXCEPT !.at = dmTime + 1, !.todo = activeOwners, !.st = "next"]
  <2>1. engine = "up" /\ deadManEnabled /\ beat' = [beat EXCEPT ![b] = k]
    BY <1>4 DEF IntervalPasses
  <2>2. activeOwners # {} => ttl >= 3
    BY <2>1 DEF deadManEnabled
  <2>3. k.todo = {} \/ (k.at = dmTime + 1 /\ ttl >= 3)
    BY <2>2 DEF NoBeat
  <2> HIDE DEF b, k
  <2> QED BY <1>1, <1>4, <2>1, <2>3
<1> QED BY <1>3, <1>4

\* Whom no heartbeat has overrun in the state reached, the heartbeats are still in time for.
LEMMA PromptKeeps ==
  ASSUME DmInv, BudgetInv, [DmNext]_dmVars, NEW o \in DmOwner, ~overran'[o]
  PROVE  Prompt(o)'
<1>1. /\ beat \in [Beat -> Heartbeat] /\ \A b \in Beat : BeatOK(b)
      /\ dmTime \in Nat /\ ttl \in Nat
  BY DEF DmInv, DmBase, DmType
<1>2. CASE IntervalPasses
  <2>1. ~overran[o] /\ \A c \in Beat : o \in beat[c].todo => ~(beat[c].at + ttl <= dmTime + 1)
    BY <1>2 DEF IntervalPasses
  <2> QED BY <1>1, <1>2, <2>1, IntervalPrompt
<1>3. CASE ~IntervalPasses
  <2>1. overran' = overran /\ dmTime' = dmTime /\ ttl' = ttl
    BY <1>3 DEF DmNext, dmVars, Start, Listen, Shutdown, Exit, deadManClearAll, Edit,
                BeatDecide, BeatArm, BeatFails, BeatRecord
  <2>2. \A b \in Beat : o \in beat'[b].todo => o \in beat[b].todo /\ beat'[b].at = beat[b].at
    BY <1>1, <1>3, BeatsOnlyShrink
  <2> QED BY <2>1, <2>2 DEF BudgetInv, Prompt
<1> QED BY <1>2, <1>3

LEMMA BudgetStep ==
  ASSUME DmInv, BudgetInv, [DmNext]_dmVars
  PROVE  BudgetInv'
<1> DEFINE Safe == /\ budget' \in [DmOwner -> [day : Nat, count : Nat, until : Nat]]
                   /\ slips' \in [DmOwner -> Nat]
                   /\ \A o \in DmOwner : ~overran'[o] => OwnBudget(o)'
<1>1. /\ budget \in [DmOwner -> [day : Nat, count : Nat, until : Nat]] /\ slips \in [DmOwner -> Nat]
      /\ \A o \in DmOwner : ~overran[o] => OwnBudget(o)
      /\ beat \in [Beat -> Heartbeat] /\ \A b \in Beat : BeatOK(b)
      /\ armed \in [DmOwner -> Nat]
  BY DEF BudgetInv, BudgetType, DmInv, DmBase, DmType
<1>2. ASSUME UNCHANGED <<dmTime, ttl, triggers, budget, beat, slips, overran>>,
             \A q \in DmOwner : armed'[q] \in {armed[q], 0}
      PROVE  Safe
  <2>1. ASSUME NEW q \in DmOwner, ~overran[q] PROVE OwnBudget(q)'
    <3>1. \A b \in Beat : /\ Awaits(b, q)' => Awaits(b, q) /\ beat'[b].at = beat[b].at
                          /\ q \in beat'[b].todo => q \in beat[b].todo /\ beat'[b].at = beat[b].at
                          /\ beat'[b].st = "sent" /\ q \in beat'[b].for /\ beat'[b].at = dmTime =>
                               /\ Fired(q) + 1 <= MaxPerDay + slips[q]
                               /\ ~beat'[b].counts => budget[q].until > dmTime
      BY <1>1, <1>2, <2>1 DEF Awaits, OwnBudget, DecidedInTime
    <3>2. Uncommitted(q) => Uncommitted(q)'
      BY <1>2 DEF Uncommitted, Awaits, Today
    <3>3. slips'[q] = slips[q] /\ slips[q] \in Nat /\ budget'[q] = budget[q]
      BY <1>1, <1>2
    <3> QED BY <1>2, <2>1, <3>1, <3>2, <3>3, BudgetUntaken
  <2> QED BY <1>1, <1>2, <2>1
<1>3. ASSUME Listen \/ Shutdown \/ UNCHANGED dmVars PROVE Safe
  <2>1. UNCHANGED <<dmTime, ttl, triggers, budget, beat, slips, armed, overran>>
    BY <1>3 DEF Listen, Shutdown, dmVars
  <2>2. \A q \in DmOwner : armed'[q] \in {armed[q], 0}
    BY <2>1
  <2> HIDE DEF Safe
  <2> QED BY <1>2, <2>1, <2>2
<1>4. ASSUME NEW o \in DmOwner, deadManClearAll(o) \/ \E w \in {"deadMan", "plain", "none"} : Edit(o, w)
      PROVE  Safe
  <2>1. armed' = armed \/ armed' = [armed EXCEPT ![o] = 0]
    BY <1>4 DEF deadManClearAll, Edit
  <2>2. \A q \in DmOwner : armed'[q] \in {armed[q], 0}
    BY <1>1, <2>1
  <2>3. UNCHANGED <<dmTime, ttl, triggers, budget, beat, slips, overran>>
    BY <1>4 DEF deadManClearAll, Edit
  <2> QED BY <1>2, <2>2, <2>3
<1>5. ASSUME Start PROVE Safe
  <2>1. \A b \in Beat, q \in DmOwner : ~Awaits(b, q)
    <3>1. \A b \in Beat : beat[b].todo = {}
      BY <1>5 DEF Start, BudgetInv, BudgetType
    <3> QED BY <1>1, <3>1 DEF Awaits, BeatOK
  <2>2. Process /\ UNCHANGED <<dmTime, ttl, triggers, budget, armed, slips, overran>>
    BY <1>5 DEF Start
  <2>3. ASSUME NEW q \in DmOwner, ~overran[q] PROVE OwnBudget(q)'
    <3>1. slips'[q] \in Nat /\ slips'[q] >= slips[q]
      BY <1>1, <2>2
    <3> QED BY <2>1, <2>2, <2>3, <3>1, DropInBudget
  <2> QED BY <1>1, <2>2, <2>3
<1>6. ASSUME Exit PROVE Safe
  <2>1. Process /\ UNCHANGED <<dmTime, ttl, triggers, budget, armed, overran>> /\ slips' = Slip(UNION Unrecorded)
    BY <1>6 DEF Exit
  <2>2. slips' \in [DmOwner -> Nat] /\ \A q \in DmOwner : slips'[q] >= slips[q]
    BY <1>1, <2>1 DEF Slip
  <2>3. \A q \in DmOwner, b \in Beat : Awaits(b, q) => slips'[q] >= slips[q] + 1
    <3>1. \A q \in DmOwner, b \in Beat : Awaits(b, q) => q \in UNION Unrecorded
      BY DEF Awaits, Unrecorded
    <3> HIDE DEF Unrecorded
    <3> QED BY <1>1, <2>1, <3>1 DEF Slip
  <2>4. ASSUME NEW q \in DmOwner, ~overran[q] PROVE OwnBudget(q)'
    <3>1. slips'[q] \in Nat /\ slips'[q] >= slips[q]
      BY <2>2
    <3>2. \A b \in Beat : Awaits(b, q) => slips'[q] >= slips[q] + 1
      BY <2>3
    <3>3. UNCHANGED <<dmTime, ttl, triggers, budget, armed>> /\ Process
      BY <2>1
    <3> HIDE DEF Process
    <3> QED BY <2>4, <3>1, <3>2, <3>3, DropInBudget
  <2> QED BY <1>1, <2>1, <2>2, <2>4
<1>7. ASSUME IntervalPasses PROVE Safe
  <2>1. budget' = budget /\ slips' \in [DmOwner -> Nat]
    <3>1. budget' = budget /\ (slips' = slips \/ \E owners : slips' = Slip(owners))
      BY <1>7 DEF IntervalPasses
    <3> QED BY <1>1, <3>1 DEF Slip
  <2> QED BY <1>1, <1>7, <2>1, IntervalInBudget
<1>8. ASSUME NEW b \in Beat, NEW o \in DmOwner, BeatDecide(b, o) PROVE Safe
  <2>1. UNCHANGED <<budget, slips, overran>>
    BY <1>8 DEF BeatDecide
  <2> QED BY <1>1, <1>8, <2>1, DecideInBudget
<1>9. ASSUME NEW b \in Beat, NEW o \in DmOwner, BeatFails(b, o) PROVE Safe
  <2>1. /\ Pass(b, o, FALSE) /\ ~Awaits(b, o) /\ beat[b].for \subseteq {o}
        /\ UNCHANGED <<dmTime, ttl, triggers, budget, armed, slips, overran>>
    BY <1>9 DEF BeatFails, Awaits
  <2> QED BY <1>1, <2>1, PassInBudget
<1>10. ASSUME NEW b \in Beat, NEW o \in DmOwner, BeatArm(b, o) PROVE Safe
  <2> DEFINE k == [beat[b] EXCEPT !.st = IF dmFaults' # dmFaults THEN "failed" ELSE "armed"]
  <2>1. /\ beat[b].for = {o} /\ UNCHANGED <<dmTime, ttl, triggers, budget, overran>>
        /\ beat' = [beat EXCEPT ![b].st = IF dmFaults' # dmFaults THEN "failed" ELSE "armed"]
        /\ armed' = [armed EXCEPT ![o] = beat[b].at + ttl]
        /\ slips' = Slip({o}) \/ slips' = slips
    BY <1>10 DEF BeatArm
  <2>2. k \in Heartbeat /\ k.for = {o} /\ k.todo = beat[b].todo /\ k.at = beat[b].at
    BY <1>1, <2>1 DEF Heartbeat
  <2>3. beat' = [beat EXCEPT ![b] = k]
    BY <1>1, <2>1
  <2>4. slips' \in [DmOwner -> Nat] /\ \A q \in DmOwner : q # o => slips'[q] = slips[q] /\ armed'[q] = armed[q]
    BY <1>1, <2>1 DEF Slip
  <2> HIDE DEF k
  <2>5. ASSUME NEW q \in DmOwner, q # o, ~overran[q] PROVE OwnBudget(q)'
    <3>1. q \notin k.for /\ q \notin beat[b].for
      BY <2>1, <2>2, <2>5
    <3> QED BY <2>1, <2>2, <2>3, <2>4, <2>5, <3>1, BeatElsewhere
  <2> QED BY <1>1, <1>10, <2>1, <2>4, <2>5, ArmInBudget
<1>11. ASSUME NEW b \in Beat, NEW o \in DmOwner, BeatRecord(b, o) PROVE Safe
  <2>1. CASE beat[b].st = "failed"
    <3>1. /\ Pass(b, o, FALSE) /\ ~Awaits(b, o) /\ beat[b].for \subseteq {o}
          /\ UNCHANGED <<dmTime, ttl, triggers, budget, armed, slips, overran>>
      BY <1>11, <2>1 DEF BeatRecord, Awaits
    <3> QED BY <1>1, <3>1, PassInBudget
  <2>2. CASE beat[b].st = "armed"
    <3>1. Awaits(b, o) /\ beat[b].for = {o} /\ Pass(b, o, TRUE) /\ UNCHANGED <<dmTime, ttl, triggers, armed, overran>>
      BY <1>11, <2>2 DEF BeatRecord, Awaits
    <3>2. /\ ~overran[o] => OwnBudget(o)'
          /\ slips' \in [DmOwner -> Nat]
          /\ budget' \in [DmOwner -> [day : Nat, count : Nat, until : Nat]]
      BY <1>11, <3>1, RecordInBudget, RecordTypes
    <3>3. \A q \in DmOwner : q # o => budget'[q] = budget[q] /\ slips'[q] = slips[q]
      BY <1>1, <1>11, <2>2 DEF BeatRecord, Slip
    <3> DEFINE left == beat[b].todo \ {o}
               k == IF left = {} THEN NoBeat ELSE [NoBeat EXCEPT !.at = beat[b].at, !.todo = left, !.st = "next"]
    <3>4. beat' = [beat EXCEPT ![b] = k]
      BY <3>1 DEF Pass
    <3>5. k \in Heartbeat /\ k.for = {} /\ k.todo \subseteq beat[b].todo /\ (k.todo # {} => k.at = beat[b].at)
      BY <1>1, IdleHeartbeat DEF Heartbeat, NoBeat
    <3> HIDE DEF k
    <3>6. ASSUME NEW q \in DmOwner, q # o, ~overran[q] PROVE OwnBudget(q)'
      <4>1. q \notin k.for /\ q \notin beat[b].for
        BY <3>1, <3>5, <3>6
      <4>2. UNCHANGED <<dmTime, ttl, triggers>> /\ armed'[q] = armed[q]
        BY <3>1
      <4>3. budget'[q] = budget[q] /\ slips'[q] = slips[q]
        BY <3>3, <3>6
      <4> QED BY <3>4, <3>5, <3>6, <4>1, <4>2, <4>3, BeatElsewhere
    <3> QED BY <3>1, <3>2, <3>6
  <2> QED BY <1>11, <2>1, <2>2 DEF BeatRecord
<1>12. Safe
  <2> HIDE DEF Safe
  <2> QED BY <1>3, <1>4, <1>5, <1>6, <1>7, <1>8, <1>9, <1>10, <1>11 DEF DmNext
<1> HIDE DEF Safe
<1>13. BudgetType'
  BY <1>12, BudgetTypeKeeps DEF Safe
<1> QED BY <1>12, <1>13, PromptKeeps DEF BudgetInv, Safe

(* The triggers of a day stay within the budget but for the slips, for an   *)
(* owner with whom every heartbeat was done before its TTL ran out: nothing *)
(* else gives its arms more than the day's share, whatever restarts,        *)
(* clears, failures and overlapping heartbeats come between them.           *)
THEOREM TriggersStayInBudget ==
  DmSpec => []TriggersWithinBudget
<1>1. DmInv /\ BudgetInv => TriggersWithinBudget
  <2> SUFFICES ASSUME DmInv, BudgetInv, NEW o \in DmOwner, ~overran[o], NEW d \in DOMAIN triggers[o]
               PROVE  triggers[o][d] <= MaxPerDay + slips[o]
    BY DEF TriggersWithinBudget
  <2>1. DOMAIN triggers[o] = 0..DmDay(MaxTime)
    BY DEF DmInv, DmBase, DmType
  <2> QED BY <2>1 DEF BudgetInv, OwnBudget
<1>2. DmInit => DmInv /\ BudgetInv
  BY DmStarts, BudgetStarts
<1>3. DmInv /\ BudgetInv /\ [DmNext]_dmVars => (DmInv /\ BudgetInv)'
  BY DmStep, BudgetStep
<1> QED BY <1>1, <1>2, <1>3, PTL DEF DmSpec

---------------------------------------------------------------------------
(* Push notifications.  A store's rows are read in ascending order, so a   *)
(* set of positions in a sequence becomes a sequence of positions: the     *)
(* members of a finite set have ranks 0, 1, 2, ... that all occur.         *)

LEMMA RanksAreDistinct ==
  ASSUME NEW S \in SUBSET Int, IsFiniteSet(S)
  PROVE  LET rank == [i \in S |-> Cardinality({j \in S : j < i})]
         IN  rank \in Bijection(S, 0..Cardinality(S) - 1)
<1> DEFINE below(i) == {j \in S : j < i}
           rank == [i \in S |-> Cardinality(below(i))]
           n == Cardinality(S)
<1>1. n \in Nat
  BY FS_CardinalityType
<1>2. \A i \in S : IsFiniteSet(below(i)) /\ Cardinality(below(i)) \in Nat
  <2> TAKE i \in S
  <2>1. below(i) \in SUBSET S
    OBVIOUS
  <2> HIDE DEF below
  <2> QED BY <2>1, FS_Subset, FS_CardinalityType
<1>3. \A i \in S : Cardinality(below(i)) < n
  <2> TAKE i \in S
  <2>1. below(i) \in SUBSET S /\ i \notin below(i)
    OBVIOUS
  <2> HIDE DEF below
  <2> QED BY <1>1, <1>2, <2>1, FS_Subset
<1>4. \A i, k \in S : i < k => Cardinality(below(i)) < Cardinality(below(k))
  <2> TAKE i, k \in S
  <2> HAVE i < k
  <2>1. /\ \A j \in S : j < i => j < k
        /\ ~ (i < i)
    OBVIOUS
  <2>2. below(i) \in SUBSET below(k) /\ i \in below(k) /\ i \notin below(i)
    BY <2>1
  <2> HIDE DEF below
  <2> QED BY <1>2, <2>2, FS_Subset
<1>5. rank \in Injection(S, 0..n - 1)
  <2> HIDE DEF below, n
  <2>1. rank \in [S -> 0..n - 1]
    BY <1>1, <1>2, <1>3
  <2>2. \A i, k \in S : rank[i] = rank[k] => i = k
    <3> TAKE i, k \in S
    <3>1. i < k \/ k < i \/ i = k
      OBVIOUS
    <3> QED BY <1>2, <1>4, <3>1
  <2> QED BY <2>1, <2>2 DEF Injection, IsInjective
<1>6. IsFiniteSet(0..n - 1) /\ Cardinality(0..n - 1) = n
  BY <1>1, FS_Interval
<1>7. rank \in Surjection(S, 0..n - 1)
  <2> HIDE DEF rank
  <2> QED BY <1>5, <1>6, FS_Injection
<1> QED BY <1>5, <1>7 DEF Bijection

LEMMA InOrderIsSeq ==
  ASSUME NEW S \in SUBSET Int, IsFiniteSet(S)
  PROVE  inOrder(S) \in Seq(S) /\ DOMAIN inOrder(S) = 1..Cardinality(S)
<1> DEFINE rank == [i \in S |-> Cardinality({j \in S : j < i})]
           n == Cardinality(S)
<1>1. n \in Nat
  BY FS_CardinalityType
<1>2. rank \in Bijection(S, 0..n - 1)
  BY RanksAreDistinct
<1>3. \A k \in 1..n : \E i \in S : rank[i] = k - 1
  <2> HIDE DEF rank, n
  <2> QED BY <1>1, <1>2 DEF Bijection, Surjection
<1>4. \A k \in 1..n : (CHOOSE i \in S : Cardinality({j \in S : j < i}) = k - 1) \in S
  BY <1>3
<1>5. inOrder(S) \in [1..n -> S]
  BY <1>4 DEF inOrder
<1> HIDE DEF n
<1> QED BY <1>1, <1>5 DEF n

LEMMA PositionsInOrder ==
  ASSUME NEW n \in Nat, NEW S \in SUBSET (1..n)
  PROVE  inOrder(S) \in Seq(S)
<1>1. IsFiniteSet(1..n) /\ S \in SUBSET Int
  BY FS_Interval
<1>2. IsFiniteSet(S)
  BY <1>1, FS_Subset
<1> QED BY <1>1, <1>2, InOrderIsSeq

LEMMA RowsAtKeeps ==
  ASSUME NEW R, NEW rows \in Seq(R), NEW S \in SUBSET DOMAIN rows
  PROVE  rowsAt(rows, S) \in Seq(R)
<1>1. DOMAIN rows = 1..Len(rows) /\ Len(rows) \in Nat
  OBVIOUS
<1>2. inOrder(S) \in Seq(S)
  BY <1>1, PositionsInOrder
<1>3. \A k \in DOMAIN inOrder(S) : rows[inOrder(S)[k]] \in R
  <2> TAKE k \in DOMAIN inOrder(S)
  <2>1. inOrder(S)[k] \in S
    BY <1>2
  <2> QED BY <1>1, <2>1
<1>4. DOMAIN inOrder(S) = 1..Len(inOrder(S)) /\ Len(inOrder(S)) \in Nat
  BY <1>2
<1>5. rowsAt(rows, S) \in [1..Len(inOrder(S)) -> R]
  BY <1>3, <1>4 DEF rowsAt
<1> QED BY <1>4, <1>5

(* A row names the device its message went to, in the store and in a poll; *)
(* the cursor of a job stands where its chunks do.                         *)
AlignedRow == {r \in [token : Token, to : Token, age : Nat] : r.token = r.to}

PushInv ==
  /\ job \in [tokens : Seq(Token), chunk : Nat, cursor : Nat]
  /\ job.cursor = job.chunk * ChunkSize
  /\ job.tokens # <<>> => job.cursor < Len(job.tokens)
  /\ receipts \in Seq(AlignedRow)
  /\ polling \in Seq(AlignedRow)
  /\ LiveTokensKept

(* Tickets are counted off after the cursor, messages by chunks: the same. *)
LEMMA TicketsAligned ==
  ASSUME PushInv, job.tokens # <<>>
  PROVE  /\ Chunk \in Seq(Token)
         /\ chunkTokens = Chunk
         /\ AfterChunk(FALSE) = AfterChunk(TRUE)
         /\ AfterChunk(FALSE).cursor = AfterChunk(FALSE).chunk * ChunkSize
         /\ AfterChunk(FALSE) \in [tokens : Seq(Token), chunk : Nat, cursor : Nat]
         /\ AfterChunk(FALSE).tokens # <<>> =>
              AfterChunk(FALSE).cursor < Len(AfterChunk(FALSE).tokens)
<1> DEFINE s == job.tokens
           c == job.chunk
           from == c * ChunkSize
           to == IF (c + 1) * ChunkSize < Len(s) THEN (c + 1) * ChunkSize ELSE Len(s)
<1>1. ChunkSize \in Nat \ {0} /\ s \in Seq(Token) /\ c \in Nat /\ from \in Nat
      /\ job.cursor = from /\ from < Len(s) /\ Len(s) \in Nat
      /\ job \in [tokens : Seq(Token), chunk : Nat, cursor : Nat]
  BY PushAssumption DEF PushInv
<1>2. (c + 1) * ChunkSize = from + ChunkSize
  BY <1>1
<1>3. to \in Nat /\ from < to /\ to <= Len(s)
  BY <1>1, <1>2
<1>4. Chunk = SubSeq(s, from + 1, to)
  BY DEF Chunk
<1>5. \A i \in from + 1..to : s[i] \in Token
  BY <1>1, <1>3
<1> HIDE DEF s, c, from, to
<1>6. Chunk \in Seq(Token) /\ Len(Chunk) = to - from
  BY <1>1, <1>3, <1>4, <1>5, SubSeqProperties
<1>7. chunkTokens = Chunk
  BY <1>1, <1>3, <1>4, <1>6 DEF chunkTokens, s
<1>8. \A f \in BOOLEAN : nextChunk(f) = [job EXCEPT !.chunk = c + 1, !.cursor = from + (to - from)]
  BY <1>1, <1>6 DEF nextChunk, c
<1>9. CASE (c + 1) * ChunkSize >= Len(s)
  <2>1. AfterChunk(FALSE) = NoJob /\ AfterChunk(TRUE) = NoJob
    BY <1>9 DEF AfterChunk, s, c
  <2>2. NoJob \in [tokens : Seq(Token), chunk : Nat, cursor : Nat]
    BY DEF NoJob
  <2>3. NoJob.cursor = NoJob.chunk * ChunkSize /\ NoJob.tokens = <<>>
    BY <1>1 DEF NoJob
  <2> HIDE DEF NoJob
  <2> QED BY <1>6, <1>7, <2>1, <2>2, <2>3
<1>10. CASE ~ ((c + 1) * ChunkSize >= Len(s))
  <2> DEFINE j == [job EXCEPT !.chunk = c + 1, !.cursor = from + (to - from)]
  <2>1. AfterChunk(FALSE) = j /\ AfterChunk(TRUE) = j
    BY <1>8, <1>10 DEF AfterChunk, s, c
  <2>2. to = from + ChunkSize /\ from + ChunkSize < Len(s)
    BY <1>1, <1>2, <1>10 DEF to
  <2>3. /\ j.chunk = c + 1 /\ j.cursor = from + ChunkSize /\ j.tokens = s
        /\ j \in [tokens : Seq(Token), chunk : Nat, cursor : Nat]
    <3>1. \A x, y \in Nat : LET e == [job EXCEPT !.chunk = x, !.cursor = y]
                            IN  /\ e.chunk = x /\ e.cursor = y /\ e.tokens = job.tokens
                                /\ e \in [tokens : Seq(Token), chunk : Nat, cursor : Nat]
      BY DEF PushInv
    <3>2. c + 1 \in Nat /\ from + ChunkSize \in Nat /\ from + (to - from) = from + ChunkSize
      BY <1>1, <2>2
    <3> QED BY <3>1, <3>2 DEF s
  <2>4. j.cursor = j.chunk * ChunkSize
    BY <1>2, <2>3
  <2> HIDE DEF j
  <2> QED BY <1>6, <1>7, <2>1, <2>2, <2>3, <2>4
<1> QED BY <1>9, <1>10

LEMMA DeadStayDead ==
  ASSUME LiveTokensKept, NEW dead, deleteToken(dead), dead \cap installed = {}
  PROVE  LiveTokensKept'
BY DEF LiveTokensKept, deleteToken

LEMMA PushStart ==
  ASSUME PushInit PROVE PushInv
BY PushAssumption DEF PushInit, PushInv, NoJob, LiveTokensKept

LEMMA NotifyKeeps ==
  ASSUME PushInv, NEW o, NEW category, NEW m, notify(o, category, m)
  PROVE  PushInv'
<1>1. UNCHANGED <<receipts, polling, lost>>
  BY DEF notify
<1>2. tokensForOwner(o) \in Seq(Token)
  <2> DEFINE S == {t \in Token : bound[t] = o}
  <2>1. S \in SUBSET (1..Tokens) /\ Tokens \in Nat
    BY PushAssumption DEF Token
  <2>2. inOrder(S) \in Seq(S)
    BY <2>1, PositionsInOrder
  <2>3. inOrder(S) \in Seq(Token)
    <3> HIDE DEF S
    <3>1. S \subseteq Token
      BY <2>1 DEF Token
    <3> QED BY <2>2, <3>1
  <2> QED BY <2>3 DEF tokensForOwner
<1>3. job' = NoJob \/ job' = [NoJob EXCEPT !.tokens = tokensForOwner(o)]
  BY DEF notify
<1>4. \A s \in Seq(Token) : s # <<>> => Len(s) \in Nat \ {0}
  OBVIOUS
<1>5. /\ job' \in [tokens : Seq(Token), chunk : Nat, cursor : Nat]
      /\ job'.cursor = 0 /\ job'.chunk = 0
  <2>1. NoJob \in [tokens : Seq(Token), chunk : Nat, cursor : Nat]
        /\ NoJob.cursor = 0 /\ NoJob.chunk = 0
    BY DEF NoJob
  <2> HIDE DEF NoJob
  <2> QED BY <1>2, <1>3, <2>1
<1>6. 0 * ChunkSize = 0
  BY PushAssumption
<1>7. job'.tokens # <<>> => 0 < Len(job'.tokens)
  BY <1>4, <1>5
<1> QED BY <1>1, <1>5, <1>6, <1>7 DEF PushInv, LiveTokensKept

LEMMA SendKeeps ==
  ASSUME PushInv, NEW now, SendChunk(now)
  PROVE  PushInv'
<1> DEFINE n == DOMAIN Chunk
           ok == inOrder(n \ now)
<1>1. job.tokens # <<>> /\ now \subseteq {i \in n : Chunk[i] \notin installed}
      /\ deleteToken({chunkTokens[i] : i \in now}) /\ record(ok)
      /\ job' = AfterChunk(FALSE) /\ polling' = polling
  BY DEF SendChunk
<1>2. chunkTokens = Chunk /\ Chunk \in Seq(Token)
  BY <1>1, TicketsAligned
<1>3. LiveTokensKept'
  <2>1. {chunkTokens[i] : i \in now} \cap installed = {}
    BY <1>1, <1>2
  <2> QED BY <1>1, <2>1, DeadStayDead DEF PushInv
<1>4. receipts' \in Seq(AlignedRow)
  <2> DEFINE rows == [k \in DOMAIN ok |-> [token |-> chunkTokens[ok[k]], to |-> Chunk[ok[k]], age |-> 0]]
  <2>1. n = 1..Len(Chunk) /\ Len(Chunk) \in Nat
    BY <1>2
  <2>2. ok \in Seq(n \ now)
    BY <2>1, PositionsInOrder
  <2> HIDE DEF ok
  <2>3. \A k \in DOMAIN ok : ok[k] \in n
    BY <2>2
  <2>4. \A k \in DOMAIN ok : Chunk[ok[k]] \in Token
    BY <1>2, <2>3
  <2>5. DOMAIN ok = 1..Len(ok) /\ Len(ok) \in Nat
    BY <2>2
  <2>6. rows \in [1..Len(ok) -> AlignedRow]
    BY <1>2, <2>4, <2>5 DEF AlignedRow
  <2> HIDE DEF rows
  <2>7. rows \in Seq(AlignedRow)
    BY <2>5, <2>6
  <2>8. receipts' = receipts \o rows
    BY <1>1 DEF record, rows
  <2>9. receipts \in Seq(AlignedRow)
    BY DEF PushInv
  <2> QED BY <2>7, <2>8, <2>9, ConcatProperties
<1> QED BY <1>1, <1>3, <1>4, TicketsAligned DEF PushInv

LEMMA JobEndsKeeps ==
  ASSUME PushInv, ChunkFails \/ NothingToSend \/ PushRestart
  PROVE  PushInv'
<1>1. CASE ChunkFails
  BY <1>1, TicketsAligned DEF ChunkFails, PushInv, LiveTokensKept
<1>2. 0 * ChunkSize = 0
  BY PushAssumption
<1>3. CASE NothingToSend
  BY <1>2, <1>3 DEF NothingToSend, PushInv, LiveTokensKept, NoJob
<1>4. CASE PushRestart
  BY <1>2, <1>4 DEF PushRestart, PushInv, LiveTokensKept, NoJob
<1> QED BY <1>1, <1>3, <1>4

LEMMA PollBeginKeeps ==
  ASSUME PushInv, PollBegin
  PROVE  PushInv'
<1> DEFINE n == IF BatchLimit < Len(receipts) THEN BatchLimit ELSE Len(receipts)
<1>1. receipts \in Seq(AlignedRow) /\ BatchLimit \in Nat
  BY PushAssumption DEF PushInv
<1>2. n \in Nat /\ n <= Len(receipts)
  BY <1>1
<1>3. pending = SubSeq(receipts, 1, n)
  BY DEF pending
<1> HIDE DEF n
<1>4. \A i \in 1..n : receipts[i] \in AlignedRow
  BY <1>1, <1>2
<1>5. pending \in Seq(AlignedRow)
  BY <1>2, <1>3, <1>4, SubSeqProperties
<1> QED BY <1>5 DEF PollBegin, PushInv, LiveTokensKept

LEMMA PollEndKeeps ==
  ASSUME PushInv, NEW ready, PollEnd(ready)
  PROVE  PushInv'
<1>1. receipts \in Seq(AlignedRow) /\ polling \in Seq(AlignedRow)
      /\ ready \subseteq DOMAIN polling
  BY DEF PushInv, PollEnd
<1>2. LiveTokensKept'
  <2> DEFINE dead == {polling[i].token : i \in {j \in ready : polling[j].to \notin installed}}
  <2>1. \A i \in DOMAIN polling : polling[i].token = polling[i].to
    BY <1>1 DEF AlignedRow
  <2>2. dead \cap installed = {}
    BY <1>1, <2>1
  <2>3. deleteToken(dead)
    BY DEF PollEnd
  <2> HIDE DEF dead
  <2> QED BY <2>2, <2>3, DeadStayDead DEF PushInv
<1>3. remove(ready) \in Seq(AlignedRow)
  BY <1>1, RowsAtKeeps DEF remove
<1>4. \A rs \in Seq(AlignedRow) : pruneOlderThan(rs) \in Seq(AlignedRow)
  <2> TAKE rs \in Seq(AlignedRow)
  <2>1. DOMAIN rs = 1..Len(rs) /\ Len(rs) \in Nat
    OBVIOUS
  <2>2. \A r \in AlignedRow : [r EXCEPT !.age = @ + 1] \in AlignedRow
    BY DEF AlignedRow
  <2>3. Aged(rs) \in [1..Len(rs) -> AlignedRow]
    BY <2>1, <2>2 DEF Aged
  <2>4. Aged(rs) \in Seq(AlignedRow)
    BY <2>1, <2>3
  <2>5. DOMAIN Aged(rs) = DOMAIN rs
    BY DEF Aged
  <2> QED BY <2>4, <2>5, RowsAtKeeps DEF pruneOlderThan
<1>5. receipts' \in Seq(AlignedRow) /\ polling' = <<>> /\ job' = job
  BY <1>3, <1>4 DEF PollEnd
<1> QED BY <1>2, <1>5 DEF PushInv

LEMMA DevicesKeep ==
  ASSUME PushInv, UNCHANGED <<job, receipts, polling, lost>>
  PROVE  PushInv'
BY DEF PushInv, LiveTokensKept

LEMMA PushStep ==
  ASSUME PushInv, [PushNext]_pushVars PROVE PushInv'
<1>1. ASSUME NEW o \in PushOwner, NEW t \in Token, register(o, t) \/ unregister(o, t)
      PROVE  PushInv'
  BY <1>1, DevicesKeep DEF register, unregister
<1>2. ASSUME NEW t \in Token, Uninstall(t) PROVE PushInv'
  BY <1>2, DevicesKeep DEF Uninstall
<1>3. ASSUME NEW o \in PushOwner, NEW q \in QuietChoices, setQuietHours(o, q) PROVE PushInv'
  BY <1>3, DevicesKeep DEF setQuietHours
<1>4. ASSUME NEW o \in PushOwner, NEW m \in 0..DayLen - 1,
             fillRecorded(o, m) \/ strategyCompleted(o, m) \/ deadManAlert(o, m)
      PROVE  PushInv'
  BY <1>4, NotifyKeeps DEF fillRecorded, strategyCompleted, deadManAlert
<1>5. CASE UNCHANGED pushVars
  BY <1>5, DevicesKeep DEF pushVars
<1> QED BY <1>1, <1>2, <1>3, <1>4, <1>5, SendKeeps, JobEndsKeeps, PollBeginKeeps, PollEndKeeps
        DEF PushNext

(* Only tokens of devices that are gone are deleted, whatever chunks fail, *)
(* polls overlap with sends, and rows come and go.                         *)
THEOREM LiveDevicesStayRegistered == PushSpec => []LiveTokensKept
<1>1. PushInv => LiveTokensKept
  BY DEF PushInv
<1> QED BY <1>1, PushStart, PushStep, PTL DEF PushSpec
=============================================================================
