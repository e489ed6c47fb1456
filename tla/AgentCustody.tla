---------------------------- MODULE AgentCustody ----------------------------
(***************************************************************************)
(* How an owner's trade-only agent key comes to sign orders.               *)
(*                                                                         *)
(* The app (mobile/src: AgentScreen, useStrategyController) logs in with a *)
(* wallet, asks the engine to provision a key, signs approveAgent for its  *)
(* address on chain, and confirms the address.  The engine (server/src/    *)
(* agent) keeps one record per owner, a cache of exchange clients that     *)
(* lives as long as the process.  Placing an order takes a client, awaits  *)
(* the builder fee answer (module BuilderFee) and then signs.  Devices,    *)
(* revocations, expiry, restarts, a wallet change in the app and orders in *)
(* flight interleave.                                                      *)
(* Custody is local: the private key is in the engine's own record.        *)
(***************************************************************************)
EXTENDS Integers, FiniteSets

CONSTANTS
  AgentOwner,   \* wallet addresses
  Device,       \* app instances, each opening with the wallet WalletOf gives
  WalletOf,     \* Device -> AgentOwner
  AgentTtl,     \* agentTtlMs
  TokenTtl,     \* sessionTtlMs
  MaxKeys,      \* bound on the keys generated
  MaxCalls,     \* bound on the orders being placed at a time
  MaxAgTime,    \* bound on the clock
  MaxSwitches   \* bound on wallet changes in an app

ASSUME AgentAssumption ==
  /\ WalletOf \in [Device -> AgentOwner]
  /\ {AgentTtl, TokenTtl} \subseteq Nat \ {0}
  /\ {MaxKeys, MaxCalls, MaxAgTime, MaxSwitches} \subseteq Nat

VARIABLES
  agTime,    \* now()
  agents,    \* AgentStore: owner -> record, NoAgent when absent
  keys,      \* keys generated so far; key k is the k-th
  app,       \* device -> wallet, session token, the approval its panel shows,
             \* and the step of its approval flow
  approvals, \* approveAgent actions on chain: signer and key
  clients,   \* makeClientFor's cache: owner -> the key of its client, 0 if none
  calls,     \* orders being placed: the keys of their clients
  placed,    \* the key the last order was signed with, 0 if none
  switches

engineVars == <<agents, keys, clients>>
orderVars  == <<calls, placed>>
agentVars  == <<agTime, agents, keys, app, approvals, clients, calls, placed,
                switches>>

NoAgent == [key |-> 0, approved |-> FALSE, validUntil |-> 0]
NoOne   == "none"
NoToken == [sub |-> NoOne, exp |-> 0]
Rest    == [pc |-> "idle", key |-> 0, token |-> NoToken, signer |-> NoOne]

AgentInit ==
  /\ agTime = 0 /\ keys = 0
  /\ agents = [o \in AgentOwner |-> NoAgent]
  /\ app = [d \in Device |-> [wallet |-> WalletOf[d], token |-> NoToken,
                           shown |-> FALSE, flow |-> Rest]]
  /\ approvals = {}
  /\ clients = [o \in AgentOwner |-> 0]
  /\ calls = {} /\ placed = 0
  /\ switches = 0

(* AgentManager.status: approved and not expired. *)
status(o) == agents[o].approved /\ agents[o].validUntil > agTime

(* ownerOf: a request is answered 401 once its token has expired. *)
Authed(tok) == tok.exp > agTime

(* The record of an owner is written whole. *)
setAgent(o, rec) == agents' = [agents EXCEPT ![o] = rec]

(* AgentManager.provision: a record still awaiting approval is returned as *)
(* it is; otherwise a new key replaces whatever the owner had.             *)
provision(o) ==
  IF agents[o].key # 0 /\ ~agents[o].approved
  THEN UNCHANGED <<agents, keys>>
  ELSE /\ keys < MaxKeys
       /\ keys' = keys + 1
       /\ setAgent(o, [NoAgent EXCEPT !.key = keys + 1])

(* Mutant: the address is not compared with the record's. *)
confirm_AnyAddress(o, k) ==
  agents' = IF agents[o] = NoAgent THEN agents
            ELSE [agents EXCEPT ![o].approved = TRUE, ![o].validUntil = agTime + AgentTtl]

(* AgentManager.confirm: 400 without a record or for another address. *)
confirm(o, k) ==
  IF agents[o] = NoAgent \/ agents[o].key # k THEN UNCHANGED agents
  ELSE setAgent(o, [agents[o] EXCEPT !.approved = TRUE, !.validUntil = agTime + AgentTtl])

----------------------------------------------------------------------------
(* The app.                                                                *)

(* AgentScreen.connect: challenge, signature and session with the wallet   *)
(* of the moment.  The token is state of the screen.                       *)
Connect(d) ==
  /\ app[d].token = NoToken /\ app[d].flow.pc = "idle"
  /\ app' = [app EXCEPT ![d].token = [sub |-> app[d].wallet, exp |-> agTime + TokenTtl],
                      ![d].shown = FALSE]
  /\ UNCHANGED <<agTime, engineVars, approvals, orderVars, switches>>

(* useStrategyController.refresh: on mount and after every change; it may  *)
(* fail, and then the panel keeps what it showed.                          *)
RefreshPanel(d) ==
  /\ app[d].token # NoToken /\ Authed(app[d].token)
  /\ app[d].shown # status(app[d].token.sub)
  /\ app' = [app EXCEPT ![d].shown = status(app[d].token.sub)]
  /\ UNCHANGED <<agTime, engineVars, approvals, orderVars, switches>>

(* approveAgentFlow: provision, approve, confirm, one await after the      *)
(* other, with the token and the signing wallet of the panel at the press. *)
approveAgentFlow(d, k) ==
  [pc |-> "approve", key |-> k, token |-> app[d].token, signer |-> app[d].wallet]

(* Its first await, offered while no approval is shown; busy keeps the     *)
(* device to one flow at a time.                                           *)
ProvisionAgent(d) ==
  /\ app[d].flow.pc = "idle" /\ app[d].token # NoToken /\ ~app[d].shown
  /\ Authed(app[d].token)
  /\ provision(app[d].token.sub)
  /\ app' = [app EXCEPT ![d].flow = approveAgentFlow(d, agents'[app[d].token.sub].key)]
  /\ UNCHANGED <<agTime, approvals, clients, orderVars, switches>>

(* approveAgent: the action lands and is acknowledged; or it lands and the *)
(* receipt is uncertain; or it fails.  Only the first goes on to confirm.  *)
ApproveAgent(d, lands, acknowledged) ==
  /\ app[d].flow.pc = "approve" /\ (acknowledged => lands)
  /\ approvals' = IF lands THEN approvals \cup {[by |-> app[d].flow.signer, key |-> app[d].flow.key]}
                           ELSE approvals
  /\ app' = [app EXCEPT ![d].flow = IF acknowledged THEN [@ EXCEPT !.pc = "confirm"] ELSE Rest]
  /\ UNCHANGED <<agTime, engineVars, orderVars, switches>>

ConfirmAgent(d) ==
  LET f == app[d].flow IN
  /\ f.pc = "confirm"
  /\ IF Authed(f.token) THEN confirm(f.token.sub, f.key) ELSE UNCHANGED agents
  /\ app' = [app EXCEPT ![d].flow = Rest,
                      ![d].shown = @ \/ (Authed(f.token) /\ agents'[f.token.sub].approved)]
  /\ UNCHANGED <<agTime, keys, clients, approvals, orderVars, switches>>

(* ctrl.revoke: the record is removed; the client cache is not told. *)
RevokeAgent(d) ==
  /\ app[d].token # NoToken /\ Authed(app[d].token) /\ app[d].shown
  /\ setAgent(app[d].token.sub, NoAgent)
  /\ app' = [app EXCEPT ![d].shown = FALSE]
  /\ UNCHANGED <<agTime, keys, approvals, clients, orderVars, switches>>

(* Auto-lock replaces the navigator by the lock screen: the panel and its  *)
(* token are gone, a flow already started runs on.                         *)
LockApp(d) ==
  /\ app[d].token # NoToken
  /\ app' = [app EXCEPT ![d].token = NoToken]
  /\ UNCHANGED <<agTime, engineVars, approvals, orderVars, switches>>

(* Settings signs out and Wallet creates another one.  Neither changes the *)
(* auth status, so the tabs stay mounted and AgentScreen keeps its token.  *)
SwitchWallet(d, o) ==
  /\ switches < MaxSwitches /\ switches' = switches + 1
  /\ o # app[d].wallet
  /\ app' = [app EXCEPT ![d].wallet = o]
  /\ UNCHANGED <<agTime, engineVars, approvals, orderVars>>

----------------------------------------------------------------------------
(* The engine places an order.                                             *)

(* makeClientFor: fails closed unless the agent is approved and unexpired; *)
(* then the cached client, else one for the record's key.                  *)
clientFor(o) == IF clients[o] # 0 THEN clients[o] ELSE agents[o].key

(* order: the client is taken, then builderFor is awaited. *)
PlaceOrder(o) ==
  /\ status(o) /\ Cardinality(calls) < MaxCalls
  /\ clients' = [clients EXCEPT ![o] = clientFor(o)]
  /\ calls' = calls \cup {clientFor(o)}
  /\ UNCHANGED <<agTime, agents, keys, app, approvals, placed, switches>>

(* builderFor has answered: the order is signed with the client in hand. *)
SignOrder(c) ==
  /\ placed' = c
  /\ calls' = calls \ {c}
  /\ UNCHANGED <<agTime, engineVars, app, approvals, switches>>

(* The engine restarts: records are in SQLite, clients and calls are not. *)
RestartEngine ==
  /\ clients' = [o \in AgentOwner |-> 0]
  /\ calls' = {}
  /\ UNCHANGED <<agTime, agents, keys, app, approvals, placed, switches>>

AgentTime ==
  /\ agTime < MaxAgTime
  /\ agTime' = agTime + 1
  /\ UNCHANGED <<engineVars, app, approvals, orderVars, switches>>

AgentNext ==
  \/ \E d \in Device : \/ Connect(d) \/ ProvisionAgent(d) \/ ConfirmAgent(d)
                       \/ RevokeAgent(d) \/ RefreshPanel(d) \/ LockApp(d)
                       \/ \E l, a \in BOOLEAN : ApproveAgent(d, l, a)
                       \/ \E o \in AgentOwner : SwitchWallet(d, o)
  \/ \E o \in AgentOwner : PlaceOrder(o)
  \/ \E c \in calls : SignOrder(c)
  \/ RestartEngine \/ AgentTime

AgentSpec == AgentInit /\ [][AgentNext]_agentVars

----------------------------------------------------------------------------
(* Every order the engine signs uses a key that some wallet approved on    *)
(* chain, however the flows of two devices interleave: a confirmation that *)
(* arrives after the record was revoked and provisioned anew must not      *)
(* enable the new key (AgentManager.confirm).                              *)
OrdersSignedByApprovedKey ==
  placed # 0 => \E a \in approvals : a.key = placed
=============================================================================
