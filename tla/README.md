# HyperSolid: a TLA+ verification project

HyperSolid is a self-custodial trading client for the Hyperliquid exchange. A
mobile app holds the owner's wallet; an automation engine (`server/`) runs
strategies for owners who delegate an agent key to it; a signer service
(`backend/`) can hold those agent keys and sign for the engine under a policy.
Three of these parts decide, independently and concurrently, whether an order
may be signed or sent, and each keeps its own record of what happened to it.
This project models those decisions and records, checks them with TLC on small
instances and proves the central ones with TLAPS for every instance.

## 1. Inventory

### Backend: the signer service (Go, `backend/`)

| Component | State | Operations | What makes it correct |
|---|---|---|---|
| single-writer authority (`internal/singlewriter`) | per key: fence, nonce high-water, day, day's total (`sw_state`) | `Decide`: accept (advance nonce, charge the day) or a typed rejection that changes nothing | a nonce is granted once; the fence never goes back; the daily cap holds |
| intent ledger (`internal/ledger`, `ledger/pg`) | per (key, cloid): nonce, digest, status, time of last write (`ledger_intents`); per owner: day and total (`addr_spend`) | `Authorize` (replay, reuse conflict, fresh grant), `Reconcile`, `Orphans` | re-submitting a cloid can only repeat the same signed action; statuses only move forward; address cap over all keys of an owner |
| lease store (`internal/lease`, `lease/pg`) | one row: holder, epoch, expiry | acquire, renew, release in one row-locked transaction | epochs rise with every change of holder |
| leader loop (`internal/leader`) | per process: epoch, isLeader | `step` on a ticker, graceful release | no two processes believe in one epoch; leadership comes back after faults |
| signer service (`cmd/signer`) | handlers in flight; wiring of everything else | `/v1/sign/l1`, `/v1/reconcile`, key provisioning and deletion | a deposed instance cannot write a key its successor has written |
| reconciler and exchange queries (`internal/reconciler`, `internal/hlinfo`) | per pass: orphans, anchors, snapshots | one pass per ticker: open orders, fills, status queries, one ledger write per cloid | terminal records are true; ended orders do not stay orphans |
| policy store (`internal/policy`) | key -> policy, owner budget conflicts | set, delete, get, evaluate, under one mutex | keys of one owner agree on the address budget or may only reduce risk |
| key custody (`internal/keystore`, `vault`, `custody`) | sealed keys, registry, address map | provision, load, remove | no key is usable without its durable record, none survives deletion |
| rate limiter, websocket shard allocator | buckets; shards with reference counts | allow, reap; admit, release | bounds are kept, nothing leaks |
| hashing, signing, observability | none that decisions read | pure functions | golden vectors in the repository's tests |

### Engine (TypeScript, `server/`)

| Component | State | Operations | What makes it correct |
|---|---|---|---|
| strategy scheduler (`engine/scheduler.ts`, `strategies/`) | strategies, grid rungs, activity log (SQLite); ticks in flight | `tick` over DCA, TWAP, scheduled, TP/SL, trailing, conditional, grid, resting grid | a slot is bought once; caps; a stopped strategy places at most what was in flight; a grid's orders are sized from its position; a canceling grid leaves no order |
| placement and delegated signing (`agent/placer.ts`, `restingExecutor.ts`, `signerClient.ts`, `signerExchangeClient.ts`) | none of its own | sign, submit, report, cancel | an order whose answer was lost is not repeated |
| dead-man switch (`engine/deadMan.ts`) | daily trigger budget (SQLite), health counters, armed schedules at the exchange | heartbeat per owner, clear at start and shutdown | the exchange's daily triggers are not burnt; a missed heartbeat is tolerated; lost protection is reported |
| agent custody (`agent/agentManager.ts`, `hlRuntime.ts`) | agent records, client cache | provision, confirm, revoke, sign an order | only a key its owner approved signs |
| builder fee (`agent/builderInjector.ts`, the app's trade screen) | cached approvals; the app's session gate | query, prompt, approve, attach | a revoked approval is not charged for long, nor on another network |
| authentication (`auth/`) | pending login nonces | challenge, session, verify | nonces are single-use and expire |
| push (`push/`) | tokens, preferences, quiet hours, receipts | send, poll, prune, register | live tokens are kept, receipts go |

### App and edge (TypeScript, `mobile/`, `workers/`)

| Component | State | Operations | What makes it correct |
|---|---|---|---|
| intent ledger and recovery | orders the app sent, persisted by wallet and network | submit, retry, close, cancel, recover, prune | an uncertain order is settled from the exchange, and the first order of an action is never forgotten or misreported |
| order ticket | the form, the retry's cloid | edit, validate, submit, retry | a retry duplicates no leg |
| money in and out | sheets, confirmations, balances | deposit, withdraw | what was reviewed is what is signed |
| account screens | loaded account state, slice fills | load, subscribe, count, reload | figures settle; a late answer does not undo a newer one |
| strategy panel | form fields, strategy list | create, toggle, cancel, kill | form and server agree on what is valid |
| market feeds | effects, subscriptions | load, subscribe, clean up | what is shown is of the coin on screen |
| wallet session | secret, PIN, attempts, lock state | create, restore, unlock, change PIN, lock, recover | nobody is locked out for good |
| routing | mode, proxies, cooldowns | choose a route, mark a failure | a failed proxy is left alone |
| dead-man switch of the app | preference, armed schedule, budget | heartbeat, enable, change TTL | a user who is there keeps their orders |
| push settings | switches on screen, keychain, rows of the engine | enable, disable, toggle, sign out | screen, keychain and engine agree |
| presentation; edge worker | none that a decision reads | | not modelled |

### How the parts interact, and what is hard

* The engine asks a signer instance to sign (`/v1/sign/l1`), submits the order
  to the exchange itself and reports the answer (`/v1/reconcile`) without
  waiting. Requests, answers and reports can be lost, late or repeated.
* Several signer instances share one database and elect a leader through the
  lease row. A handler reads the fence and its clock, and only then waits for
  the key's row lock: both are stale when they are used.
* The reconciler of the leading instance writes the same records from snapshots
  taken by separate queries; after a handover two instances do it at once.
* The engine's `setInterval` starts a tick although the last one still awaits
  the exchange; every tick works from a snapshot of the strategies.
* Processes crash between a durable write and the answer to it, or between the
  exchange's effect and the record of it. The app dies between any two writes to
  its database or keychain.
* In the app, one handler runs at a time and everything else happens at its
  awaits: the user types, taps, switches wallet or network; React cleans effects
  up while their calls are in flight; answers come in any order.

`PROJECT.json` lists these hazards one by one with the line where they bite and
the properties that watch them.

## 2. Plan

Done: the backend's signing path, the whole engine but for delegated provisioning,
and the app's components that keep state. Left, in this order:

1. Key custody with the policy store: provisioning and deletion across vault,
   registry and address map with crashes and several instances, and delegated
   provisioning from the engine on top of it.
2. Rate limiter: bounds under a clock that steps back.

## 3. Modules

### Backend

| Module | Models | Notes |
|---|---|---|
| `SingleWriter` | `singlewriter/decide.go` | pure operators; a rejection is `~Accepts` |
| `Ledger` | `ledger.go`, `reconcile.go`, `spend.go`, `pg/pg.go`, and the request `handleSignL1` builds | one action per transaction; `handedOut`, `spent`, `addrSpent`, `reopened`, `addrReopened` are history variables |
| `IntentAuthority` | nothing: the abstract promise of the ledger | refined by `Ledger` through `issuedView`, `stageView` |
| `Lease` | `lease/decide.go` | pure operators |
| `Leader` | `leader/leader.go`, `lease/pg/pg.go` | a lease transaction begins (reads its clock), commits or fails, and is published in separate steps |
| `Signer` | `cmd/signer/main.go` around `Authorize` | extends `Leader` and `Ledger`; one handler in flight per instance |
| `Reconciler` | `reconciler.go`, `hlinfo.go`, the engine's submission and report | extends `Ledger`; the exchange is external |
| `LedgerProofs`, `LeaderProofs`, `SignerProofs`, `ReconcilerProofs` | theorems | `SignerProofs` extends the first two, `ReconcilerProofs` the first; section 6 |

### Engine

| Module | Models | Notes |
|---|---|---|
| `Scheduler` | `scheduler.ts` for DCA, TWAP, scheduled and conditional; `sqliteStore.ts`, `activityStore.ts`, `placer.ts`, `guards.ts`, the strategy routes of `app.ts` | a tick's code between two awaits is one action; `orders` is the external exchange; `torn` and `stray` are history variables |
| `Positions` | `scheduler.ts` for TP/SL, trailing and the mark-crossing grid, `trailing.ts`, `tpsl.ts`, `grid.ts` | lots of the coin, prices and USDC: a grid values its position at one mark and the placer sizes at another; the position is shared by strategies and ticks; fills may be partial, answers lost; `seen` (a tick's) is a history |
| `GridLimit` | `scheduler.ts` for the resting grid, `gridLimit.ts`, `restingExecutor.ts` | a cloid is `<<rung, seq>>`; the exchange's book with fills and cancels from elsewhere; `overlapped` is a history variable |
| `DeadMan` | `deadMan.ts`, `sqliteDeadManBudget.ts`, `deadManExecutor.ts`, the heartbeat and shutdown of `index.ts` | one heartbeat per interval, up to `MaxLag` intervals late; `slips`, `misses`, `exposed`, `overran` are history variables |
| `Auth` | `auth.ts`, `token.ts` | the signature check is an await of its own |
| `AgentCustody` | `agentManager.ts`, `sqliteAgentStore.ts`, `hlRuntime.ts`, the agent routes, and the app's approval flow (`AgentScreen`, `useStrategyController`) | several devices of an owner; approvals are on chain |
| `BuilderFee` | `builderInjector.ts` | the cached answers, one lifetime for yes and one for no; `late` is a history variable |
| `AppFee` | the app's gate: `TradeScreen`, `builderApproval.ts`, `builderApprovalStore.ts`, `exchange.ts` | extends `BuilderFee`: both read one approval on chain |
| `Push` | `notifier.ts`, `receiptPoller.ts`, the push stores, quiet hours, the push routes, the app's registration | tokens, devices and receipts; `lost` is a history variable |
| `SchedulerProofs` | theorems about `Scheduler` and `GridLimit` | section 6 |
| `EngineProofs` | theorems about `DeadMan`, `Auth`, `AgentCustody`, `AppFee`, `Positions`, `Push` | section 6 |

### App

| Module | Models | Notes |
|---|---|---|
| `Intents` | `intentLedger.ts`, `persistentLedger.ts`, `sqliteIntentStore.ts`, `ledgerStore.ts`, `ledgerRecovery.ts`, the submitting part of `exchange.ts`, close and cancel of `PositionsScreen` | the exchange answers a cloid it has with the order it has; `legs` are the actions whose other orders (bracket legs, rungs, TWAPs) are live there without a row |
| `Ticket` | `TradeScreen`, `MarginLeverageBar`, `orderForm.ts`, `buildOrder.ts`, `order.ts`, the builders of `exchange.ts` | prices are integers, sizes parts of a lot; rounding as the code does it; `refused` marks an order after which the builder refused a submit on the device |
| `Funds` | the sheets of `AccountScreen`, `services/deposit.ts`, `withdraw` of `exchange.ts`, `lib/arbitrum/deposit.ts` | a transfer records what was on screen and what was reviewed |
| `Monitor` | `PositionsScreen`, `twap.ts`, the account panels of the Trade tab | a request is read by the exchange and delivered later |
| `StrategyForms` | `AgentScreen`, `useStrategyController`, `strategyApi`, `validate.ts` and the routes of the server | numbers in halves, plus Infinity and text; the JSON encoding turns some into `Null` |
| `Feeds` | `useLiveMarkets`, `useLiveDetail`, `OrderBookPanel`, the market store | an effect awaits the calls of its `Script` in order; a feed delivers from the call to subscribe on (`Delivers`) |
| `Wallet` | `sessionController`, `pinStore`, `walletManager`, `authStore`, onboarding, PIN and lock screens | a handler is the sequence of its keychain calls and store updates |
| `Routing` | `selectRoute`, `resolveApiUrl`, `proxyCooldown`, both transports | an address is a record, since the conversions between its forms matter; a websocket client keeps its endpoint while it subscribes, fails and subscribes again |
| `ManualDeadMan` | `useManualDeadMan`, `deadManBudget`, `deadManStore` | the exchange runs a schedule when its time comes; a change of network, which re-runs the effect like a change of wallet, is not modelled |
| `PushSettings` | `SettingsScreen`, `pushToggle`, `pushRegistration`, `pushPrefsStore`, the push routes | keychain and memory are separate; `parted` is a history variable |
| `IntentsProofs` | theorems about `Intents` | section 6 |
| `MobileProofs` | theorems about `Funds`, `Feeds`, `Routing`, `StrategyForms`, `Ticket`, `ManualDeadMan`, `PushSettings`, `Monitor` | section 6 |

`MC*` modules give constants their values for TLC. `MCEngine`, `MCMobile` and `MCLive`
compose components that share no state: a variable `part`, chosen in the initial
state, names the component a behaviour follows, and the others keep their initial
state. The states of such a run are the union of the components' own, so each is
checked exactly as it would be alone.

Definitions keep the names of the code they translate. A definition named
`X_Something` is a faulty variant of `X`, of the kind a slip in that code would
produce; no specification uses it. It documents what the properties detect: with
`X` replaced by it, the property `PROJECT.json` names beside it fails.

Abstractions. Keys, cloids, digests and owners are opaque: the code only compares
them. Notionals are integers; the values the code's guards treat alike as invalid
(NaN, infinities, negative) are the negative integers. The two stores of each
backend component (in memory, Postgres) apply the same `Decide` in one critical
section, so one action stands for both. Error kinds are left out where no state
depends on them. The ledger's clock is the wall clock; a request carries the
clock its caller read, up to `MaxLag` earlier. In the engine and the app, what runs
between two awaits is one action; a call to the exchange or the engine has an
effect and an answer, and either may be lost.

## 4. Runs

| Run | Question | Bounds and why they suffice |
|---|---|---|
| `ledger` | are nonces unique, caps kept, statuses monotone, and does the ledger implement `IntentAuthority`? | two keys sharing an owner, two cloids, two digests, two fences, `MaxNow = 2` with two-tick days and `MaxLag = 1`: both caps are reached and refused, midnight is crossed and overtaken, retries, reuse conflicts and stale fences all occur; the theorems cover every larger instance |
| `ledger_lag` (violation) | does the daily cap survive a request that waited across midnight? | `MaxLag = 1`, three cloids: one request after midnight, a late one from before it, one more |
| `signer` | does the fence keep a deposed instance out across failover and retries? | two instances with one handler each, one key, two cloids, clock 3 with TTL 1: a handover with a paused handler on either side |
| `reconciler` | are terminal records true, and does every ended order settle? | two pollers, two accounts (the first always idle, so its calls only delay or fail the second), one order, one fault, any report, a refused resubmission; `Lookback = 1` makes the anchor clamp bite within `MaxNow = 2` |
| `reconciler_partial` (violation) | does a partially filled resting order stay open? | one poller, no faults |
| `scheduler_cap` (violation) | is the engine's daily cap kept? | two ticks, two strategies, no faults |
| `engine` | the engine's parts: orders under overlapping ticks, budget, alerts, nonces, keys, fees, the sizing of grid orders | see below |
| `mobile` | the app's parts: orders, tickets, money, forms, feeds, routes, switches, settings | see below |
| `live` | what must come in the end: leadership, removal of a grid, settled receipts and figures, access to the wallet; with the safety of the same parts | see below |
| `intents_close` (violation) | is an uncertain market close retried under its cloid? | one call at a time, two taps |
| `ticket_refused` (violation) | does the retry's cloid survive until the order is edited or succeeds? | a bracket sized in USDC, two mids, four edits, two submits beside the refused one |
| `grid_overlap` (violation) | does a deleted grid go only when nothing of it is left at the exchange? | two ticks in flight, one rung, no faults, nobody else cancels |

Bounds of the composed runs, part by part:

* `engine`. *scheduler*: two ticks in flight, a two-slice TWAP and a one-shot, clock four, two
  faults: a lost answer and a crash, or a crash that tears a record and a retry after it.
  *deadman*: one owner, two overlapping heartbeats, a budget of one trigger a day with TTLs of
  two and three intervals and a day of nine, one fault, one crash or shutdown, one change of
  mind: the budget is reached, skipped at, and reset at midnight. *auth*: two wallets, two
  nonces with a life of two, three deliveries: a request delivered twice and one too late.
  *custody*: one owner with two devices and another owner, two keys, one order in flight,
  expiry after one unit: a revocation and a new key between one device's approval and its
  confirmation. *fee*: two overlapping queries, lifetimes of three and one, latency up to two,
  a change of the approval beside the app's own, one switch of network, two orders.
  *positions*: a TP/SL and a trailing stop on one coin, a symmetric and a long-only grid of
  three lines on another, two overlapping ticks, a fault; marks on, between and outside the
  lines.
* `mobile`. *intents*: two networks, two cloids, two calls in flight, two ledgers, two
  taps. *ticket*: two coins, prices below and above the mid, three edits, two
  submits. *funds*: amounts below and above the minimum, own, foreign and invalid
  destinations, two transfers, one switch of network. *forms*: numbers in halves
  around every limit of the rules. *feeds*: two coins, two networks, four runs of an
  effect. *routing*: two proxies, one with a trailing slash; two requests and a
  socket over a cooldown of two. *deadman*: TTLs of six and twelve, a budget of two
  arms a day, three taps. *push*: two owners, two categories, three taps, one fault, a
  launch.
* `live`. *leader*: two instances, two faults, clock 5 with TTL 2: time for a holder
  to lose the lease by expiry twice. *grid*: two symmetric rungs, four orders a rung,
  two faults, one pause, one cancel from elsewhere. *push*: two tokens in chunks of
  one, a batch of one, two notifications, three changes. *wallet*: two PINs, one
  attempt, one fault. *monitor*: two views, a TWAP of two slices, one event.
  The grid has one tick in flight here: two are too many for TLC, the theorems hold of any
  number, and `grid_overlap` shows that a removed grid is not clear once two overlap.

`MCLedger` and `MCSigner` use symmetry over opaque identifiers and a view without
`updatedAt`, which only `Orphans` reads; none of their properties is a liveness
property. The runs of the scheduler identify its ticks by symmetry. Deadlock checking is off
where bounded clocks, taps and supplies let every behaviour end.

What the six violations show (details under `findings`):

* `ledger_lag`: the running total is reset whenever the request's day differs from
  the stored one, in either direction, so a request that waited for the row lock
  across midnight lets one day exceed its cap. `DailyCapOutsideMidnight` is the cap on
  all the other days.
* `reconciler_partial`: open orders and fills are two queries; an order that starts
  to rest and partially fills between them is recorded as filled, and terminal
  records are never revisited.
* `scheduler_cap`: the engine compares its daily cap with a log that is written only
  after the exchange has answered; two ticks in flight each see the day without the
  other's order.
* `intents_close`: the market close passes no cloid, so a retry after an uncertain
  receipt is a second order, against the comment beside it.
* `ticket_refused`: a retry that the order builder refuses on the device drops the kept
  cloid like an answer of the exchange would, and the next tap of the same button may
  place the order twice. `RetriesRepeatLegs` is the property without such submits.
* `grid_overlap`: a tick that still awaits the placement of an entry copied the grid while
  it ran; the owner deletes it, the next tick finds nothing resting and removes its rows,
  and the entry then rests with nobody to look for it.

## 5. Fairness

* Leader: weak fairness of every instance's loop (the goroutine and its ticker keep
  running), of a restart by the supervisor, and of the clock. Faults are bounded by
  `MaxFaults` and never forced. `LeadershipReturns` speaks of the time after the last
  fault, at the end of the bounded clock.
* Reconciler: weak fairness of every poller's pass. Nothing is assumed of traders, of
  the exchange or of the client's reports: a report may never arrive.
* Resting grid: weak fairness of a tick's steps: the timer keeps firing and the
  clients' timeouts end every await. Fills and foreign cancels are not forced.
* Push: the poll timer keeps firing (weak) and a fetch returns or throws in the end,
  also across restarts (strong: a restart drops the poll under way, and restarts do
  not go on for ever).
* Wallet: weak fairness of a handler's next step; strong fairness of the user trying
  the ways in that the screens offer and of the app being opened again. This is the
  user's persistence, which "no permanent lockout" presupposes.
* Monitor: requests are read and delivered, the subscription opens, the timer fires
  and pushed fills arrive (all weak). Answers come within the debounce time of the
  reload, 1.5 s; without this an earlier reload could end after a later one.

Liveness properties are checked without symmetry or views. In `live` each part has the
fairness of its own specification.

## 6. Proofs

The theorems hold for every value of the constants that satisfies the modules' `ASSUME`s:
types of the constants, and the few facts named below. TLC evaluates these assumptions in
the runs. Where a theorem needs more, the hypothesis is part of its statement.
Each rests on an inductive invariant; TLC has checked these on small instances too.

Signer service.

* `TypeCorrect`: `TypeOK` of `Ledger` is inductive.
* `NonceSafety`: `OneIntentPerNonce` is not inductive; it follows from `NonceInv`:
  every record's nonce is at most its key's high-water (`HighWater`), records of a
  key have distinct nonces (`RecordsDistinct`), and whatever was handed out is the
  record it came from (`HandedOutRecorded`). A fresh grant lies strictly above the
  high-water, a replay returns what is recorded, and `Reconcile` touches neither.
  No assumption on `MaxLag` is needed.
* `WritersForward`: fences and high-waters never decrease, under `TypeOK`.
* `DailyCaps`, `AddressCaps`: for every `MaxLag`. The stored total of a key or address must
  be tied to the history. A request of an earlier day than the stored one takes its place:
  the totals of the days from the one to the other are forgotten, and `reopened` collects
  these days. `Booked` says of every other day that it has not been charged if it is later
  than the stored one, and no more than the stored total if it is that one. `ledger_lag`
  shows that the exception is needed. As nothing is assumed of the lag, both hold of the
  signer's handlers, which do wait across midnight.
* `Refinement`: each ledger step is an `Issue`, an `Advance` or a stutter of
  `IntentAuthority`, using `NonceInv` for the rising nonce.
* `EpochsAreUnique`: from `EpochInv`. An instance *claims* an epoch if it leads with
  it or has it in an unpublished answer; claims never exceed the row's epoch, a
  claim of the row's own epoch belongs to its holder, and no epoch is claimed
  twice. Only an acquisition mints an epoch, and it mints one above all claims.
  `HandoverBumpsEpoch` is an action property of the lease row.
* `SignersImplement`: a step of `Signer` is a step or a stutter of `Ledger` and of
  `Leader`, so the theorems of both hold of it (`NonceSafetyAcrossInstances`). A request
  in flight has to be one that the ledger's specification ranges over (`CallsMade`).
* `EpochHasOneWriter`: an instance *acts* in an epoch if it claims it, has a request of it
  in flight or a grant under it behind it. `WriterInv` says that nobody acts beyond the
  row's epoch and that no two act in one: the claims of `EpochInv` alone forget the
  request of a handler whose instance has stepped down.
* `PastIsFencedOut`: the fence of a key is at least that of every fresh grant of it
  (`FenceCoversGrants`), and `Accepts` refuses what is below the fence.
* `TerminalRecordsTrue`: a snapshot ages while it is acted on, so the invariant is about
  what cannot be undone. `Supported` says of a status what the exchange bears out, now
  and for ever: canceled and rejected orders stay so, and "filled" needs one trade.
  `PassOK` says it of every status a pass may still write, `ReportTruth` of the engine's
  reports. `ReconcilerDrivesLedger`: the passes only write through the ledger.

Engine.

* `TicksNeverOverbuy`, `StopsLetOneThrough`, `RecordsOnlyAdvance`: a tick acts on copies of
  rows, so the invariant orders the copies. The slot of a copy is the stored row's, or it is
  older and taken (an order has its cloid); a copy whose slot is free has counted every order;
  fills in flight are of taken slots (`RowLeads`, `SnapsOrdered`, `SnapCounts`,
  `FillIsCurrent`). For `StopsLetOneThrough`, once an order went out after the stop every
  other copy is of a taken slot (`StrayOnce`).
* `NoOrderOutOfReach`, `RemovedGridsAreClear`: for any number of ticks, until one has begun
  beside another (`overlapped`; the timer of `index.ts:179` does not prevent it). `TickSees`
  says what a tick alone knows of the book: nothing rests that its open orders do not show,
  except in rungs it has been through. `grid_overlap` shows that the exception is needed.
* `UnprotectedOwnersAreAlerted`: the health tracker counts passes in the order they end, so
  it can be behind the exchange. `HealthFollows` bounds by how much. When an arm is
  answered the tracker is reset, while passes that ended since the exchange took it stay
  exposed; these are of heartbeats in flight beside it. `ExposedSince` counts them, with
  those still to come, against the lag of the heartbeat; `BeatsApart` (no two heartbeats
  begin in one interval) and `OthersBound` keep that number within `MaxLag`.
* `OneMissIsTolerated`: from `Ahead`: the schedule of an owner with less than two misses
  lies a TTL from now, minus its misses, minus one if the present heartbeat has not reached
  the owner. A late arm sets the schedule from its heartbeat's own time, which may move it
  back; it also counts the intervals it was late as misses, and the sum is kept. Needs
  `ttl >= 3`, which is `deadManEnabled`; the run's mutant with a shorter TTL breaks it.
* `TriggersStayInBudget`: the budget learns of an arm after the exchange, so its count is
  compared with the triggers that happened and those that may still happen. `Windows` counts
  the latter: a schedule at the exchange, and an arm that the budget or an answer on its way
  takes to be in effect beyond it, whose refresh will be free. `BudgetCovers` says that fired
  and open windows are counted, about to be, or slips. The slips are what the budget cannot
  see, and part of the property: an arm taken late, whose answer was lost, recorded on a later
  day than its own, or in effect at midnight, when the new day's count starts without it.
  `OldBeat` and `OldArm` keep account of a heartbeat that crosses midnight, whose record
  starts the count of its own day again. A pass over many owners has no deadline: an owner
  whose heartbeat was not done with it when the TTL it arms for had run out is left out from
  then on (`overran`, part of the property).
* `LiveDevicesStayRegistered`: `PushInv`: the cursor of a job stands where its chunks do, so
  a ticket is counted off to the token its message went to (`TicketsAligned`), and every
  receipt row names that token (`AlignedRow`), in the store and in a poll's copy. Rows are read
  and removed by positions in order; that such a selection is a sequence of rows, whatever
  its length, is `InOrderIsSeq` and `RowsAtKeeps`.
* `NoncesSpentOnce`: `AuthInv`: a nonce is in one place only, among the challenges, in one
  request being checked or behind one token.
* `OrdersUseApprovedKeys` (approved by some wallet: neither the app's flow nor the engine
  compares it with the owner): `CustodyInv`: a key marked approved in a record, held by a cached
  client, shown as approved or used by an order has an approval on chain. The flow of each
  device is part of it: a confirmation is sent only after the approval of its key.
* `BuilderFeesInTheirWindow`: `FeeInv` dates every yes, cached or on its way, no later than
  the approval last held (needs `MaxLatency < PositiveTtl`: a client timeout of seconds
  against a cache of minutes); `AppFeeInv` says that the app's gate was opened by an
  approval or straddled a change of network.
* `GridOrdersCountTrades`: the order of a tick is named by the actions done of its copy
  of the row, and every lower name has traded (`SlotsSpent`): a lost answer leaves the name
  to the next tick, whose order the exchange refuses. So a tick whose name has not traded
  copied the row after every trade of the grid, and read the position after that
  (`GridTick`). Other strategies may share the coin.

App.

* `OrdersAreRemembered`, `SettledRowsAreTrue`, of the first order of each action: `IntentInv`.
  A row may be settled by a receipt, a query, a cancel or a recovery, each awaited;
  `ReceiptTrue` and `QueryTrue` say that an answer under way that settles an order is still
  true when it arrives, because an order settles once. `RowGood` relates each row to the order
  and to the request on the wire. The ledgers' caches need no invariant beyond their types:
  every write puts a row that is unsettled or true (`TrueWrite`), whatever the cache held.
* `TransfersAsReviewed` (mainnet; testnet transfers need no review): `ArmedAsShown`: as
  long as the confirmation stands, the sheet shows what it showed at the review.
* `LadderFollowsTicket`: `RunsSound`: a panel's run that was cleaned up has no live
  subscription (it may still have an unanswered one, which is the property's exception), and
  a current one is of the ticket's coin and the selected network.
* `FailedProxiesRest`: `FailuresListed`: every host with a recent failure is listed in the
  cooldown under the form the choice compares (proxies delivered over https).
* `FormsNeverMislead`: the rules of form and server compared template by template, for all
  numbers, by `CheckedByForm` and `RefusedForReason`.
* `RetriesKeepTheirCloids`: `RetryHeld`: while an order is in doubt and unedited, its cloid is
  kept or the submit under way carries it; `LegsOf` derives the other legs' cloids from it.
* `PresentUsersKeepOrders` (hypothesis `BeatsKeepUp`: a request lands within less than a
  beat, and a TTL is longer than a beat and two requests; so it is with TTLs of one, two
  and five minutes, beats of half of that and at least 20 s, and timeouts of 10 s):
  `MdKept`: after an undisturbed arm there is at most the last beat's request on its way,
  and the schedule outlasts it.

* `SettingsStayTogether`: `PsInv`. Until something parts them the keychain holds what memory
  holds, handlers of one setting do not overlap (`CallsApart`), and the stage of the handler
  under way says which of two values the engine's row has: what the screen showed before
  it, or what it writes (`ToggleAgrees`, `PrefsAgree` and the like). It speaks of the
  screen only while the switch is on and somebody is signed in (`SwitchShows`).
* `PanelsMoveForward`: `PanelInv`: the panels are of an effect that has run; an answer writes
  only while its effect is the last one.

Model-checked only: the liveness properties `EndedOrdersSettle`, `LeadershipReturns`,
`DeletedGridGoes`, `ReceiptsSettle`, `OvercountSettles` and `NobodyIsLockedOut`, since fairness
is out of the prover's reach. Every other property of the passing runs is a theorem.

## 7. Observations

Behaviours that the models show and the properties bound or exclude explicitly. Where one
contradicts a document or a comment of the repository, that is quoted.

* `Signer`. `src/backend/internal/lease/lease.go:3-4` says each acquire mints a higher
  epoch that is passed on as the fence, "so a deposed holder is fenced out". The fence
  lives in the key's row and only an accepted request of that key raises it, so a
  deposed leader whose handler read its epoch before the handover still gets fresh
  grants of a key until the successor has written that key. Per key it is safe:
  `NoGrantFromThePast`.
* `Reconciler`. `src/backend/internal/reconciler/reconciler.go:72-76` says the auto-loop
  "only advances intents to open/filled — it cannot reap a canceled/rejected order". The
  comment is older than the code: `step` (lines 255-282) asks for the status of every
  intent that is neither open nor filled, and `reapTarget` records canceled and rejected.
  `EndedOrdersSettle` follows the code: every order that ended gets a terminal record in
  the end, however far the fills anchor is clamped, and none is left to `/v1/orphans` for
  good but by failing calls.
* `Scheduler`. A crash between the statements of `recordFill` leaves a TWAP slice
  uncounted, so one more is bought (`torn`). A stop does not reach ticks in flight but
  lets at most one more order through. A slot whose answer was lost is never traded
  again and never advances: the strategy stays running without effect.
* `Positions`. The long-only grid is bounded by its crossings, not by its position: it
  can hold more than its lines after lost answers. Of the symmetric grid
  `src/server/src/engine/scheduler.ts:257` says "Net is targeted in USDC notional
  (szi * mark), so exposure stays bounded as price moves". The grid trades only when the
  mark changes its band. Past either end the band is clamped (`grid.ts:12`), so a net short
  position is not touched and its value grows with a mark above the upper line; the
  placer also sizes at a later price than the mark (`placer.ts:51-54`). No bound on the
  value at the mark holds, therefore; `SizedFromItsTrades` is about the lines 255-256: every
  order is sized from the actual position.
* `GridLimit`. With ticks that overlap, the drain of a removed grid can miss an entry on
  its way (`grid_overlap`). A resting order that was canceled elsewhere counts as filled
  (`scheduler.ts:437`): its rung places the exit of an entry that never was. The exit
  is reduce-only, so it opens nothing.
* `DeadMan`. The budget counts arms, the exchange triggers. Its
  `armedUntil` is not reset by a clear (`deadMan.ts:33`), so an owner cleared by a shutdown
  shortly before midnight is armed again for free and uncounted after it; an arm of
  before midnight that is recorded after one of the new day takes the row back to its own
  day (`deadMan.ts:42`), and the new day's count starts again from zero. Pausing or deleting the
  last strategy that opted in leaves its schedule armed until it runs; owners whose
  strategies are paused are not cleared at a restart. A heartbeat in flight can arm
  again after the clear of a shutdown. With delegated keys a second clear repeats the
  first one's idempotency key (`signerExchangeClient.ts:99`) and has no effect.
* `AgentCustody`. A client in the cache keeps signing with an older key after a new one
  was provisioned and approved, until the process restarts (`hlRuntime.ts:58`); that
  key was approved too, which is what the property says. Any wallet's approval
  satisfies the on-chain step of the flow.
* `AppFee`. A network switch while the approval query or the prompt is awaited opens the
  gate for the new network with the old one's answer (`straddled`). Once approved, the
  app does not ask again: after a revocation elsewhere its orders are refused until the
  session ends.
* `Intents`. The exchange's bare "rejected" and an unknown asset normalise to "unknown", which
  leaves the row submitted. Rows that are open are never reconciled again. Two ledgers over
  one table can take a terminal row back. `src/mobile/src/lib/hyperliquid/intentLedger.ts:7-8`
  says retries are deduped by cloid "so we never produce duplicate or orphan orders". An
  action of several orders opens a row for its primary cloid only, and the first of the
  answer's statuses settles it (`exchange.ts:172-186`, `348-355`): the take-profit and
  stop-loss of a bracket and the further rungs of a ladder rest with no row, so that the
  ledger neither remembers nor recovers them, and a TWAP has no cloid at all. `legs` are these
  orders; `NothingForgotten` and `LedgerHonest` speak of the first one.
* `Ticket`. A retry refused on the device drops the kept cloid (`ticket_refused`).
  Otherwise the retry's cloid survives the other side's button and a coin change
  (`TradeScreen.tsx:128`). With a best-bid-offer price the legs are checked against the
  mid. The minimum notional is checked on the price before rounding, and a tiny price
  is formatted as 0. The ladder's count has no upper limit. The ticket's copy of the
  book is not reset with the coin (`TradeScreen.tsx:111`).
* `Funds`. One review covers a second transfer when the first one's receipt was
  uncertain and the sheet stays open (`AccountScreen.tsx:248`): the same amount to the
  same destination, by a further tap. Balances loaded for one network may be shown
  under the other.
* `Monitor`. The size on screen may stay below what was executed, since a load that was
  sent earlier can overwrite fills counted from the feed; `runQuery`'s loads have no
  guard against an earlier wallet's answers.
* `StrategyForms`. A creation the server refuses shows nothing, and a second tap creates
  a duplicate. No form checks the coin. A switch built from an old list can undo the
  kill switch. Infinity becomes `null` on the way.
* `Feeds`. The book callback of `OrderBookPanel.tsx:78-81` does not ask whether its effect was
  cleaned up, only the `then` after it does: while the subscribe of an earlier coin, network
  or depth is unanswered its books can replace the ladder, and with it the book the ticket
  prices from. `LadderOfItsCoin` names this exception. `useLiveMarkets` and `useLiveDetail`
  leak a subscription that resolves after the cleanup, although
  `docs/superpowers/specs/2026-07-13-conditional-live-status-design.md:49` says
  "`useLiveMarkets` unsubscribes on unmount."; the hook is mounted at the app's root, and its
  effect runs again with the network and on a retry.
* `Wallet`. PIN verifications that overlap count as one attempt. `PinSetupScreen` offers
  no way back. An unlock in flight during a recovery leaves the wiped wallet in memory;
  a restore under an existing PIN leaves the wallet in memory while locked; signing out
  leaves the PIN; the recovery leaves the push preferences.
* `Routing`. `src/mobile/src/lib/hyperliquid/routingWsTransport.ts:23-25` promises a cooldown
  "on a subscription failure". A subscribe that throws leaves before the failure signal is
  listened to (lines 38-40) and starts none, and a client keeps subscribing at its endpoint
  while that is cooling down: `CooldownHonoured` is about requests and new clients, after the
  failures that are recorded. Environment detection runs once. A plain-http proxy of the pool
  misses the cooldown its socket reports.
* `ManualDeadMan`. An arm in flight can land after the clear of a disable; a change of TTL
  sends a clear and an arm concurrently; locking resets the budget; re-enabling counts
  a cleared schedule as a free refresh.
* `PushSettings`. Disabling forgets the token even when the unregistration failed. A tap
  or a death between the two keychain writes leaves the device registered while the
  switch is off, as does the lost answer of an enable. With two quiet-hours writes in
  flight, a failing first one takes the second back on the screen.

## 8. Not modelled

Encoding, hashing and signatures (pure data, golden vectors); metrics, logs and
traces; presentation, translations and single preferences of the app; the stateless
edge worker; the stand-alone nonce allocator and shard allocator, which the service
does not call. The rate limiter only refuses requests, and `Signer` allows a refusal
at any time. Key custody and the policy store are next in the plan. In the modelled
parts: pagination and decoding of exchange answers, configuration parsing, the
shape of HTTP errors, and the effect of a change of network on the app's dead-man switch.
