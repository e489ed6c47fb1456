------------------------------- MODULE Ledger -------------------------------
(***************************************************************************)
(* backend/internal/ledger: the cloid-keyed intent ledger the signer       *)
(* consults before every signature.  Authorize and Reconcile each run in   *)
(* one mutex section (Mem) or one row-locked transaction (pg.Store), so    *)
(* each is one atomic action here.  A rejection changes nothing and is a   *)
(* stuttering step.                                                        *)
(*                                                                         *)
(* A request's clock is read by the caller before it waits for the key's   *)
(* row lock, so the decision may see a clock up to MaxLag behind `now`.    *)
(***************************************************************************)
EXTENDS SingleWriter, FiniteSets

CONSTANTS
    Key, Cloid, Digest, Owner,
    NoCloid,        \* a request's empty cloid
    NoDigest,       \* the digest of no record
    KeyOwner,       \* key -> the owner address its policy names
    DailyCap,       \* key -> DailyMaxNotionalUsdc
    AddrCap,        \* owner -> AddressDailyMaxNotionalUsdc (keys of one owner that
                    \* disagree on it are denied before Authorize)
    Notional,       \* the notionals requests carry
    Fence,          \* the fencing tokens requests carry
    Report,         \* the statuses reconciliation reports
    MaxNow,         \* bound on the clock
    MaxLag          \* bound on the age of a request's clock

ASSUME LedgerAssumption ==
    /\ KeyOwner \in [Key -> Owner]
    /\ DailyCap \in [Key -> Int]
    /\ AddrCap \in [Owner -> Int]
    /\ Notional \subseteq Int
    /\ Fence \subseteq Nat
    /\ Report \subseteq {"signed", "submitted", "open", "filled", "rejected", "canceled"}
    /\ MaxNow \in Nat \ {0}
    /\ MaxLag \in Nat
    /\ NoCloid \notin Cloid
    /\ NoDigest \notin Digest

VARIABLES
    sw,             \* key -> single-writer state (sw_state)
    addrSpend,      \* owner -> spend state of the address (addr_spend)
    records,        \* key -> cloid -> record (ledger_intents)
    updatedAt,      \* key -> cloid -> time of the record's last write
    now,            \* wall clock
    handedOut,      \* history: every (key, cloid, digest, nonce) Authorize returned
    spent,          \* history: key -> day -> notional granted on requests of that day
    addrSpent,      \* history: the same per owner, where the address cap applies
    reopened,       \* history: key -> days whose running total was forgotten
    addrReopened    \* history: the same per owner

ledgerVars == <<sw, addrSpend, records, updatedAt, now, handedOut, spent, addrSpent,
                reopened, addrReopened>>
books == <<spent, addrSpent, reopened, addrReopened>>
history == <<handedOut, books>>

------------------------------------------------------------------------------
(* Records and their lifecycle (ledger.go, reconcile.go). *)

Open == {"signed", "submitted", "open"}
Terminal == {"filled", "rejected", "canceled"}
Status == Open \cup Terminal

isTerminal(s) == s \in Terminal

Absent == [nonce |-> 0, digest |-> NoDigest, status |-> "absent"]
Record == [nonce : Nat, digest : Digest, status : Status]

allowedTransitions ==
    [signed    |-> {"submitted", "open"} \cup Terminal,
     submitted |-> {"open"} \cup Terminal,
     open      |-> Terminal]

\* Mutant of the transition table: a late report may resurrect a finished order.
CanTransition_Backward(current, target) == current # target
\* Transition succeeds: the idempotent self-report or a permitted forward edge.
CanTransition(current, target) ==
    \/ current = target
    \/ current \in Open /\ target \in allowedTransitions[current]

------------------------------------------------------------------------------
(* The address-level daily cap (spend.go). *)

SpendState == [spendDay : Nat, spendTotal : Nat]
ZeroSpend == [spendDay |-> 0, spendTotal |-> 0]

\* Mutant: the address total is not consulted.
DecideSpend_PerKey(a, r) == r.addressDailyCap >= 0
\* Decide's address step: a negative cap denies, zero skips DecideSpend.
DecideSpend(a, r) ==
    /\ r.addressDailyCap >= 0
    /\ r.addressDailyCap # 0 =>
         r.notional >= 0 /\ WithinCap(a, r.notional, r.addressDailyCap, r.nowMs)

NextSpend(a, r) ==
    IF r.addressDailyCap = 0 THEN a
    ELSE [spendDay   |-> Day(r.nowMs),
          spendTotal |-> TotalOn(a, Day(r.nowMs)) + r.notional]

------------------------------------------------------------------------------
Init ==
    /\ sw = [k \in Key |-> ZeroState]
    /\ addrSpend = [o \in Owner |-> ZeroSpend]
    /\ records = [k \in Key |-> [c \in Cloid |-> Absent]]
    /\ updatedAt = [k \in Key |-> [c \in Cloid |-> 0]]
    /\ now = 1
    /\ handedOut = {}
    /\ spent = [k \in Key |-> [d \in 0..MaxNow |-> 0]]
    /\ addrSpent = [o \in Owner |-> [d \in 0..MaxNow |-> 0]]
    /\ reopened = [k \in Key |-> {}]
    /\ addrReopened = [o \in Owner |-> {}]

HandOut(r, nonce) ==
    handedOut' = handedOut \cup
        {[key |-> r.key, cloid |-> r.cloid, digest |-> r.digest, nonce |-> nonce]}

\* A retry of a recorded cloid with the same digest: the original nonce again.
AuthorizeReplay(r) ==
    /\ r.cloid # NoCloid
    /\ records[r.key][r.cloid] # Absent
    /\ records[r.key][r.cloid].digest = r.digest
    /\ HandOut(r, records[r.key][r.cloid].nonce)
    /\ UNCHANGED <<sw, addrSpend, records, updatedAt, now, books>>

\* Only the total of one day is kept (Granted, NextSpend).  A request of an earlier
\* day than that one takes its place: the totals of both days, and of the days
\* between them, are forgotten.
Reopens(s, day) == IF day < s.spendDay THEN day..s.spendDay ELSE {}

\* Mutant: an existing record does not stop a fresh grant.
IsFresh_NoReplayCheck(r) ==
    /\ r.cloid # NoCloid
    /\ Accepts(sw[r.key], r)
    /\ DecideSpend(addrSpend[r.owner], r)
\* Decide accepts a first-seen cloid.
IsFresh(r) ==
    /\ r.cloid # NoCloid
    /\ records[r.key][r.cloid] = Absent
    /\ Accepts(sw[r.key], r)
    /\ DecideSpend(addrSpend[r.owner], r)

AuthorizeFresh(r) ==
    /\ IsFresh(r)
    /\ LET next == Granted(sw[r.key], r)
           day  == Day(r.nowMs)
           rec  == [nonce |-> next.lastNonce, digest |-> r.digest, status |-> "signed"]
       IN  /\ sw' = [sw EXCEPT ![r.key] = next]
           /\ addrSpend' = [addrSpend EXCEPT ![r.owner] = NextSpend(@, r)]
           /\ records' = [records EXCEPT ![r.key][r.cloid] = rec]
           /\ updatedAt' = [updatedAt EXCEPT ![r.key][r.cloid] = now]
           /\ HandOut(r, next.lastNonce)
           /\ spent' = [spent EXCEPT ![r.key][day] = @ + r.notional]
           /\ reopened' = [reopened EXCEPT ![r.key] = @ \cup Reopens(sw[r.key], day)]
           /\ IF r.addressDailyCap = 0 THEN UNCHANGED <<addrSpent, addrReopened>>
              ELSE /\ addrSpent' = [addrSpent EXCEPT ![r.owner][day] = @ + r.notional]
                   /\ addrReopened' = [addrReopened EXCEPT ![r.owner] =
                                         @ \cup Reopens(addrSpend[r.owner], day)]
    /\ UNCHANGED now

\* Reconcile of a known intent; the self-report refreshes updatedAt too.
Reconcile(k, c, target) ==
    /\ records[k][c] # Absent
    /\ CanTransition(records[k][c].status, target)
    /\ records' = [records EXCEPT ![k][c].status = target]
    /\ updatedAt' = [updatedAt EXCEPT ![k][c] = now]
    /\ UNCHANGED <<sw, addrSpend, now, history>>

Orphans(olderThanMs) ==
    {kc \in Key \X Cloid :
        LET rec == records[kc[1]][kc[2]] IN
        /\ rec # Absent
        /\ ~isTerminal(rec.status)
        /\ updatedAt[kc[1]][kc[2]] < olderThanMs}

LedgerTick ==
    /\ now < MaxNow
    /\ now' = now + 1
    /\ UNCHANGED <<sw, addrSpend, records, updatedAt, history>>

------------------------------------------------------------------------------
(* The requests handleSignL1 makes (cmd/signer/main.go). *)

MakeRequest(k, c, d, n, f, t) ==
    [key |-> k, cloid |-> c, digest |-> d, notional |-> n, fence |-> f, nowMs |-> t,
     dailyCap        |-> DailyCap[k],
     owner           |-> KeyOwner[k],
     addressDailyCap |-> IF n # 0 THEN AddrCap[KeyOwner[k]] ELSE 0]

Request ==
    {MakeRequest(k, c, d, n, f, t) :
        k \in Key, c \in Cloid \cup {NoCloid}, d \in Digest, n \in Notional,
        f \in Fence, t \in (now - MaxLag)..now}

Authorize ==
    \E r \in Request : AuthorizeFresh(r) \/ AuthorizeReplay(r)

Next ==
    \/ Authorize
    \/ \E k \in Key, c \in Cloid, target \in Report : Reconcile(k, c, target)
    \/ LedgerTick

Spec == Init /\ [][Next]_ledgerVars

------------------------------------------------------------------------------
(* Properties. *)

\* Type invariant of the ledger's tables, the clock and the history variables.
TypeOK ==
    /\ sw \in [Key -> State]
    /\ addrSpend \in [Owner -> SpendState]
    /\ records \in [Key -> [Cloid -> Record \cup {Absent}]]
    /\ updatedAt \in [Key -> [Cloid -> Nat]]
    /\ now \in 1..MaxNow
    /\ handedOut \subseteq [key : Key, cloid : Cloid, digest : Digest, nonce : Nat]
    /\ spent \in [Key -> [0..MaxNow -> Nat]]
    /\ addrSpent \in [Owner -> [0..MaxNow -> Nat]]
    /\ reopened \in [Key -> SUBSET Nat]
    /\ addrReopened \in [Owner -> SUBSET Nat]

\* Across fresh grants, retries and collisions, Authorize never hands one nonce
\* of a key to two intents, nor one cloid of a key two nonces or two digests:
\* re-submitting a cloid can only repeat the very same signed action.
OneIntentPerNonce ==
    \A a, b \in handedOut :
        a.key = b.key /\ (a.nonce = b.nonce \/ a.cloid = b.cloid) => a = b

\* The "per-key daily notional cap" of a policy: on every UTC day the notional granted
\* to a key on that day's requests stays within it.
DailyCapHeld ==
    \A k \in Key : DailyCap[k] > 0 => \A d \in 0..MaxNow : spent[k][d] <= DailyCap[k]

\* However long requests wait between their clock and their row lock, and whatever
\* retries, rejections and day rollovers occur: a day's grants to a key pass its
\* daily cap only if a request overtook midnight, that is, was decided for an earlier
\* day than a grant already decided, and then only on a day from its own to that one.
DailyCapOutsideMidnight ==
    \A k \in Key : DailyCap[k] > 0 =>
        \A d \in (0..MaxNow) \ reopened[k] : spent[k][d] <= DailyCap[k]

\* The same for an owner address, summed over all the keys that share it.
AddressCapOutsideMidnight ==
    \A o \in Owner : AddrCap[o] > 0 =>
        \A d \in (0..MaxNow) \ addrReopened[o] : addrSpent[o][d] <= AddrCap[o]

\* A key's writers only move forward: no step lowers the fence or the nonce
\* high-water of a key, and a step that charges the key raises the nonce.
WritersMoveForward ==
    [][\A k \in Key :
          /\ sw'[k].fence >= sw[k].fence
          /\ sw'[k].lastNonce >= sw[k].lastNonce
          /\ spent'[k] # spent[k] => sw'[k].lastNonce > sw[k].lastNonce]_ledgerVars

IssuedOf(rec) ==
    IF rec = Absent THEN Absent ELSE [digest |-> rec.digest, nonce |-> rec.nonce]
issuedView == [k \in Key |-> [c \in Cloid |-> IssuedOf(records[k][c])]]
stageView == [k \in Key |-> [c \in Cloid |-> records[k][c].status]]

Authority ==
    INSTANCE IntentAuthority WITH NotIssued <- Absent, issued <- issuedView, stage <- stageView

\* The ledger implements IntentAuthority: what Authorize and Reconcile persist
\* is a sequence of once-only issues and forward lifecycle steps.
ImplementsAuthority == Authority!AuthoritySpec
=============================================================================
