---------------------------- MODULE LedgerProofs ----------------------------
(***************************************************************************)
(* Theorems about the intent ledger, for every set of keys, cloids and     *)
(* digests, every cap, every notional and every bound on the clock.        *)
(***************************************************************************)
EXTENDS Ledger, TLAPS

\* A day index is a natural number no larger than the clock it comes from.
LEMMA DayType ==
    ASSUME NEW t \in Nat
    PROVE  Day(t) \in Nat /\ Day(t) <= t
BY DayMsAssumption, Z3 DEF Day

\* Days do not go back while the clock does not.
LEMMA DayMonotone ==
    ASSUME NEW s \in Nat, NEW t \in Nat, s <= t
    PROVE  Day(s) <= Day(t)
<1> DEFINE p == s \div DayMs
           q == t \div DayMs
<1>1. p \in Nat /\ q \in Nat /\ p * DayMs <= s /\ t < (q + 1) * DayMs
  BY DayMsAssumption, Z3
<1>2. p * DayMs < (q + 1) * DayMs
  BY <1>1, DayMsAssumption, Z3
<1>3. p < q + 1
  <2> HIDE DEF p, q
  <2> QED BY <1>1, <1>2, DayMsAssumption, Z3
<1> QED BY <1>1, <1>3 DEF Day
\* Replacing one entry of a table of tables.
LEMMA NestedExcept ==
    ASSUME NEW A, NEW B, NEW S, NEW f \in [A -> [B -> S]], NEW a \in A, NEW b \in B, NEW v \in S
    PROVE  [f EXCEPT ![a][b] = v] \in [A -> [B -> S]]
OBVIOUS

\* What every request that reaches Authorize looks like.
LEMMA RequestShape ==
    ASSUME NEW r \in Request, now \in 1..MaxNow
    PROVE  /\ r.key \in Key /\ r.cloid \in Cloid \cup {NoCloid} /\ r.digest \in Digest
           /\ r.notional \in Int /\ r.fence \in Nat
           /\ r.nowMs \in Int /\ r.nowMs <= now /\ now - MaxLag <= r.nowMs
           /\ r.dailyCap = DailyCap[r.key] /\ r.dailyCap \in Int
           /\ r.owner = KeyOwner[r.key] /\ r.owner \in Owner
           /\ r.addressDailyCap = IF r.notional # 0 THEN AddrCap[r.owner] ELSE 0
           /\ r.addressDailyCap \in Int
<1>1. PICK k \in Key, c \in Cloid \cup {NoCloid}, d \in Digest, n \in Notional,
           f \in Fence, t \in (now - MaxLag)..now : r = MakeRequest(k, c, d, n, f, t)
  BY DEF Request
<1>2. n \in Int /\ f \in Nat /\ KeyOwner[k] \in Owner /\ DailyCap[k] \in Int
      /\ AddrCap[KeyOwner[k]] \in Int /\ t \in Int /\ t <= now /\ now - MaxLag <= t
  BY LedgerAssumption
<1> QED BY <1>1, <1>2 DEF MakeRequest

\* What an accepted request writes to its key.
LEMMA GrantedShape ==
    ASSUME NEW s \in State, NEW r, r.nowMs \in Int, r.fence \in Nat, r.notional \in Int,
           r.dailyCap \in Int, Accepts(s, r)
    PROVE  /\ Granted(s, r) \in State
           /\ Granted(s, r).lastNonce > s.lastNonce
           /\ Granted(s, r).fence >= s.fence
           /\ r.nowMs \in Nat /\ r.notional \in Nat
<1>1. r.nowMs \in Nat /\ r.notional \in Nat
  BY DEF Accepts
<1>2. Day(r.nowMs) \in Nat
  BY <1>1, DayType
<1>3. TotalOn(s, Day(r.nowMs)) \in Nat
  BY DEF TotalOn, State
<1>4. NextNonce(s.lastNonce, r.nowMs) \in Nat /\ NextNonce(s.lastNonce, r.nowMs) > s.lastNonce
  BY <1>1 DEF NextNonce, State
<1> QED BY <1>1, <1>2, <1>3, <1>4 DEF Granted, State, Accepts

------------------------------------------------------------------------------
(* Type correctness. *)

LEMMA TypeInit == Init => TypeOK
<1> SUFFICES ASSUME Init PROVE TypeOK
  OBVIOUS
<1>1. ZeroState \in State /\ ZeroSpend \in SpendState
  BY DEF ZeroState, State, ZeroSpend, SpendState
<1> QED BY <1>1, LedgerAssumption DEF Init, TypeOK

LEMMA TypeStep == TypeOK /\ [Next]_ledgerVars => TypeOK'
<1> SUFFICES ASSUME TypeOK, [Next]_ledgerVars PROVE TypeOK'
  OBVIOUS
<1>1. ASSUME NEW r \in Request, AuthorizeFresh(r) PROVE TypeOK'
  <2> DEFINE next == Granted(sw[r.key], r)
             day == Day(r.nowMs)
             rec == [nonce |-> next.lastNonce, digest |-> r.digest, status |-> "signed"]
  <2>0. /\ now \in 1..MaxNow /\ sw \in [Key -> State] /\ addrSpend \in [Owner -> SpendState]
        /\ spent \in [Key -> [0..MaxNow -> Nat]]
        /\ addrSpent \in [Owner -> [0..MaxNow -> Nat]]
    BY DEF TypeOK
  <2>1. /\ r.key \in Key /\ r.digest \in Digest /\ r.owner \in Owner /\ r.nowMs <= now
        /\ r.notional \in Int /\ r.fence \in Nat /\ r.nowMs \in Int /\ r.dailyCap \in Int
        /\ r.addressDailyCap \in Int
    BY <2>0, RequestShape
  <2>2. r.cloid \in Cloid /\ Accepts(sw[r.key], r)
    BY <1>1, <2>0, RequestShape DEF AuthorizeFresh, IsFresh
  <2>3. next \in State /\ r.nowMs \in Nat /\ r.notional \in Nat
    BY <2>0, <2>1, <2>2, GrantedShape
  <2>4. day \in 0..MaxNow
    <3>1. day \in Nat /\ day <= r.nowMs
      BY <2>3, DayType
    <3> HIDE DEF day, next
    <3> QED BY <2>0, <2>1, <3>1, LedgerAssumption
  <2>5. sw' \in [Key -> State]
    BY <1>1, <2>0, <2>3 DEF AuthorizeFresh
  <2>6. addrSpend' \in [Owner -> SpendState]
    <3>1. NextSpend(addrSpend[r.owner], r) \in SpendState
      BY <2>0, <2>1, <2>3, <2>4 DEF NextSpend, TotalOn, SpendState
    <3> QED BY <1>1, <2>0, <3>1 DEF AuthorizeFresh
  <2>7. records' \in [Key -> [Cloid -> Record \cup {Absent}]]
    <3>1. rec \in Record
      BY <2>1, <2>3 DEF Record, State, Status, Open
    <3>2. records' = [records EXCEPT ![r.key][r.cloid] = rec]
      BY <1>1 DEF AuthorizeFresh
    <3> QED BY <2>1, <2>2, <3>1, <3>2 DEF TypeOK
  <2>8. updatedAt' \in [Key -> [Cloid -> Nat]]
    BY <1>1, <2>0, <2>1, <2>2 DEF AuthorizeFresh, TypeOK
  <2>9. handedOut' \subseteq [key : Key, cloid : Cloid, digest : Digest, nonce : Nat]
    <3>1. next.lastNonce \in Nat
      BY <2>3 DEF State
    <3> QED BY <1>1, <2>1, <2>2, <3>1 DEF AuthorizeFresh, HandOut, TypeOK
  <2>10. spent' \in [Key -> [0..MaxNow -> Nat]]
    <3>1. spent' = [spent EXCEPT ![r.key][day] = @ + r.notional]
      BY <1>1 DEF AuthorizeFresh
    <3> HIDE DEF day, next
    <3>2. spent[r.key] \in [0..MaxNow -> Nat]
      BY <2>0, <2>1
    <3>3. spent[r.key][day] \in Nat
      BY <2>4, <3>2
    <3>4. spent[r.key][day] + r.notional \in Nat
      BY <2>3, <3>3
    <3>5. [spent EXCEPT ![r.key][day] = @ + r.notional] \in [Key -> [0..MaxNow -> Nat]]
      BY <2>0, <2>1, <2>4, <3>4, NestedExcept
    <3> QED BY <2>0, <3>1, <3>5
  <2>11. addrSpent' \in [Owner -> [0..MaxNow -> Nat]]
    <3>1. \/ addrSpent' = addrSpent
          \/ addrSpent' = [addrSpent EXCEPT ![r.owner][day] = @ + r.notional]
      BY <1>1 DEF AuthorizeFresh
    <3> HIDE DEF day, next
    <3>2. addrSpent[r.owner] \in [0..MaxNow -> Nat]
      BY <2>0, <2>1
    <3>3. addrSpent[r.owner][day] \in Nat
      BY <2>4, <3>2
    <3>4. addrSpent[r.owner][day] + r.notional \in Nat
      BY <2>3, <3>3
    <3>5. [addrSpent EXCEPT ![r.owner][day] = @ + r.notional] \in [Owner -> [0..MaxNow -> Nat]]
      BY <2>0, <2>1, <2>4, <3>4, NestedExcept
    <3> QED BY <2>0, <3>1, <3>5
  <2>12. now' = now
    BY <1>1 DEF AuthorizeFresh
  <2>13. reopened' \in [Key -> SUBSET Nat] /\ addrReopened' \in [Owner -> SUBSET Nat]
    <3>1. /\ reopened' = [reopened EXCEPT ![r.key] = @ \cup Reopens(sw[r.key], day)]
          /\ \/ addrReopened' = addrReopened
             \/ addrReopened' = [addrReopened EXCEPT ![r.owner] =
                                   @ \cup Reopens(addrSpend[r.owner], day)]
      BY <1>1 DEF AuthorizeFresh
    <3> HIDE DEF day, next
    <3>2. Reopens(sw[r.key], day) \subseteq Nat /\ Reopens(addrSpend[r.owner], day) \subseteq Nat
      BY <2>0, <2>1, <2>4 DEF Reopens, State, SpendState
    <3> QED BY <2>1, <3>1, <3>2 DEF TypeOK
  <2> QED BY <2>0, <2>5, <2>6, <2>7, <2>8, <2>9, <2>10, <2>11, <2>12, <2>13 DEF TypeOK
<1>2. ASSUME NEW r \in Request, AuthorizeReplay(r) PROVE TypeOK'
  <2>1. now \in 1..MaxNow
    BY DEF TypeOK
  <2>2. r.key \in Key /\ r.cloid \in Cloid /\ r.digest \in Digest
    BY <1>2, <2>1, RequestShape DEF AuthorizeReplay
  <2>3. records[r.key][r.cloid].nonce \in Nat
    BY <1>2, <2>2 DEF TypeOK, AuthorizeReplay, Record
  <2> QED BY <1>2, <2>2, <2>3 DEF AuthorizeReplay, HandOut, TypeOK, books
<1>3. ASSUME NEW k \in Key, NEW c \in Cloid, NEW target \in Report, Reconcile(k, c, target)
      PROVE  TypeOK'
  <2>1. records[k][c] \in Record
    BY <1>3 DEF Reconcile, TypeOK
  <2>2. target \in Status
    BY LedgerAssumption DEF Status, Open, Terminal
  <2>3. [records[k][c] EXCEPT !.status = target] \in Record
    BY <2>1, <2>2 DEF Record
  <2>4. records' \in [Key -> [Cloid -> Record \cup {Absent}]]
    BY <1>3, <2>3 DEF Reconcile, TypeOK
  <2>5. updatedAt' \in [Key -> [Cloid -> Nat]]
    BY <1>3 DEF Reconcile, TypeOK
  <2>6. UNCHANGED <<sw, addrSpend, now, handedOut, books>>
    BY <1>3 DEF Reconcile, history, books
  <2> QED BY <2>4, <2>5, <2>6 DEF TypeOK, books
<1>4. CASE LedgerTick
  <2>1. now' \in 1..MaxNow
    BY <1>4, LedgerAssumption DEF LedgerTick, TypeOK
  <2>2. UNCHANGED <<sw, addrSpend, records, updatedAt, handedOut, books>>
    BY <1>4 DEF LedgerTick, history
  <2> QED BY <2>1, <2>2 DEF TypeOK, books
<1>5. CASE UNCHANGED ledgerVars
  BY <1>5 DEF ledgerVars, TypeOK
<1> QED BY <1>1, <1>2, <1>3, <1>4, <1>5 DEF Next, Authorize

\* The ledger's tables, clock and histories keep their types in every behaviour.
THEOREM TypeCorrect == Spec => []TypeOK
BY TypeInit, TypeStep, PTL DEF Spec
------------------------------------------------------------------------------
(* One intent per nonce.  OneIntentPerNonce speaks of what was handed out;  *)
(* it is inductive only with the table: a fresh nonce is new because it is  *)
(* above the high-water, and the high-water bounds every recorded nonce.    *)

\* The high-water of a key bounds its recorded nonces.
HighWater ==
    \A k \in Key, c \in Cloid :
        records[k][c] # Absent => records[k][c].nonce <= sw[k].lastNonce

\* Two records of one key never share a nonce.
RecordsDistinct ==
    \A k \in Key : \A b, c \in Cloid :
        records[k][b] # Absent /\ records[k][c] # Absent /\ b # c
            => records[k][b].nonce # records[k][c].nonce

\* What was handed out is what the table holds.
HandedOutRecorded ==
    \A h \in handedOut :
        /\ records[h.key][h.cloid] # Absent
        /\ records[h.key][h.cloid].nonce = h.nonce
        /\ records[h.key][h.cloid].digest = h.digest

NonceInv == TypeOK /\ HighWater /\ RecordsDistinct /\ HandedOutRecorded

\* How a fresh grant changes the tables.
LEMMA FreshEffect ==
    ASSUME TypeOK, NEW r \in Request, AuthorizeFresh(r)
    PROVE  /\ r.key \in Key /\ r.cloid \in Cloid /\ r.digest \in Digest
           /\ records[r.key][r.cloid] = Absent
           /\ Granted(sw[r.key], r) \in State
           /\ Granted(sw[r.key], r).lastNonce > sw[r.key].lastNonce
           /\ Granted(sw[r.key], r).fence >= sw[r.key].fence
           /\ sw' = [sw EXCEPT ![r.key] = Granted(sw[r.key], r)]
           /\ records' = [records EXCEPT ![r.key][r.cloid] =
                            [nonce  |-> Granted(sw[r.key], r).lastNonce,
                             digest |-> r.digest, status |-> "signed"]]
           /\ handedOut' = handedOut \cup
                {[key |-> r.key, cloid |-> r.cloid, digest |-> r.digest,
                  nonce |-> Granted(sw[r.key], r).lastNonce]}
<1>1. now \in 1..MaxNow /\ sw \in [Key -> State]
  BY DEF TypeOK
<1>2. r.key \in Key /\ r.digest \in Digest /\ r.notional \in Int /\ r.fence \in Nat
      /\ r.nowMs \in Int /\ r.dailyCap \in Int
  BY <1>1, RequestShape
<1>3. r.cloid \in Cloid /\ records[r.key][r.cloid] = Absent /\ Accepts(sw[r.key], r)
  BY <1>1, RequestShape DEF AuthorizeFresh, IsFresh
<1>4. Granted(sw[r.key], r) \in State
      /\ Granted(sw[r.key], r).lastNonce > sw[r.key].lastNonce
      /\ Granted(sw[r.key], r).fence >= sw[r.key].fence
  BY <1>1, <1>2, <1>3, GrantedShape
<1>5. /\ sw' = [sw EXCEPT ![r.key] = Granted(sw[r.key], r)]
      /\ records' = [records EXCEPT ![r.key][r.cloid] =
                            [nonce  |-> Granted(sw[r.key], r).lastNonce,
                             digest |-> r.digest, status |-> "signed"]]
      /\ handedOut' = handedOut \cup
                {[key |-> r.key, cloid |-> r.cloid, digest |-> r.digest,
                  nonce |-> Granted(sw[r.key], r).lastNonce]}
  BY DEF AuthorizeFresh, HandOut
<1> QED BY <1>2, <1>3, <1>4, <1>5

\* How a reconciliation changes the records: only the status of one of them.
LEMMA ReconcileEffect ==
    ASSUME TypeOK, NEW k \in Key, NEW c \in Cloid, NEW target \in Report, Reconcile(k, c, target)
    PROVE  /\ records[k][c] \in Record
           /\ records' = [records EXCEPT ![k][c] = [records[k][c] EXCEPT !.status = target]]
           /\ \A j \in Key, b \in Cloid :
                /\ records'[j][b] # Absent <=> records[j][b] # Absent
                /\ records'[j][b].nonce = records[j][b].nonce
                /\ records'[j][b].digest = records[j][b].digest
           /\ sw' = sw /\ handedOut' = handedOut
<1>1. records \in [Key -> [Cloid -> Record \cup {Absent}]]
  BY DEF TypeOK
<1>2. records[k][c] \in Record
  BY <1>1 DEF Reconcile
<1>3. records' = [records EXCEPT ![k][c] = [records[k][c] EXCEPT !.status = target]]
  BY <1>1 DEF Reconcile
<1>4. [records[k][c] EXCEPT !.status = target] # Absent
  BY <1>2, LedgerAssumption DEF Record, Absent
<1>5. /\ [records[k][c] EXCEPT !.status = target].nonce = records[k][c].nonce
      /\ [records[k][c] EXCEPT !.status = target].digest = records[k][c].digest
  BY <1>2 DEF Record
<1>6. \A j \in Key, b \in Cloid :
                /\ records'[j][b] # Absent <=> records[j][b] # Absent
                /\ records'[j][b].nonce = records[j][b].nonce
                /\ records'[j][b].digest = records[j][b].digest
  <2> DEFINE rec == [records[k][c] EXCEPT !.status = target]
  <2>1. records[k][c] # Absent
    BY DEF Reconcile
  <2> HIDE DEF rec
  <2> SUFFICES ASSUME NEW j \in Key, NEW b \in Cloid
               PROVE  /\ records'[j][b] # Absent <=> records[j][b] # Absent
                      /\ records'[j][b].nonce = records[j][b].nonce
                      /\ records'[j][b].digest = records[j][b].digest
    OBVIOUS
  <2>2. records'[j][b] = IF j = k /\ b = c THEN rec ELSE records[j][b]
    BY <1>1, <1>3 DEF rec
  <2>3. rec # Absent /\ rec.nonce = records[k][c].nonce /\ rec.digest = records[k][c].digest
    BY <1>4, <1>5 DEF rec
  <2> QED BY <2>1, <2>2, <2>3
<1>7. sw' = sw /\ handedOut' = handedOut
  BY DEF Reconcile, history, books
<1> QED BY <1>2, <1>3, <1>6, <1>7

LEMMA NonceInit == Init => NonceInv
<1> SUFFICES ASSUME Init PROVE NonceInv
  OBVIOUS
<1>1. \A k \in Key, c \in Cloid : records[k][c] = Absent
  BY DEF Init
<1>2. handedOut = {}
  BY DEF Init
<1> QED BY <1>1, <1>2, TypeInit DEF NonceInv, HighWater, RecordsDistinct, HandedOutRecorded

LEMMA NonceStep == NonceInv /\ [Next]_ledgerVars => NonceInv'
<1> SUFFICES ASSUME NonceInv, [Next]_ledgerVars PROVE NonceInv'
  OBVIOUS
<1>0. TypeOK /\ TypeOK'
  BY TypeStep DEF NonceInv
<1>t. records \in [Key -> [Cloid -> Record \cup {Absent}]] /\ sw \in [Key -> State]
  BY <1>0 DEF TypeOK
<1>1. ASSUME NEW r \in Request, AuthorizeFresh(r) PROVE NonceInv'
  <2> DEFINE n == Granted(sw[r.key], r).lastNonce
             rec == [nonce |-> n, digest |-> r.digest, status |-> "signed"]
  <2>1. /\ r.key \in Key /\ r.cloid \in Cloid /\ r.digest \in Digest
        /\ records[r.key][r.cloid] = Absent
        /\ n \in Nat /\ n > sw[r.key].lastNonce
    BY <1>0, <1>1, FreshEffect DEF State
  <2>2. \A k \in Key, c \in Cloid :
          records'[k][c] = IF k = r.key /\ c = r.cloid THEN rec ELSE records[k][c]
    <3>1. records' = [records EXCEPT ![r.key][r.cloid] = rec]
      BY <1>0, <1>1, FreshEffect
    <3> HIDE DEF n, rec
    <3> QED BY <1>t, <2>1, <3>1
  <2>3. \A k \in Key : sw'[k].lastNonce = IF k = r.key THEN n ELSE sw[k].lastNonce
    BY <1>0, <1>1, <1>t, FreshEffect
  <2>4. handedOut' = handedOut \cup
            {[key |-> r.key, cloid |-> r.cloid, digest |-> r.digest, nonce |-> n]}
    BY <1>0, <1>1, FreshEffect
  <2>5. rec # Absent /\ rec.nonce = n /\ rec.digest = r.digest
    BY <2>1, LedgerAssumption DEF Absent
  <2>6. \A c \in Cloid : records[r.key][c] # Absent =>
            records[r.key][c].nonce \in Nat /\ records[r.key][c].nonce < n
    <3> SUFFICES ASSUME NEW c \in Cloid, records[r.key][c] # Absent
                 PROVE  records[r.key][c].nonce \in Nat /\ records[r.key][c].nonce < n
      OBVIOUS
    <3>1. records[r.key][c].nonce \in Nat
      BY <1>t, <2>1 DEF Record
    <3>2. records[r.key][c].nonce <= sw[r.key].lastNonce /\ sw[r.key].lastNonce \in Nat
      BY <1>t, <2>1 DEF NonceInv, HighWater, State
    <3> HIDE DEF n
    <3> QED BY <2>1, <3>1, <3>2
  <2> HIDE DEF n, rec
  <2>7. HighWater'
    <3> SUFFICES ASSUME NEW k \in Key, NEW c \in Cloid, records'[k][c] # Absent
                 PROVE  records'[k][c].nonce <= sw'[k].lastNonce
      BY DEF HighWater
    <3>1. CASE k = r.key /\ c = r.cloid
      BY <2>1, <2>2, <2>3, <2>5, <3>1
    <3>2. CASE k = r.key /\ c # r.cloid
      BY <2>1, <2>2, <2>3, <2>6, <3>2
    <3>3. CASE k # r.key
      BY <2>2, <2>3, <3>3 DEF NonceInv, HighWater
    <3> QED BY <3>1, <3>2, <3>3
  <2>8. RecordsDistinct'
    <3> SUFFICES ASSUME NEW k \in Key, NEW b \in Cloid, NEW c \in Cloid, b # c,
                        records'[k][b] # Absent, records'[k][c] # Absent
                 PROVE  records'[k][b].nonce # records'[k][c].nonce
      BY DEF RecordsDistinct
    <3>1. CASE k # r.key \/ (b # r.cloid /\ c # r.cloid)
      BY <2>2, <3>1 DEF NonceInv, RecordsDistinct
    <3>2. CASE k = r.key /\ b = r.cloid
      BY <2>1, <2>2, <2>5, <2>6, <3>2
    <3>3. CASE k = r.key /\ c = r.cloid
      BY <2>1, <2>2, <2>5, <2>6, <3>3
    <3> QED BY <3>1, <3>2, <3>3
  <2>9. HandedOutRecorded'
    <3> SUFFICES ASSUME NEW h \in handedOut'
                 PROVE  /\ records'[h.key][h.cloid] # Absent
                        /\ records'[h.key][h.cloid].nonce = h.nonce
                        /\ records'[h.key][h.cloid].digest = h.digest
      BY DEF HandedOutRecorded
    <3>1. CASE h \in handedOut
      <4>1. h.key \in Key /\ h.cloid \in Cloid
        BY <1>0, <3>1 DEF TypeOK
      <4>2. records[h.key][h.cloid] # Absent
        BY <3>1 DEF NonceInv, HandedOutRecorded
      <4>3. ~(h.key = r.key /\ h.cloid = r.cloid)
        BY <2>1, <4>2
      <4> QED BY <2>2, <3>1, <4>1, <4>3 DEF NonceInv, HandedOutRecorded
    <3>2. CASE h = [key |-> r.key, cloid |-> r.cloid, digest |-> r.digest, nonce |-> n]
      BY <2>1, <2>2, <2>5, <3>2
    <3> QED BY <2>4, <3>1, <3>2
  <2> QED BY <1>0, <2>7, <2>8, <2>9 DEF NonceInv
<1>2. ASSUME NEW r \in Request, AuthorizeReplay(r) PROVE NonceInv'
  <2>1. sw' = sw /\ records' = records
    BY <1>2 DEF AuthorizeReplay
  <2>2. handedOut' = handedOut \cup
            {[key |-> r.key, cloid |-> r.cloid, digest |-> r.digest,
              nonce |-> records[r.key][r.cloid].nonce]}
    BY <1>2 DEF AuthorizeReplay, HandOut
  <2>3. HandedOutRecorded'
    BY <1>2, <2>1, <2>2 DEF AuthorizeReplay, NonceInv, HandedOutRecorded
  <2> QED BY <1>0, <2>1, <2>3 DEF NonceInv, HighWater, RecordsDistinct
<1>3. ASSUME NEW k \in Key, NEW c \in Cloid, NEW target \in Report, Reconcile(k, c, target)
      PROVE  NonceInv'
  <2>1. /\ \A j \in Key, b \in Cloid :
             /\ records'[j][b] # Absent <=> records[j][b] # Absent
             /\ records'[j][b].nonce = records[j][b].nonce
             /\ records'[j][b].digest = records[j][b].digest
        /\ sw' = sw /\ handedOut' = handedOut
    BY <1>0, <1>3, ReconcileEffect
  <2>2. HighWater' /\ RecordsDistinct'
    BY <2>1 DEF NonceInv, HighWater, RecordsDistinct
  <2>3. \A h \in handedOut : h.key \in Key /\ h.cloid \in Cloid
    BY <1>0 DEF TypeOK
  <2>4. HandedOutRecorded'
    BY <2>1, <2>3 DEF NonceInv, HandedOutRecorded
  <2> QED BY <1>0, <2>2, <2>4 DEF NonceInv
<1>4. CASE LedgerTick
  BY <1>0, <1>4 DEF LedgerTick, history, books, NonceInv, HighWater, RecordsDistinct, HandedOutRecorded
<1>5. CASE UNCHANGED ledgerVars
  BY <1>0, <1>5 DEF ledgerVars, NonceInv, HighWater, RecordsDistinct, HandedOutRecorded
<1> QED BY <1>1, <1>2, <1>3, <1>4, <1>5 DEF Next, Authorize

LEMMA NonceInvariant == Spec => []NonceInv
BY NonceInit, NonceStep, PTL DEF Spec

\* No nonce of a key is ever handed to two intents and no cloid of a key to two
\* nonces or digests, for any number of keys, cloids, retries and fences.
THEOREM NonceSafety == Spec => []OneIntentPerNonce
<1>1. NonceInv => OneIntentPerNonce
  <2> SUFFICES ASSUME NonceInv, NEW a \in handedOut, NEW b \in handedOut, a.key = b.key,
                      a.nonce = b.nonce \/ a.cloid = b.cloid
               PROVE  a = b
    BY DEF OneIntentPerNonce
  <2>1. /\ a \in [key : Key, cloid : Cloid, digest : Digest, nonce : Nat]
        /\ b \in [key : Key, cloid : Cloid, digest : Digest, nonce : Nat]
    BY DEF NonceInv, TypeOK
  <2>2. a.cloid = b.cloid
    BY <2>1 DEF NonceInv, RecordsDistinct, HandedOutRecorded
  <2>3. a.nonce = b.nonce /\ a.digest = b.digest
    BY <2>2 DEF NonceInv, HandedOutRecorded
  <2> QED BY <2>1, <2>2, <2>3
<1> QED BY <1>1, NonceInvariant, PTL

------------------------------------------------------------------------------
(* The nonce and the fence of a key only move forward. *)

\* No step of the ledger lowers a key's fence or nonce high-water, and a step
\* that charges a key gives it a new nonce.
THEOREM WritersForward == Spec => WritersMoveForward
<1> DEFINE Forward == \A k \in Key :
               /\ sw'[k].fence >= sw[k].fence
               /\ sw'[k].lastNonce >= sw[k].lastNonce
               /\ spent'[k] # spent[k] => sw'[k].lastNonce > sw[k].lastNonce
<1>1. TypeOK /\ [Next]_ledgerVars => [Forward]_ledgerVars
  <2> SUFFICES ASSUME TypeOK, Next PROVE Forward
    OBVIOUS
  <2>t. sw \in [Key -> State] /\ spent \in [Key -> [0..MaxNow -> Nat]]
    BY DEF TypeOK
  <2>u. \A k \in Key : sw[k].fence \in Nat /\ sw[k].lastNonce \in Nat
    BY <2>t DEF State
  <2>1. ASSUME NEW r \in Request, AuthorizeFresh(r) PROVE Forward
    <3> DEFINE g == Granted(sw[r.key], r)
    <3>1. r.key \in Key /\ g.lastNonce > sw[r.key].lastNonce /\ g.fence >= sw[r.key].fence
      BY <2>1, FreshEffect
    <3>2. sw' = [sw EXCEPT ![r.key] = g]
      BY <2>1, FreshEffect
    <3>3. spent' = [spent EXCEPT ![r.key][Day(r.nowMs)] = @ + r.notional]
      BY <2>1 DEF AuthorizeFresh
    <3>4. g \in State
      BY <2>1, FreshEffect
    <3> HIDE DEF g
    <3>5. ASSUME NEW k \in Key, k # r.key PROVE sw'[k] = sw[k] /\ spent'[k] = spent[k]
      BY <2>t, <3>2, <3>3, <3>5
    <3>6. sw'[r.key] = g
      BY <2>t, <3>1, <3>2
    <3> QED BY <2>u, <3>1, <3>4, <3>5, <3>6 DEF State
  <2>2. CASE sw' = sw /\ spent' = spent
    BY <2>2, <2>u
  <2> QED BY <2>1, <2>2 DEF Next, Authorize, AuthorizeReplay, Reconcile, LedgerTick, history, books
<1>2. Spec => [][Forward]_ledgerVars
  BY <1>1, TypeCorrect, PTL DEF Spec
<1> QED BY <1>2 DEF WritersMoveForward

------------------------------------------------------------------------------
(* The daily caps.  A running total is the whole of what was granted on its *)
(* day, unless a request overtook midnight and so reopened that day: the    *)
(* days a table has reopened are left out, and every other day is in the    *)
(* running total or still ahead of it.                                      *)

\* The running total s covers the per-day history h outside the days x: no later day
\* has been charged, and its own day has not been charged more than it says.
Booked(s, h, x) ==
    /\ s.spendDay \in Nat
    /\ \A d \in (0..MaxNow) \ x : /\ d > s.spendDay => h[d] = 0
                                  /\ d = s.spendDay => h[d] <= s.spendTotal

LEMMA BookedTotal ==
    ASSUME NEW s, NEW h \in [0..MaxNow -> Nat], NEW x, Booked(s, h, x),
           NEW d \in (0..MaxNow) \ x, d \notin Reopens(s, d)
    PROVE  h[d] <= TotalOn(s, d)
<1>1. d >= s.spendDay /\ d \in Nat
  BY LedgerAssumption DEF Booked, Reopens
<1>2. CASE d = s.spendDay
  BY <1>2 DEF Booked, TotalOn
<1>3. CASE d # s.spendDay
  BY <1>1, <1>3 DEF Booked, TotalOn
<1> QED BY <1>2, <1>3

\* A charge of n to a day: the day given up for an earlier one joins the reopened.
LEMMA BookedCharge ==
    ASSUME NEW s, NEW h \in [0..MaxNow -> Nat], NEW x, Booked(s, h, x), NEW day \in 0..MaxNow,
           NEW n \in Nat, NEW t, t.spendDay = day, t.spendTotal = TotalOn(s, day) + n,
           TotalOn(s, day) \in Nat,
           NEW g, g = [h EXCEPT ![day] = @ + n], NEW y, y = x \cup Reopens(s, day)
    PROVE  Booked(t, g, y)
<1>1. day \in Nat /\ g[day] = h[day] + n /\ h[day] \in Nat
  BY LedgerAssumption
<1>2. ASSUME NEW d \in (0..MaxNow) \ y, d > day PROVE g[d] = 0
  <2>1. d \in Nat /\ d # day /\ d > s.spendDay
    BY <1>1, <1>2, LedgerAssumption DEF Booked, Reopens
  <2>2. g[d] = h[d]
    BY <2>1
  <2> QED BY <2>1, <2>2 DEF Booked
<1>3. ASSUME day \notin y PROVE g[day] <= t.spendTotal
  <2>1. h[day] <= TotalOn(s, day)
    BY <1>3, BookedTotal
  <2> QED BY <1>1, <2>1
<1> QED BY <1>1, <1>2, <1>3 DEF Booked

KeyBooks == \A k \in Key : Booked(sw[k], spent[k], reopened[k])
AddressBooks == \A o \in Owner : Booked(addrSpend[o], addrSpent[o], addrReopened[o])

CapInv ==
    TypeOK /\ KeyBooks /\ AddressBooks /\ DailyCapOutsideMidnight /\ AddressCapOutsideMidnight

LEMMA CapInit == Init => CapInv
<1> SUFFICES ASSUME Init PROVE CapInv
  OBVIOUS
<1>2. \A k \in Key : sw[k] = ZeroState /\ spent[k] = [d \in 0..MaxNow |-> 0]
  BY DEF Init
<1>3. \A o \in Owner : addrSpend[o] = ZeroSpend /\ addrSpent[o] = [d \in 0..MaxNow |-> 0]
  BY DEF Init
<1>4. KeyBooks
  BY <1>2, LedgerAssumption DEF KeyBooks, Booked, ZeroState
<1>5. AddressBooks
  BY <1>3, LedgerAssumption DEF AddressBooks, Booked, ZeroSpend
<1>6. DailyCapOutsideMidnight /\ AddressCapOutsideMidnight
  BY <1>2, <1>3, LedgerAssumption DEF DailyCapOutsideMidnight, AddressCapOutsideMidnight
<1> QED BY <1>4, <1>5, <1>6, TypeInit DEF CapInv

LEMMA CapStep == CapInv /\ [Next]_ledgerVars => CapInv'
<1> SUFFICES ASSUME CapInv, [Next]_ledgerVars PROVE CapInv'
  OBVIOUS
<1>0. TypeOK /\ TypeOK'
  BY TypeStep DEF CapInv
<1>t. /\ now \in 1..MaxNow /\ sw \in [Key -> State] /\ addrSpend \in [Owner -> SpendState]
      /\ spent \in [Key -> [0..MaxNow -> Nat]] /\ addrSpent \in [Owner -> [0..MaxNow -> Nat]]
      /\ reopened \in [Key -> SUBSET Nat] /\ addrReopened \in [Owner -> SUBSET Nat]
  BY <1>0 DEF TypeOK
<1>1. ASSUME NEW r \in Request, AuthorizeFresh(r) PROVE CapInv'
  <2> DEFINE day == Day(r.nowMs)
             next == Granted(sw[r.key], r)
  <2>1. /\ r.key \in Key /\ r.owner \in Owner /\ r.notional \in Int
        /\ r.nowMs \in Int /\ r.nowMs <= now /\ r.fence \in Nat
        /\ r.dailyCap = DailyCap[r.key] /\ r.dailyCap \in Int
        /\ r.addressDailyCap = IF r.notional # 0 THEN AddrCap[r.owner] ELSE 0
        /\ r.addressDailyCap \in Int
    BY <1>t, RequestShape, LedgerAssumption
  <2>2. Accepts(sw[r.key], r) /\ DecideSpend(addrSpend[r.owner], r)
    BY <1>1 DEF AuthorizeFresh, IsFresh
  <2>3. r.notional \in Nat /\ r.nowMs \in Nat
    BY <1>t, <2>1, <2>2, GrantedShape
  <2>4. /\ sw' = [sw EXCEPT ![r.key] = next]
        /\ spent' = [spent EXCEPT ![r.key][day] = @ + r.notional]
        /\ reopened' = [reopened EXCEPT ![r.key] = @ \cup Reopens(sw[r.key], day)]
        /\ addrSpend' = [addrSpend EXCEPT ![r.owner] = NextSpend(addrSpend[r.owner], r)]
        /\ r.addressDailyCap = 0 => UNCHANGED <<addrSpent, addrReopened>>
        /\ r.addressDailyCap # 0 =>
             /\ addrSpent' = [addrSpent EXCEPT ![r.owner][day] = @ + r.notional]
             /\ addrReopened' = [addrReopened EXCEPT ![r.owner] =
                                   @ \cup Reopens(addrSpend[r.owner], day)]
    BY <1>1, <1>t, <2>1 DEF AuthorizeFresh
  <2>5. next.spendDay = day /\ next.spendTotal = TotalOn(sw[r.key], day) + r.notional
    BY <2>1 DEF Granted
  <2>6. day \in 0..MaxNow
    <3>1. day \in Nat /\ day <= r.nowMs
      BY <2>3, DayType
    <3> HIDE DEF day
    <3> QED BY <1>t, <2>1, <3>1, LedgerAssumption
  <2>7. /\ spent[r.key] \in [0..MaxNow -> Nat] /\ addrSpent[r.owner] \in [0..MaxNow -> Nat]
        /\ TotalOn(sw[r.key], day) \in Nat /\ TotalOn(addrSpend[r.owner], day) \in Nat
    BY <1>t, <2>1 DEF TotalOn, State, SpendState
  <2>8. /\ Booked(sw[r.key], spent[r.key], reopened[r.key])
        /\ Booked(addrSpend[r.owner], addrSpent[r.owner], addrReopened[r.owner])
    BY <2>1 DEF CapInv, KeyBooks, AddressBooks
  <2>9. DailyCap[r.key] > 0 =>
          TotalOn(sw[r.key], day) + r.notional <= DailyCap[r.key]
    BY <2>1, <2>2 DEF Accepts, WithinCap
  <2>10. r.addressDailyCap # 0 =>
           /\ r.addressDailyCap = AddrCap[r.owner]
           /\ AddrCap[r.owner] > 0 =>
                TotalOn(addrSpend[r.owner], day) + r.notional <= AddrCap[r.owner]
           /\ NextSpend(addrSpend[r.owner], r).spendDay = day
           /\ NextSpend(addrSpend[r.owner], r).spendTotal
                = TotalOn(addrSpend[r.owner], day) + r.notional
    BY <2>1, <2>2 DEF DecideSpend, NextSpend, WithinCap
  <2>11. r.addressDailyCap = 0 => addrSpend' = addrSpend
    BY <1>t, <2>1, <2>4 DEF NextSpend
  <2> HIDE DEF day, next
  <2>13. /\ spent'[r.key] = [spent[r.key] EXCEPT ![day] = @ + r.notional] /\ sw'[r.key] = next
         /\ reopened'[r.key] = reopened[r.key] \cup Reopens(sw[r.key], day)
    BY <1>t, <2>1, <2>4
  <2>14. \A k \in Key : k # r.key =>
           spent'[k] = spent[k] /\ sw'[k] = sw[k] /\ reopened'[k] = reopened[k]
    BY <1>t, <2>4
  <2>15. KeyBooks'
    <3> SUFFICES ASSUME NEW k \in Key PROVE Booked(sw'[k], spent'[k], reopened'[k])
      BY DEF KeyBooks, Booked
    <3>1. CASE k = r.key
      BY <2>3, <2>5, <2>6, <2>7, <2>8, <2>13, <3>1, BookedCharge
    <3>2. CASE k # r.key
      BY <2>14, <3>2 DEF CapInv, KeyBooks
    <3> QED BY <3>1, <3>2
  <2>16. DailyCapOutsideMidnight'
    <3> SUFFICES ASSUME NEW k \in Key, DailyCap[k] > 0, NEW d \in (0..MaxNow) \ reopened'[k]
                 PROVE  spent'[k][d] <= DailyCap[k]
      BY DEF DailyCapOutsideMidnight
    <3>1. CASE k = r.key /\ d = day
      <4>1. day \in (0..MaxNow) \ reopened[r.key] /\ day \notin Reopens(sw[r.key], day)
        BY <2>13, <3>1
      <4>2. spent[r.key][day] <= TotalOn(sw[r.key], day)
        BY <2>7, <2>8, <4>1, BookedTotal
      <4>3. DailyCap[r.key] \in Int /\ spent[r.key][day] \in Nat
        BY <2>1, <2>6, <2>7
      <4>4. spent'[k][d] = spent[r.key][day] + r.notional
        BY <2>6, <2>7, <2>13, <3>1
      <4>5. TotalOn(sw[r.key], day) + r.notional <= DailyCap[r.key]
        BY <2>9, <3>1
      <4> HIDE DEF day
      <4> QED BY <2>3, <2>7, <3>1, <4>2, <4>3, <4>4, <4>5
    <3>2. CASE k # r.key \/ d # day
      <4>1. spent'[k][d] = spent[k][d] /\ d \in (0..MaxNow) \ reopened[k]
        BY <2>7, <2>13, <2>14, <3>2
      <4> QED BY <4>1 DEF CapInv, DailyCapOutsideMidnight
    <3> QED BY <3>1, <3>2
  <2>17. CASE r.addressDailyCap = 0
    <3>1. UNCHANGED <<addrSpend, addrSpent, addrReopened>>
      BY <2>4, <2>11, <2>17
    <3>2. AddressBooks' /\ AddressCapOutsideMidnight'
      BY <3>1 DEF CapInv, AddressBooks, AddressCapOutsideMidnight, Booked
    <3> QED BY <1>0, <2>15, <2>16, <3>2 DEF CapInv
  <2>18. CASE r.addressDailyCap # 0
    <3>1. /\ addrSpent'[r.owner] = [addrSpent[r.owner] EXCEPT ![day] = @ + r.notional]
          /\ addrSpend'[r.owner] = NextSpend(addrSpend[r.owner], r)
          /\ addrReopened'[r.owner] = addrReopened[r.owner] \cup Reopens(addrSpend[r.owner], day)
      BY <1>t, <2>1, <2>4, <2>18
    <3>2. \A o \in Owner : o # r.owner =>
            /\ addrSpent'[o] = addrSpent[o] /\ addrSpend'[o] = addrSpend[o]
            /\ addrReopened'[o] = addrReopened[o]
      BY <1>t, <2>4, <2>18
    <3>3. AddressBooks'
      <4> SUFFICES ASSUME NEW o \in Owner
                   PROVE  Booked(addrSpend'[o], addrSpent'[o], addrReopened'[o])
        BY DEF AddressBooks, Booked
      <4>1. CASE o = r.owner
        BY <2>3, <2>6, <2>7, <2>8, <2>10, <2>18, <3>1, <4>1, BookedCharge
      <4>2. CASE o # r.owner
        BY <3>2, <4>2 DEF CapInv, AddressBooks
      <4> QED BY <4>1, <4>2
    <3>4. AddressCapOutsideMidnight'
      <4> SUFFICES ASSUME NEW o \in Owner, AddrCap[o] > 0,
                          NEW d \in (0..MaxNow) \ addrReopened'[o]
                   PROVE  addrSpent'[o][d] <= AddrCap[o]
        BY DEF AddressCapOutsideMidnight
      <4>1. CASE o = r.owner /\ d = day
        <5>1. /\ day \in (0..MaxNow) \ addrReopened[r.owner]
              /\ day \notin Reopens(addrSpend[r.owner], day)
          BY <3>1, <4>1
        <5>2. addrSpent[r.owner][day] <= TotalOn(addrSpend[r.owner], day)
          BY <2>7, <2>8, <5>1, BookedTotal
        <5>3. addrSpent[r.owner][day] \in Nat /\ AddrCap[r.owner] \in Int
          BY <2>1, <2>6, <2>7, LedgerAssumption
        <5>4. addrSpent'[o][d] = addrSpent[r.owner][day] + r.notional
          BY <2>6, <2>7, <3>1, <4>1
        <5> QED BY <2>3, <2>7, <2>10, <2>18, <4>1, <5>2, <5>3, <5>4
      <4>2. CASE o # r.owner \/ d # day
        <5>1. addrSpent'[o][d] = addrSpent[o][d] /\ d \in (0..MaxNow) \ addrReopened[o]
          BY <2>7, <3>1, <3>2, <4>2
        <5> QED BY <5>1 DEF CapInv, AddressCapOutsideMidnight
      <4> QED BY <4>1, <4>2
    <3> QED BY <1>0, <2>15, <2>16, <3>3, <3>4 DEF CapInv
  <2> QED BY <2>17, <2>18
<1>2. CASE UNCHANGED <<sw, addrSpend, books>>
  BY <1>0, <1>2
     DEF CapInv, KeyBooks, AddressBooks, DailyCapOutsideMidnight, AddressCapOutsideMidnight,
         Booked, books
<1> QED BY <1>1, <1>2
    DEF Next, Authorize, AuthorizeReplay, Reconcile, LedgerTick, history, books, ledgerVars

LEMMA CapInvariant == Spec => []CapInv
<1>1. CapInv /\ [Next]_ledgerVars => CapInv'
  BY CapStep
<1> QED BY <1>1, CapInit, PTL DEF Spec

\* However late requests are decided after their clock was read, no key is granted
\* more on one UTC day than its cap, except on the days of a request that overtook
\* midnight; for every cap and every mix of retries and rejections.
THEOREM DailyCaps == Spec => []DailyCapOutsideMidnight
<1>1. CapInv => DailyCapOutsideMidnight
  BY DEF CapInv
<1> QED BY <1>1, CapInvariant, PTL

\* The same of every owner address, summed over all the keys that share it.
THEOREM AddressCaps == Spec => []AddressCapOutsideMidnight
<1>1. CapInv => AddressCapOutsideMidnight
  BY DEF CapInv
<1> QED BY <1>1, CapInvariant, PTL

------------------------------------------------------------------------------
(* The ledger implements IntentAuthority. *)

LEMMA AuthorityStart == Init => Authority!AuthorityInit
<1> SUFFICES ASSUME Init PROVE Authority!AuthorityInit
  OBVIOUS
<1>1. \A k \in Key, c \in Cloid : records[k][c] = Absent
  BY DEF Init
<1>2. Absent.status = "absent" /\ IssuedOf(Absent) = Absent
  BY DEF Absent, IssuedOf
<1>3. issuedView = [k \in Key |-> [c \in Cloid |-> Absent]]
  BY <1>1, <1>2 DEF issuedView
<1>4. stageView = [k \in Key |-> [c \in Cloid |-> "absent"]]
  BY <1>1, <1>2 DEF stageView
<1> QED BY <1>3, <1>4 DEF Authority!AuthorityInit

\* A table of tables that differs from another in one entry is that other with
\* the entry replaced.
LEMMA NestedUpdate ==
    ASSUME NEW A, NEW B, NEW f, NEW g,
           f = [a \in A |-> [b \in B |-> f[a][b]]], g = [a \in A |-> [b \in B |-> g[a][b]]],
           NEW k \in A, NEW c \in B, NEW v,
           \A a \in A, b \in B : g[a][b] = IF a = k /\ b = c THEN v ELSE f[a][b]
    PROVE  g = [f EXCEPT ![k][c] = v]
<1> DEFINE h == [f EXCEPT ![k][c] = v]
<1>1. h = [a \in A |-> IF a = k THEN [f[k] EXCEPT ![c] = v] ELSE f[a]]
  OBVIOUS
<1>2. [f[k] EXCEPT ![c] = v] = [b \in B |-> IF b = c THEN v ELSE f[k][b]]
  OBVIOUS
<1> HIDE DEF h
<1>3. ASSUME NEW a \in A PROVE g[a] = h[a]
  <2>1. CASE a = k
    BY <1>1, <1>2, <2>1
  <2>2. CASE a # k
    <3>1. g[a] = [b \in B |-> g[a][b]] /\ f[a] = [b \in B |-> f[a][b]]
      OBVIOUS
    <3>2. h[a] = f[a]
      BY <1>1, <2>2
    <3> QED BY <2>2, <3>1, <3>2
  <2> QED BY <2>1, <2>2
<1> QED BY <1>1, <1>3 DEF h

LEMMA ViewShape ==
    /\ issuedView = [k \in Key |-> [c \in Cloid |-> issuedView[k][c]]]
    /\ stageView = [k \in Key |-> [c \in Cloid |-> stageView[k][c]]]
    /\ issuedView' = [k \in Key |-> [c \in Cloid |-> issuedView'[k][c]]]
    /\ stageView' = [k \in Key |-> [c \in Cloid |-> stageView'[k][c]]]
BY DEF issuedView, stageView

\* What the refinement mapping sees of a record.
LEMMA RecordIsIssued ==
    ASSUME NEW rec, rec # Absent, rec.digest # NoDigest
    PROVE  IssuedOf(rec) # Absent /\ IssuedOf(rec).nonce = rec.nonce
<1>1. IssuedOf(rec) = [digest |-> rec.digest, nonce |-> rec.nonce]
  BY DEF IssuedOf
<1>2. IssuedOf(rec).digest = rec.digest /\ IssuedOf(rec).nonce = rec.nonce
  BY <1>1
<1>3. Absent.digest = NoDigest
  BY DEF Absent
<1> QED BY <1>2, <1>3

LEMMA AuthorityStep ==
    ASSUME NonceInv, Next
    PROVE  [Authority!AuthorityNext]_(Authority!authorityVars)
<1>t. /\ records \in [Key -> [Cloid -> Record \cup {Absent}]]
      /\ TypeOK
  BY DEF NonceInv, TypeOK
<1>s. \A j \in Key, b \in Cloid :
        stageView[j][b] = records[j][b].status /\ issuedView[j][b] = IssuedOf(records[j][b])
  BY DEF stageView, issuedView
<1>p. \A j \in Key, b \in Cloid :
        stageView'[j][b] = records'[j][b].status /\ issuedView'[j][b] = IssuedOf(records'[j][b])
  BY DEF stageView, issuedView
<1>1. ASSUME NEW r \in Request, AuthorizeFresh(r) PROVE Authority!AuthorityNext
  <2> DEFINE k == r.key
             c == r.cloid
             n == Granted(sw[k], r).lastNonce
             rec == [nonce |-> n, digest |-> r.digest, status |-> "signed"]
             new == [digest |-> r.digest, nonce |-> n]
  <2>1. /\ k \in Key /\ c \in Cloid /\ r.digest \in Digest /\ records[k][c] = Absent
        /\ n \in Nat /\ n > sw[k].lastNonce
        /\ records' = [records EXCEPT ![k][c] = rec]
    BY <1>1, <1>t, FreshEffect DEF State
  <2>2. rec # Absent /\ rec.digest = r.digest /\ rec.nonce = n /\ rec.status = "signed"
    BY <2>1, LedgerAssumption DEF Absent
  <2>3. \A b \in Cloid : records[k][b] # Absent => records[k][b].nonce < n
    <3> SUFFICES ASSUME NEW b \in Cloid, records[k][b] # Absent PROVE records[k][b].nonce < n
      OBVIOUS
    <3>1. records[k][b].nonce <= sw[k].lastNonce
      BY <2>1 DEF NonceInv, HighWater
    <3>2. records[k][b].nonce \in Nat /\ sw[k].lastNonce \in Nat
      BY <1>t, <2>1 DEF Record, TypeOK, State
    <3> HIDE DEF n
    <3> QED BY <2>1, <3>1, <3>2
  <2>n. IssuedOf(rec) = new
    BY <2>2 DEF IssuedOf
  <2> HIDE DEF k, c, n, rec
  <2>4. \A j \in Key, b \in Cloid :
          records'[j][b] = IF j = k /\ b = c THEN rec ELSE records[j][b]
    BY <1>t, <2>1
  <2>5. issuedView' = [issuedView EXCEPT ![k][c] = new]
    <3>1. \A j \in Key, b \in Cloid :
            issuedView'[j][b] = IF j = k /\ b = c THEN new ELSE issuedView[j][b]
      BY <1>s, <1>p, <2>4, <2>n
    <3> HIDE DEF new
    <3> QED BY <2>1, <3>1, ViewShape, NestedUpdate
  <2>6. stageView' = [stageView EXCEPT ![k][c] = "signed"]
    <3>1. \A j \in Key, b \in Cloid :
            stageView'[j][b] = IF j = k /\ b = c THEN "signed" ELSE stageView[j][b]
      BY <1>s, <1>p, <2>2, <2>4
    <3> QED BY <2>1, <3>1, ViewShape, NestedUpdate
  <2>7. issuedView[k][c] = Absent /\ issuedView'[k][c] = new
    <3>1. IssuedOf(Absent) = Absent
      BY DEF IssuedOf
    <3>2. issuedView[k][c] = IssuedOf(records[k][c])
      BY <1>s, <2>1
    <3>3. issuedView'[k][c] = IssuedOf(rec)
      BY <1>p, <2>1, <2>4
    <3> HIDE DEF new
    <3> QED BY <2>1, <2>n, <3>1, <3>2, <3>3
  <2>8. new \in [digest : Digest, nonce : Nat] /\ new.nonce = n
    BY <2>1
  <2>9. \A b \in Cloid : issuedView[k][b] # Absent => issuedView[k][b].nonce < n
    <3> SUFFICES ASSUME NEW b \in Cloid, issuedView[k][b] # Absent PROVE issuedView[k][b].nonce < n
      OBVIOUS
    <3>1. records[k][b] # Absent
      BY <1>s, <2>1 DEF IssuedOf
    <3>2. records[k][b].digest # NoDigest
      BY <1>t, <2>1, <3>1, LedgerAssumption DEF Record
    <3> QED BY <1>s, <2>1, <2>3, <3>1, <3>2, RecordIsIssued
  <2> HIDE DEF new
  <2>10. Authority!Issue(k, c)
    BY <2>5, <2>6, <2>7, <2>8, <2>9 DEF Authority!Issue
  <2> QED BY <2>1, <2>10 DEF Authority!AuthorityNext
<1>2. ASSUME NEW k \in Key, NEW c \in Cloid, NEW target \in Report, Reconcile(k, c, target)
      PROVE  [Authority!AuthorityNext]_(Authority!authorityVars)
  <2> DEFINE rec == [records[k][c] EXCEPT !.status = target]
  <2>1. /\ records[k][c] \in Record
        /\ records' = [records EXCEPT ![k][c] = rec]
    BY <1>2, <1>t, ReconcileEffect
  <2>2. rec.digest = records[k][c].digest /\ rec.nonce = records[k][c].nonce
        /\ rec.status = target /\ rec.digest \in Digest
    BY <2>1 DEF Record
  <2>3. rec # Absent /\ records[k][c] # Absent
    BY <1>2, <2>2, LedgerAssumption DEF Absent, Reconcile
  <2>n. IssuedOf(rec) = IssuedOf(records[k][c])
    BY <2>2, <2>3 DEF IssuedOf
  <2> HIDE DEF rec
  <2>4. \A j \in Key, b \in Cloid :
          records'[j][b] = IF j = k /\ b = c THEN rec ELSE records[j][b]
    BY <1>t, <2>1
  <2>5. issuedView' = issuedView
    <3>1. \A j \in Key, b \in Cloid : issuedView'[j][b] = issuedView[j][b]
      BY <1>s, <1>p, <2>4, <2>n
    <3> QED BY <3>1, ViewShape
  <2>6. stageView' = [stageView EXCEPT ![k][c] = target]
    <3>1. \A j \in Key, b \in Cloid :
            stageView'[j][b] = IF j = k /\ b = c THEN target ELSE stageView[j][b]
      BY <1>s, <1>p, <2>2, <2>4
    <3> QED BY <3>1, ViewShape, NestedUpdate
  <2>7. stageView[k][c] = records[k][c].status /\ issuedView[k][c] # Absent
    BY <1>s, <2>2, <2>3, RecordIsIssued, LedgerAssumption
  <2>8. CASE records[k][c].status = target
    <3>1. stageView' = stageView
      BY <2>6, <2>7, <2>8 DEF stageView
    <3> QED BY <2>5, <3>1 DEF Authority!authorityVars
  <2>9. CASE records[k][c].status # target
    <3>1. records[k][c].status \in Open /\ target \in allowedTransitions[records[k][c].status]
      BY <1>2, <2>9 DEF Reconcile, CanTransition
    <3>2. target \in DOMAIN Authority!Rank
          /\ Authority!Rank[stageView[k][c]] < Authority!Rank[target]
      BY <2>7, <3>1 DEF Authority!Rank, Open, Terminal, allowedTransitions
    <3>3. Authority!Advance(k, c, target)
      BY <2>5, <2>6, <2>7, <3>2 DEF Authority!Advance
    <3> QED BY <3>2, <3>3 DEF Authority!AuthorityNext
  <2> QED BY <2>8, <2>9
<1>3. CASE records' = records
  BY <1>3 DEF Authority!authorityVars, issuedView, stageView
<1> QED BY <1>1, <1>2, <1>3 DEF Next, Authorize, AuthorizeReplay, LedgerTick

\* Whatever fences, clocks, caps and retries do, the ledger behaves as the
\* abstract authority: every cloid is issued once, with a nonce above all the
\* key's earlier ones, and its lifecycle only advances.
THEOREM Refinement == Spec => ImplementsAuthority
<1>1. NonceInv /\ [Next]_ledgerVars => [Authority!AuthorityNext]_(Authority!authorityVars)
  <2>1. NonceInv /\ Next => [Authority!AuthorityNext]_(Authority!authorityVars)
    BY AuthorityStep
  <2>2. UNCHANGED ledgerVars => UNCHANGED Authority!authorityVars
    BY DEF ledgerVars, Authority!authorityVars, issuedView, stageView
  <2> QED BY <2>1, <2>2
<1>2. Spec => Authority!AuthoritySpec
  BY <1>1, AuthorityStart, NonceInvariant, PTL DEF Spec, Authority!AuthoritySpec
<1> QED BY <1>2 DEF ImplementsAuthority
=============================================================================
