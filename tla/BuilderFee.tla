----------------------------- MODULE BuilderFee -----------------------------
(***************************************************************************)
(* The engine's builder-fee gate for one owner (server/src/agent/          *)
(* builderInjector.ts, wrapClientWithBuilder in hlRuntime.ts).  Every      *)
(* order asks builderFor first: an answer still in the cache decides at    *)
(* once, otherwise the exchange is asked, and the answer travels while     *)
(* other orders ask too and the owner changes the approval on chain.       *)
(***************************************************************************)
EXTENDS Integers, FiniteSets

CONSTANTS
  FeeCall,      \* orders that may wait for an answer at the same time
  PositiveTtl,  \* positiveTtlMs
  NegativeTtl,  \* negativeTtlMs
  MaxLatency,   \* bound on how long a query takes
  MaxFeeTime,   \* bound on the clock
  MaxFlips      \* bound on the owner's changes of mind

ASSUME BuilderFeeAssumption ==
  /\ {PositiveTtl, NegativeTtl} \subseteq Nat \ {0}
  /\ {MaxLatency, MaxFeeTime, MaxFlips} \subseteq Nat
  /\ MaxLatency < PositiveTtl

VARIABLES
  feeTime,   \* now()
  feeOk,     \* the owner's maxBuilderFee covers perpFeeTenthBps, on chain
  feeHeld,   \* the last time it did
  feeCache,  \* the cache entry, NoFee when absent
  waiting,   \* call -> when it asked and what the exchange answered
  late,      \* for the order placed last: how long before the approval held,
             \* 0 when it carries no builder
  flips

feeVars == <<feeTime, feeOk, feeHeld, feeCache, waiting, late, flips>>

NoFee  == [approved |-> "no", at |-> 0 - NegativeTtl]
NoCall == [at |-> 0, answer |-> "none"]

FeeInit ==
  /\ feeTime = 0
  /\ feeOk \in BOOLEAN
  /\ feeHeld = IF feeOk THEN 0 ELSE 0 - PositiveTtl
  /\ feeCache = NoFee
  /\ waiting = [c \in FeeCall |-> NoCall]
  /\ late = 0 /\ flips = 0

(* Mutant: an approval, once seen, is never asked for again. *)
fresh_Forever(t) == feeCache.approved = "yes" \/ t - feeCache.at < NegativeTtl

(* A cached answer stands for the time its kind is given. *)
fresh(t) == t - feeCache.at < (IF feeCache.approved = "yes" THEN PositiveTtl ELSE NegativeTtl)

(* The order goes out, with the builder attached or not. *)
Attach(approved) == late' = IF approved = "yes" THEN feeTime - feeHeld ELSE 0

(* builderFor up to its await. *)
builderFor(c) ==
  /\ waiting[c] = NoCall
  /\ IF fresh(feeTime)
     THEN Attach(feeCache.approved) /\ UNCHANGED waiting
     ELSE waiting' = [waiting EXCEPT ![c] = [at |-> feeTime, answer |-> "asked"]] /\ UNCHANGED late
  /\ UNCHANGED <<feeTime, feeOk, feeHeld, feeCache, flips>>

(* The exchange answers as the chain stands, or the query throws, which    *)
(* counts as not approved; the answer has yet to arrive.                   *)
maxBuilderFee(c, answer) ==
  /\ waiting[c].answer = "asked"
  /\ answer = "yes" => feeOk
  /\ waiting' = [waiting EXCEPT ![c].answer = answer]
  /\ UNCHANGED <<feeTime, feeOk, feeHeld, feeCache, late, flips>>

(* The entry is dated when the question was asked. *)
entry(c) == [approved |-> waiting[c].answer, at |-> waiting[c].at]

(* builderFor after its await: the answers of overlapping calls overwrite  *)
(* one another in the order in which they arrive.                          *)
Answered(c) ==
  /\ waiting[c].answer \in {"yes", "no"}
  /\ feeCache' = entry(c)
  /\ Attach(waiting[c].answer)
  /\ waiting' = [waiting EXCEPT ![c] = NoCall]
  /\ UNCHANGED <<feeTime, feeOk, feeHeld, flips>>

(* approveBuilderFee by the owner, or a revoked or lowered approval. *)
approveBuilderFee ==
  /\ flips < MaxFlips /\ flips' = flips + 1
  /\ feeOk' = ~feeOk
  /\ feeHeld' = feeTime
  /\ UNCHANGED <<feeTime, feeCache, waiting, late>>

(* The engine restarts with an empty cache. *)
FeeRestart ==
  /\ feeCache' = NoFee
  /\ waiting' = [c \in FeeCall |-> NoCall]
  /\ UNCHANGED <<feeTime, feeOk, feeHeld, late, flips>>

FeeTime ==
  /\ feeTime < MaxFeeTime
  /\ \A c \in FeeCall : waiting[c] # NoCall => feeTime - waiting[c].at < MaxLatency
  /\ feeTime' = feeTime + 1
  /\ feeHeld' = IF feeOk THEN feeTime + 1 ELSE feeHeld
  /\ UNCHANGED <<feeOk, feeCache, waiting, late, flips>>

FeeNext ==
  \/ \E c \in FeeCall : \/ builderFor(c) \/ Answered(c)
                        \/ \E a \in {"yes", "no"} : maxBuilderFee(c, a)
  \/ approveBuilderFee \/ FeeRestart \/ FeeTime

FeeSpec == FeeInit /\ [][FeeNext]_feeVars

=============================================================================
