---------------------------- MODULE MCScheduler ----------------------------
(***************************************************************************)
(* One owner with strategies of every kind; a run picks the ones it needs  *)
(* with Strategy and Walk.  Every order is worth 1.                        *)
(***************************************************************************)
EXTENDS Scheduler, TLC

CONSTANTS dca, twap, sched, cond, o1

MCKindOf == [s \in Strategy |->
    CASE s = dca -> "dca" [] s = twap -> "twap" [] s = sched -> "scheduled" [] s = cond -> "conditional"]
MCOwnerOf == [s \in Strategy |-> o1]
MCUsdc == [s \in Strategy |-> 1]
MCFillSizes == [s \in Strategy |-> {1}]
MCOne == [s \in Strategy |-> 1]
MCTwo == [s \in Strategy |-> 2]
MCZero == [s \in Strategy |-> 0]
MCWalk == <<twap, cond>>
MCWalkCap == <<dca, sched>>

Interchangeable == Permutations(Tick)
=============================================================================
