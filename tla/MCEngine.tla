------------------------------ MODULE MCEngine ------------------------------
(* The engine's components that share no state, checked side by side: a        *)
(* behaviour follows one of them, its part, and the others keep their initial  *)
(* state.  The scheduler walks the strategies of MCScheduler.  Of those that   *)
(* follow a position, a take-profit/stop-loss and a trailing stop share the    *)
(* position on x, and a symmetric and a long grid trade y from flat.           *)
EXTENDS MCScheduler, DeadMan, Auth, AgentCustody, AppFee, Positions

CONSTANTS tpsl, trail, grid, long

VARIABLE part

MCWalletOf == [d \in Device |-> "A"]
MCPosStrategy == <<tpsl, trail, grid, long>>
MCPosKind == [s \in {tpsl, trail, grid, long} |->
                CASE s = tpsl -> "tpsl" [] s = trail -> "trailing"
                  [] s = grid -> "grid" [] s = long -> "longGrid"]
MCCoinOf == [s \in {tpsl, trail, grid, long} |-> IF s \in {grid, long} THEN "y" ELSE "x"]
MCInitialPosition == [c \in {"x", "y"} |-> IF c = "x" THEN {2} ELSE {0}]

\* Where a component may start in several states, the parts that do not follow it
\* start in one.
Fixed ==
  /\ part # "deadman" => /\ ttl = CHOOSE t \in TtlChoices : TRUE
                         /\ wants = [o \in DmOwner |-> "none"]
  /\ part # "fee" => feeOk

allFeeVars == <<feeVars, appFeeVars>>

EngineInit ==
  /\ part \in {"scheduler", "deadman", "auth", "custody", "fee", "positions"}
  /\ SchedulerInit /\ DmInit /\ AuthInit /\ AgentInit /\ FeeInit /\ AppFeeInit /\ PosInit
  /\ Fixed

EngineNext ==
  /\ UNCHANGED part
  /\ \/ part = "scheduler" /\ SchedulerNext
        /\ UNCHANGED <<dmVars, authVars, agentVars, allFeeVars, posVars>>
     \/ part = "deadman" /\ DmNext
        /\ UNCHANGED <<vars, authVars, agentVars, allFeeVars, posVars>>
     \/ part = "auth" /\ AuthNext
        /\ UNCHANGED <<vars, dmVars, agentVars, allFeeVars, posVars>>
     \/ part = "custody" /\ AgentNext
        /\ UNCHANGED <<vars, dmVars, authVars, allFeeVars, posVars>>
     \/ part = "fee" /\ AppFeeNext
        /\ UNCHANGED <<vars, dmVars, authVars, agentVars, posVars>>
     \/ part = "positions" /\ PosNext
        /\ UNCHANGED <<vars, dmVars, authVars, agentVars, allFeeVars>>

EngineSpec ==
  EngineInit /\ [][EngineNext]_<<part, vars, dmVars, authVars, agentVars, allFeeVars, posVars>>
=============================================================================
