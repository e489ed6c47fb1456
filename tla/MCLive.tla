------------------------------- MODULE MCLive -------------------------------
(* Components that share no state and must recover or settle in the end -      *)
(* leadership, the maker grid, push notifications, the app's wallet and its    *)
(* account screens - checked side by side: a behaviour follows one of them,    *)
(* its part, and the others keep their initial state.  Each part has the       *)
(* fairness of its own specification.                                          *)
EXTENDS Leader, GridLimit, Push, Wallet, Monitor

VARIABLE part

MCQuiet == [enabled : {TRUE}, start : {1, 3}, end : {1, 3}]

\* Where a component may start in several states, the parts that do not follow it
\* start in one.
Fixed ==
  /\ part # "push" => /\ quiet = [o \in PushOwner |-> CHOOSE q \in QuietChoices : TRUE]
                      /\ optedOut = {}
  /\ part # "monitor" => load = "panel" /\ view = CHOOSE v \in View : TRUE

LiveInit ==
  /\ part \in {"leader", "grid", "push", "wallet", "monitor"}
  /\ LeaderInit /\ GridInit /\ PushInit /\ WalletInit /\ MonitorInit
  /\ Fixed

LiveNext ==
  /\ UNCHANGED part
  /\ \/ /\ part = "leader" /\ LeaderNext
        /\ UNCHANGED <<gridVars, pushVars, walletVars, monitorVars>>
     \/ /\ part = "grid" /\ GridNext
        /\ UNCHANGED <<leaderVars, pushVars, walletVars, monitorVars>>
     \/ /\ part = "push" /\ PushNext
        /\ UNCHANGED <<leaderVars, gridVars, walletVars, monitorVars>>
     \/ /\ part = "wallet" /\ WalletNext
        /\ UNCHANGED <<leaderVars, gridVars, pushVars, monitorVars>>
     \/ /\ part = "monitor" /\ MonitorNext
        /\ UNCHANGED <<leaderVars, gridVars, pushVars, walletVars>>

\* The fairness of LeaderFairSpec, GridFairness, PushFairness, WalletFairness and
\* MonitorFairness, each for its part.
LiveFairness ==
  /\ WF_leaderVars(part = "leader" /\ ClockTick)
  /\ \A i \in Instance : /\ WF_leaderVars(part = "leader" /\ Loop(i))
                         /\ WF_leaderVars(part = "leader" /\ Restart(i))
  /\ \A t \in GridTick : WF_gridVars(part = "grid" /\ TickStep(t))
  /\ WF_pushVars(part = "push" /\ PollBegin)
  /\ SF_pushVars(part = "push" /\ \E ready \in SUBSET (1..BatchLimit) : PollEnd(ready))
  /\ \A h \in Handler : WF_walletVars(part = "wallet" /\ HandlerStep(h))
  /\ SF_walletVars(part = "wallet" /\ WayIn)
  /\ SF_walletVars(part = "wallet" /\ Relaunch)
  /\ WF_monitorVars(part = "monitor" /\ \E r \in requests : answersRequest(r))
  /\ WF_monitorVars(part = "monitor" /\ \E r \in requests : AnswerDelivered(r))
  /\ WF_monitorVars(part = "monitor" /\ subscribe)
  /\ WF_monitorVars(part = "monitor" /\ timerFires)
  /\ WF_monitorVars(part = "monitor" /\ \E n \in Tids(Slices) : n > pushed /\ onSlice(n))

LiveSpec ==
  /\ LiveInit
  /\ [][LiveNext]_<<part, leaderVars, gridVars, pushVars, walletVars, monitorVars>>
  /\ LiveFairness

-----------------------------------------------------------------------------
\* LeadershipRecovers where the leader loop is followed: the faults over, one
\* instance leads under the lease's epoch for good.
LeadershipReturns == <>[](part = "leader" => Led)

\* CanGetBackIn where the wallet is followed: nobody is locked out for good.
NobodyIsLockedOut == []<>(part = "wallet" => LetIn)
=============================================================================
