------------------------------ MODULE MCMobile ------------------------------
(* The app's components that share no state, checked side by side: a behaviour *)
(* follows one of them, its part, and the others keep their initial state.     *)
EXTENDS Intents, Ticket, Funds, StrategyForms, Feeds, Routing, ManualDeadMan,
        PushSettings, TLC

VARIABLE part

MCTyped == {-2, 1, 4, 6, 200}
MCHash == [u \in RouteUser |-> IF u = "nobody" THEN 0 ELSE -3]
MCPool == <<Host("https", "p", "/"), Host("https", "q", "bare")>>

\* Client order ids and call slots are interchangeable.
MCSymmetry == Permutations(Cloid) \cup Permutations(Call)

\* Where a component may start in several states, the parts that do not follow it
\* start in one.
Fixed ==
  /\ part # "intents" => net = CHOOSE n \in Network : TRUE
  /\ part # "feeds" => /\ feedNet = CHOOSE n \in FeedNet : TRUE
                       /\ ticketCoin = CHOOSE c \in FeedCoin : TRUE
  /\ part # "routing" => mode = "auto" /\ user = "nobody"
  /\ part # "deadman" => ttlSetting = CHOOSE t \in TtlOption : TRUE
  /\ part # "push" => psOwner = CHOOSE o \in PsOwner : TRUE

MobileInit ==
  /\ part \in {"intents", "ticket", "funds", "forms", "feeds", "routing", "deadman",
             "push"}
  /\ IntentInit /\ TicketInit /\ FundInit /\ FormInit
  /\ FeedInit /\ RoutingInit /\ ManualDeadManInit /\ PushSettingsInit
  /\ Fixed

MobileNext ==
  /\ UNCHANGED part
  /\ \/ /\ part = "intents" /\ IntentNext
        /\ UNCHANGED <<ticketVars, fundVars, formVars, feedVars, routeVars, mdVars, psVars>>
     \/ /\ part = "ticket" /\ TicketNext
        /\ UNCHANGED <<intentVars, fundVars, formVars, feedVars, routeVars, mdVars, psVars>>
     \/ /\ part = "funds" /\ FundNext
        /\ UNCHANGED <<intentVars, ticketVars, formVars, feedVars, routeVars, mdVars, psVars>>
     \/ /\ part = "forms" /\ FormNext
        /\ UNCHANGED <<intentVars, ticketVars, fundVars, feedVars, routeVars, mdVars, psVars>>
     \/ /\ part = "feeds" /\ FeedNext
        /\ UNCHANGED <<intentVars, ticketVars, fundVars, formVars, routeVars, mdVars, psVars>>
     \/ /\ part = "routing" /\ RoutingNext
        /\ UNCHANGED <<intentVars, ticketVars, fundVars, formVars, feedVars, mdVars, psVars>>
     \/ /\ part = "deadman" /\ ManualDeadManNext
        /\ UNCHANGED <<intentVars, ticketVars, fundVars, formVars, feedVars, routeVars, psVars>>
     \/ /\ part = "push" /\ PushSettingsNext
        /\ UNCHANGED <<intentVars, ticketVars, fundVars, formVars, feedVars, routeVars, mdVars>>

MobileSpec ==
  MobileInit /\ [][MobileNext]_<<part, intentVars, ticketVars, fundVars, formVars, feedVars,
                                 routeVars, mdVars, psVars>>
=============================================================================
