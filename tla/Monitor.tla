------------------------------ MODULE Monitor ------------------------------
(* The account screens of the app: the Positions tab and the account panels of *)
(* the Trade tab.  Each loads an account's state over HTTP; the Positions tab  *)
(* also follows the slice fills of a running TWAP over a websocket.            *)
(*                                                                             *)
(* A view is what a load is about: a wallet address on a network.  Changing    *)
(* either re-runs every effect; effectRun counts those runs, so an effect that *)
(* has been cleaned up is one of an earlier run.  A request is read by the     *)
(* exchange and later delivered to the screen, so answers may overtake each    *)
(* other and may report a state that has moved on.                             *)
(*                                                                             *)
(* The exchange runs one TWAP of Slices equal slices per view.                 *)
EXTENDS Naturals, FiniteSets

CONSTANTS View, Slices, MaxMonEvents

ASSUME MonitorAssumption ==
  /\ View # {} /\ Slices \in Nat \ {0}
  /\ MaxMonEvents \in Nat

VARIABLES
  executed,     \* slices of the TWAP the exchange has executed, per view
  running,      \* views whose TWAP is still activated
  load,         \* the load this behaviour follows (the loads share no state)
  view, effectRun,  \* the wallet and network on screen; effect runs so far
  requests,     \* HTTP requests in flight
  portfolio,    \* the epoch the Positions tab's positions and orders came from
  twaps,        \* the TWAP list on screen: its view and the executed size shown
  sliceFills,   \* slice fills on screen: their view and tids
  panel,        \* the epoch the Trade tab's account panels came from
  sub,          \* slice subscription: "opening", "open" or "failed"
  pushed,       \* slice fills the subscription has sent so far
  reconcileTimer,
  lastFailed,   \* the newest TWAP load failed
  monEvents     \* taps, switches and failures so far (bound)

onScreen == <<portfolio, twaps, sliceFills, panel>>
exchange == <<executed, running>>
monitorVars == <<exchange, load, view, effectRun, requests, onScreen, sub, pushed, reconcileTimer,
                 lastFailed, monEvents>>

------------------------------------------------------------------------------
\* The loads of runQuery (positions and orders; TWAPs, whose answer asks for the
\* slice fills too) and those of the account panels.  The debounced reload is a
\* "refetch".
Loads == {"account", "twaps", "panel"}

\* A request the exchange has not read yet, or what it read: slices executed and
\* whether the TWAP is still activated.
Unread == [executed |-> 0, active |-> FALSE, read |-> FALSE]
LoadRequest(kind) == [kind |-> kind, view |-> view, epoch |-> effectRun, answer |-> Unread]
QueryRequests == {LoadRequest(k) : k \in {load} \ {"panel"}}
Tids(n) == 1..n

MonitorInit ==
  /\ executed = [v \in View |-> 0]
  /\ running = View
  /\ load \in Loads
  /\ view \in View
  /\ effectRun = 1
  /\ requests = {LoadRequest(load)}
  /\ portfolio = 0 /\ panel = 0
  /\ twaps = [view |-> view, epoch |-> 0, active |-> FALSE, executed |-> 0]
  /\ sliceFills = {}
  /\ sub = (IF load = "twaps" THEN "opening" ELSE "failed") /\ pushed = 0
  /\ reconcileTimer = FALSE
  /\ lastFailed = FALSE
  /\ monEvents = 0

------------------------------------------------------------------------------
Happens == monEvents < MaxMonEvents /\ monEvents' = monEvents + 1

\* The exchange executes a slice.
sliceExecutes(v) ==
  /\ load = "twaps" /\ v \in running /\ executed[v] < Slices
  /\ executed' = [executed EXCEPT ![v] = @ + 1]
  /\ running' = IF executed[v] + 1 = Slices THEN running \ {v} ELSE running
  /\ UNCHANGED <<load, view, effectRun, requests, onScreen, sub, pushed, reconcileTimer, lastFailed,
                 monEvents>>

\* The exchange answers a request with its state of that moment.
answersRequest(r) ==
  /\ ~r.answer.read
  /\ requests' = (requests \ {r}) \cup
       {[r EXCEPT !.answer = [executed |-> executed[r.view], active |-> r.view \in running,
                              read |-> TRUE]]}
  /\ UNCHANGED <<exchange, load, view, effectRun, onScreen, sub, pushed, reconcileTimer, lastFailed,
                 monEvents>>

\* The wallet or the network changes: the query runs for the new view, the slice
\* effect is cleaned up and set up again, the panels' effects likewise.  What is
\* on screen stays there until an answer replaces it.
switchView ==
  /\ Happens
  /\ view' \in View \ {view}
  /\ effectRun' = effectRun + 1
  /\ requests' = requests \cup
       {[kind |-> load, view |-> view', epoch |-> effectRun', answer |-> Unread]}
  /\ sub' = (IF load = "twaps" THEN "opening" ELSE sub) /\ pushed' = 0
  /\ reconcileTimer' = FALSE
  /\ UNCHANGED <<exchange, load, onScreen, lastFailed>>

\* A load started by a tap: Retry, or the reload after a close or a cancel.
runQuery ==
  /\ Happens
  /\ requests' = requests \cup QueryRequests
  /\ UNCHANGED <<exchange, load, view, effectRun, onScreen, sub, pushed, reconcileTimer, lastFailed>>

\* Cancelling a TWAP listed as active: the current account's ends at the exchange,
\* and the screen reloads; or nothing is cancelled, and the screen reloads after an
\* uncertain answer but not after a refusal.
cancelTwap ==
  /\ Happens
  /\ twaps.active
  /\ \/ /\ running' = IF twaps.view = view THEN running \ {view} ELSE running
        /\ requests' = requests \cup QueryRequests
     \/ UNCHANGED running /\ requests' \in {requests, requests \cup QueryRequests}
  /\ UNCHANGED <<executed, load, view, effectRun, onScreen, sub, pushed, reconcileTimer, lastFailed>>

------------------------------------------------------------------------------
\* The TWAP list of an answer: an activated TWAP is listed as active and a
\* finished one in the history, each with its executed size.
listed(r) == [view |-> r.view, epoch |-> r.epoch, active |-> r.answer.active,
              executed |-> r.answer.executed]

Done(r) == /\ r.answer.read
           /\ requests' = requests \ {r}

\* The positions and open orders: nothing asks whether the view is still current.
setPortfolio(r) ==
  /\ r.kind = "account" /\ Done(r)
  /\ portfolio' = r.epoch
  /\ UNCHANGED <<exchange, load, view, effectRun, twaps, sliceFills, panel, sub, pushed,
                 reconcileTimer, lastFailed, monEvents>>

\* The TWAPs, and with them the request for their slice fills.
setTwaps(r) ==
  /\ r.kind = "twaps" /\ r.answer.read
  /\ twaps' = listed(r)
  /\ lastFailed' = FALSE
  /\ requests' = (requests \ {r}) \cup {[r EXCEPT !.kind = "slices", !.answer = Unread]}
  /\ UNCHANGED <<exchange, load, view, effectRun, portfolio, sliceFills, panel, sub, pushed,
                 reconcileTimer, monEvents>>

\* loadSliceFillsByTime pages forward from the start and drops duplicates; what
\* it found replaces the fills on screen, the ones the websocket added included.
setSliceFills(r) ==
  /\ r.kind = "slices" /\ Done(r)
  /\ sliceFills' = {[view |-> r.view, tid |-> n] : n \in Tids(r.answer.executed)}
  /\ UNCHANGED <<exchange, load, view, effectRun, portfolio, twaps, panel, sub, pushed,
                 reconcileTimer, lastFailed, monEvents>>

\* The debounced reload's answer, dropped once its effect was cleaned up.
refetched(r) ==
  /\ r.kind = "refetch" /\ Done(r)
  /\ IF r.epoch = effectRun THEN twaps' = listed(r) /\ lastFailed' = FALSE
                        ELSE UNCHANGED <<twaps, lastFailed>>
  /\ UNCHANGED <<exchange, load, view, effectRun, portfolio, sliceFills, panel, sub, pushed,
                 reconcileTimer, monEvents>>

\* Whether an answer of the account panels is still wanted: the effect that asked
\* has not been cleaned up.
\* Mutant: the effect sets its state without asking.
active_Unguarded(r) == TRUE

active(r) == r.epoch = effectRun

setPanel(r) ==
  /\ r.kind = "panel" /\ Done(r)
  /\ panel' = IF active(r) THEN r.epoch ELSE panel
  /\ UNCHANGED <<exchange, load, view, effectRun, portfolio, twaps, sliceFills, sub, pushed,
                 reconcileTimer, lastFailed, monEvents>>

\* A request fails: the screen keeps what it has and shows an error, or nothing.
loadFails(r) ==
  /\ Happens
  /\ requests' = requests \ {r}
  /\ lastFailed' = (lastFailed \/ (r.kind \in {"twaps", "refetch"} /\ r.epoch = effectRun))
  /\ UNCHANGED <<exchange, load, view, effectRun, onScreen, sub, pushed, reconcileTimer>>

------------------------------------------------------------------------------
\* The slice subscription opens, or fails and leaves an error on screen.
subscribe ==
  /\ sub = "opening"
  /\ \/ sub' = "open" /\ UNCHANGED monEvents
     \/ sub' = "failed" /\ Happens
  /\ UNCHANGED <<exchange, load, view, effectRun, requests, onScreen, pushed, reconcileTimer,
                 lastFailed>>

\* The websocket sends slice fills up to the n-th: the first message is a snapshot,
\* and a message may repeat fills sent before.  Fills already known are dropped;
\* fresh ones are added, bump the size shown for their active TWAP and start the
\* timer.
Fresh(n) == {f \in [view : {view}, tid : Tids(n)] : f \notin sliceFills}
Smaller(a, b) == IF a <= b THEN a ELSE b

\* Mutant: the size is bumped and no reload is scheduled.
Restarted_Never == reconcileTimer

Restarted == TRUE

onSlice(n) ==
  /\ sub = "open" /\ n \in Tids(executed[view])
  /\ pushed' = IF n > pushed THEN n ELSE pushed
  /\ IF Fresh(n) = {}
     THEN UNCHANGED <<twaps, sliceFills, reconcileTimer>>
     ELSE /\ sliceFills' = sliceFills \cup Fresh(n)
          /\ twaps' = IF twaps.view = view /\ twaps.active
                      THEN [twaps EXCEPT !.executed =
                              Smaller(Slices, @ + Cardinality(Fresh(n)))]
                      ELSE twaps
          /\ reconcileTimer' = Restarted
  /\ UNCHANGED <<exchange, load, view, effectRun, requests, portfolio, panel, sub, lastFailed,
                 monEvents>>

\* The timer fires 1.5 s after the newest fresh fill.  A request answers within
\* that time: the ones of this view that were in flight have been delivered.
timerFires ==
  /\ reconcileTimer
  /\ \A r \in requests : r.epoch = effectRun => r.kind \notin {"twaps", "refetch"}
  /\ reconcileTimer' = FALSE
  /\ requests' = requests \cup {LoadRequest("refetch")}
  /\ UNCHANGED <<exchange, load, view, effectRun, onScreen, sub, pushed, lastFailed, monEvents>>

------------------------------------------------------------------------------
AnswerDelivered(r) ==
  setPortfolio(r) \/ setTwaps(r) \/ setSliceFills(r) \/ refetched(r) \/ setPanel(r)

MonitorNext ==
  \/ \E v \in View : sliceExecutes(v)
  \/ switchView \/ runQuery \/ cancelTwap \/ subscribe \/ timerFires
  \/ \E n \in Tids(Slices) : onSlice(n)
  \/ \E r \in requests :
       \/ answersRequest(r) \/ setPortfolio(r) \/ setTwaps(r) \/ setSliceFills(r) \/ refetched(r)
       \/ setPanel(r) \/ loadFails(r)

\* The exchange answers, answers arrive, an open subscription sends every fill and
\* a timer fires; slices, taps and failures need never happen.
MonitorFairness ==
  /\ WF_monitorVars(\E r \in requests : answersRequest(r))
  /\ WF_monitorVars(\E r \in requests : AnswerDelivered(r))
  /\ WF_monitorVars(subscribe)
  /\ WF_monitorVars(timerFires)
  /\ WF_monitorVars(\E n \in Tids(Slices) : n > pushed /\ onSlice(n))

MonitorSpec == MonitorInit /\ [][MonitorNext]_monitorVars /\ MonitorFairness

------------------------------------------------------------------------------
ListIsCurrent == twaps.epoch = effectRun /\ ~lastFailed /\ sub = "open"

\* A fill the loaded list already counts is counted again when its message comes
\* before the slice details.  The reload each bump schedules puts that right: the
\* size on screen does not stay above what the exchange executed.
OvercountSettles == <>[](ListIsCurrent => twaps.executed <= executed[view])

\* The account panels of the Trade tab never go back to what an earlier wallet or
\* network was answered: a late answer does not replace a newer view's.
PanelNeverGoesBack == [][panel' >= panel]_monitorVars
==============================================================================
