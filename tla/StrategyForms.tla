---------------------------- MODULE StrategyForms ----------------------------
(* The strategy panel of the app's Agent tab and the handlers it calls: the    *)
(* eight creation forms, the JSON that carries their numbers, the server's     *)
(* validation, the switches of the strategy list, and the list itself, which   *)
(* is reloaded after every call that succeeds.                                 *)
(*                                                                             *)
(* A form and the server each check the parameters with rules of their own; a  *)
(* refusal by the server surfaces nowhere in the panel, since the promise of   *)
(* the tap is dropped.  A number typed is counted in halves, so that a value   *)
(* that is not an integer is among them; what the keyboard also admits is      *)
(* Infinity and text that is no number.                                        *)
EXTENDS Integers, FiniteSets

CONSTANTS
  TypedNumber,   \* the numbers typed into the fields, in halves
  MaxPanelTaps, MaxStrategies   \* bounds

ASSUME FormsAssumption ==
  /\ TypedNumber \subseteq Int
  /\ MaxPanelTaps \in Nat /\ MaxStrategies \in Nat

VARIABLES
  template, fields,  \* the form on screen and its numeric fields, in form order
  formCoin,          \* the coin field all forms share: "named", or "unnamed" when empty
  store,             \* the server's strategies: id -> [kind, status]
  shown,             \* the list on screen
  apiCalls,          \* calls of the panel that have not ended
  panelTaps          \* taps so far (bound)

formVars == <<template, fields, formCoin, store, shown, apiCalls, panelTaps>>

------------------------------------------------------------------------------
\* What a field holds: nothing, a number, Infinity, or no number.
Empty == [is |-> "empty", n |-> 0]
Num(k) == [is |-> "num", n |-> k]
Infinite == [is |-> "inf", n |-> 0]
NaN == [is |-> "nan", n |-> 0]
FieldValue == {Empty, Infinite, NaN} \cup {Num(k) : k \in TypedNumber}

\* Number() of a field: the empty text is 0.
Number(f) == IF f = Empty THEN Num(0) ELSE f

\* x > y, which is false as soon as one of them is no number.
Exceeds(x, y) ==
  /\ NaN \notin {x, y}
  /\ \/ x.is = "inf" /\ y.is = "num"
     \/ x.is = "num" /\ y.is = "num" /\ x.n > y.n
Positive(x) == Exceeds(x, Num(0))
IsInteger(x) == x.is = "num" /\ x.n % 2 = 0
AtLeast(x, k) == IsInteger(x) /\ x.n >= 2 * k
Below100(x) == Exceeds(Num(200), x)

Template == {"dca", "twap", "tpsl", "grid", "gridLimit", "trailing", "conditional", "scheduled"}
FieldsOf(k) == CASE k \in {"grid", "gridLimit"} -> 4
                 [] k = "twap" -> 3
                 [] k = "trailing" -> 1
                 [] OTHER -> 2

\* The check of each creation form.
gridFormOk(f) ==
  /\ Positive(Number(f[1])) /\ Exceeds(Number(f[2]), Number(f[1]))
  /\ AtLeast(Number(f[3]), 2) /\ Positive(Number(f[4]))
tpslFormOk(f) ==
  /\ \E i \in 1..2 : f[i] # Empty
  /\ \A i \in 1..2 : f[i] # Empty => Positive(Number(f[i]))
\* Mutant: the slice count is only checked to be positive.
twapFormOk_AnySlices(f) == \A i \in 1..3 : Positive(Number(f[i]))

twapFormOk(f) ==
  Positive(Number(f[1])) /\ AtLeast(Number(f[2]), 1) /\ Positive(Number(f[3]))
formOk(k, f) ==
  CASE k = "twap" -> twapFormOk(f)
    [] k = "tpsl" -> tpslFormOk(f)
    [] k \in {"grid", "gridLimit"} -> gridFormOk(f)
    [] k = "trailing" -> Positive(Number(f[1])) /\ Below100(Number(f[1]))
    [] OTHER -> Positive(Number(f[1])) /\ Positive(Number(f[2]))

\* The request body.  An empty optional price is left out; JSON writes null for
\* what is not a finite number.  A delay becomes a rounded point in time.
Null == [is |-> "null", n |-> 0]
json(x) == IF x.is \in {"inf", "nan"} THEN Null ELSE x
Now == 10
body(k, f) ==
  [i \in 1..FieldsOf(k) |->
     CASE k = "tpsl" /\ f[i] = Empty -> Empty
       [] k = "scheduled" /\ i = 2 /\ Number(f[i]).is = "num" -> Num(2 * (Now + Number(f[i]).n))
       [] OTHER -> json(Number(f[i]))]

\* validateParams: null, or a price left out where it is required, is no number.
positiveNumber(v) == v.is = "num" /\ v.n > 0
positiveInteger(v) == positiveNumber(v) /\ IsInteger(v)
gridParamsOk(b) ==
  /\ positiveNumber(b[1])
  /\ positiveNumber(b[2]) /\ Exceeds(b[2], b[1])
  /\ positiveInteger(b[3]) /\ AtLeast(b[3], 2)
  /\ positiveNumber(b[4])
tpslParamsOk(b) ==
  /\ \E i \in 1..2 : b[i] # Empty
  /\ \A i \in 1..2 : b[i] # Empty => positiveNumber(b[i])
validateParams(k, name, b) ==
  /\ name # "unnamed"
  /\ CASE k = "dca" -> positiveNumber(b[1]) /\ positiveNumber(b[2])
       [] k = "twap" -> positiveNumber(b[1]) /\ positiveInteger(b[2]) /\ positiveNumber(b[3])
       [] k = "tpsl" -> tpslParamsOk(b)
       [] k \in {"grid", "gridLimit"} -> gridParamsOk(b)
       [] k = "trailing" -> positiveNumber(b[1]) /\ Below100(b[1])
       [] k = "conditional" -> positiveNumber(b[1]) /\ positiveNumber(b[2])
       [] k = "scheduled" -> positiveNumber(b[1]) /\ positiveInteger(b[2])

------------------------------------------------------------------------------
NoStrategy == [kind |-> "none", status |-> "absent"]
Ids == 1..MaxStrategies
Exists(i) == store[i].status # "absent"

\* What a form starts from: an interval of 24 hours, 6 slices over 3 hours, 6 grid
\* levels, and the other fields empty.  A successful create empties those others.
Defaults(k) ==
  CASE k = "dca" -> <<Empty, Num(48)>>
    [] k = "twap" -> <<Empty, Num(12), Num(6)>>
    [] k \in {"grid", "gridLimit"} -> <<Empty, Empty, Num(12), Empty>>
    [] OTHER -> [i \in 1..FieldsOf(k) |-> Empty]
Cleared(k, f) == [i \in 1..FieldsOf(k) |-> IF Defaults(k)[i] = Empty THEN Empty ELSE f[i]]

FormInit ==
  /\ template = "dca"
  /\ fields = Defaults("dca") /\ formCoin = "named"
  /\ store = [i \in Ids |-> NoStrategy]
  /\ shown = store
  /\ apiCalls = {}
  /\ panelTaps = 0

Untouched == panelTaps = 0 /\ fields = Defaults(template)

\* The template picker and the fields of the form it shows, filled in one go
\* before the first tap; each template has fields of its own.
setTemplate ==
  /\ template' \in Template \ {template}
  /\ Untouched
  /\ fields' = Defaults(template')
  /\ UNCHANGED <<formCoin, store, shown, apiCalls, panelTaps>>
setFields ==
  /\ Untouched
  /\ fields' \in [1..FieldsOf(template) -> FieldValue]
  /\ formCoin' \in {"named", "unnamed"}
  /\ UNCHANGED <<template, store, shown, apiCalls, panelTaps>>

\* A tap starts a call.  No busy flag keeps a second tap away.
PanelCall(call) ==
  /\ panelTaps < MaxPanelTaps
  /\ panelTaps' = panelTaps + 1
  /\ apiCalls' = apiCalls \cup {call}
PanelRequest(op, id, kind, args) ==
  [op |-> op, id |-> id, kind |-> kind, coin |-> formCoin, args |-> args, at |-> "sent",
   answer |-> shown]

onCreate ==
  /\ formOk(template, fields)
  /\ PanelCall(PanelRequest("create", 0, template, body(template, fields)))
  /\ UNCHANGED <<template, fields, formCoin, store, shown>>

\* The row's switch asks for the opposite of what the list shows; it and Cancel
\* are there only for a strategy the list shows running or paused.
Switchable(i) == shown[i].status \in {"running", "paused"}
toggle(i) ==
  /\ Switchable(i)
  /\ PanelCall(PanelRequest("patch", i,
       IF shown[i].status = "running" THEN "paused" ELSE "running", <<>>))
  /\ UNCHANGED <<template, fields, formCoin, store, shown>>
cancel(i) ==
  /\ Switchable(i)
  /\ PanelCall(PanelRequest("delete", i, "none", <<>>))
  /\ UNCHANGED <<template, fields, formCoin, store, shown>>
killAll ==
  /\ PanelCall(PanelRequest("kill", 0, "none", <<>>))
  /\ UNCHANGED <<template, fields, formCoin, store, shown>>

------------------------------------------------------------------------------
\* The server's handlers: the store they leave, or no change and a refusal.
NewId == CHOOSE i \in Ids : ~Exists(i) /\ \A j \in Ids : j < i => Exists(j)
Refuses(c) ==
  CASE c.op = "create" -> ~validateParams(c.kind, c.coin, c.args)
    [] c.op = "patch" -> store[c.id].status \in {"absent", "canceling"}
    [] c.op = "delete" -> ~Exists(c.id)
    [] c.op = "kill" -> FALSE
Handled(c) ==
  CASE c.op = "create" -> [store EXCEPT ![NewId] = [kind |-> c.kind, status |-> "running"]]
    [] c.op = "patch" -> [store EXCEPT ![c.id].status = c.kind]
    [] c.op = "delete" -> [store EXCEPT ![c.id] =
                             IF @.kind = "gridLimit" THEN [@ EXCEPT !.status = "canceling"]
                                                     ELSE NoStrategy]
    [] c.op = "kill" -> [i \in Ids |-> IF store[i].status = "running"
                                       THEN [store[i] EXCEPT !.status = "paused"] ELSE store[i]]

Becomes(c, d) == apiCalls' = (apiCalls \ {c}) \cup {d}

\* The call reaches the server.
handle(c) ==
  /\ c.at = "sent" /\ (c.op = "create" => \E i \in Ids : ~Exists(i))
  /\ IF Refuses(c)
     THEN Becomes(c, [c EXCEPT !.at = "refused"]) /\ UNCHANGED store
     ELSE /\ store' = Handled(c)
          /\ Becomes(c, [c EXCEPT !.at = "reload"])
  /\ UNCHANGED <<template, fields, formCoin, shown, panelTaps>>

\* A refused call rejects, and with it the tap: no reload, the form keeps its text.
rejected(c) ==
  /\ c.at = "refused"
  /\ apiCalls' = apiCalls \ {c}
  /\ UNCHANGED <<template, fields, formCoin, store, shown, panelTaps>>

\* The reload after a call, read by the server and then shown; a form is emptied.
reload(c) ==
  /\ c.at = "reload"
  /\ Becomes(c, [c EXCEPT !.at = "read", !.answer = store])
  /\ UNCHANGED <<template, fields, formCoin, store, shown, panelTaps>>
refresh(c) ==
  /\ c.at = "read"
  /\ shown' = c.answer
  /\ fields' = IF c.op = "create" THEN Cleared(template, fields) ELSE fields
  /\ apiCalls' = apiCalls \ {c}
  /\ UNCHANGED <<template, formCoin, store, panelTaps>>

\* A call or a reload times out after ten seconds, before or after it was handled.
timesOut(c) ==
  /\ apiCalls' = apiCalls \ {c}
  /\ UNCHANGED <<template, fields, formCoin, store, shown, panelTaps>>

\* The engine finishes a strategy or removes one that has drained.
engineMoves(i) ==
  /\ store[i].status \in {"running", "canceling"}
  /\ store' = [store EXCEPT ![i] = IF @.status = "running" THEN [@ EXCEPT !.status = "completed"]
                                                           ELSE NoStrategy]
  /\ UNCHANGED <<template, fields, formCoin, shown, apiCalls, panelTaps>>

FormNext ==
  \/ setTemplate \/ setFields \/ onCreate \/ killAll
  \/ \E i \in Ids : toggle(i) \/ cancel(i) \/ engineMoves(i)
  \/ \E c \in apiCalls : handle(c) \/ rejected(c) \/ reload(c) \/ refresh(c) \/ timesOut(c)

FormSpec == FormInit /\ [][FormNext]_formVars

------------------------------------------------------------------------------
\* What passes a form's own check passes the server's too, unless the coin field,
\* which no form checks, is empty, or a field holds Infinity, which JSON turns into
\* null: the two sets of rules agree across the encoding for every template,
\* optional field and boundary value.
FormsAreAccepted ==
  \A c \in apiCalls : c.op = "create" /\ c.at = "refused" =>
    c.coin = "unnamed" \/ \E i \in DOMAIN c.args : c.args[i] = Null

==============================================================================
