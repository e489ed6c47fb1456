---------------------------- MODULE PushSettings ----------------------------
(* The notification settings of the app and the engine's rows behind them:     *)
(* the switch that registers the device, the preference of every category and  *)
(* the quiet hours.                                                            *)
(*                                                                             *)
(* Every handler of the settings screen sends one request through a session of *)
(* its own, so requests of different handlers overtake each other.  A request  *)
(* may get lost, or its answer may.  The switch and the token are kept in the  *)
(* keychain, written one after the other; what the screen shows of the         *)
(* engine's rows is read when the switch goes on and when the screen mounts,   *)
(* changed before the engine has answered, and taken back when it did not.     *)
EXTENDS Integers

CONSTANTS
  PsOwner,     \* wallets that sign in on this device
  Category,    \* notification categories
  Hour,        \* hours to pick for the quiet time
  NotShown,    \* null, on the screen
  MaxPsTaps, MaxPsFaults, MaxPsStarts  \* bounds: taps, failures, remounts and launches

SignedOut == "signedOut"

ASSUME PushSettingsAssumption ==
  /\ SignedOut \notin PsOwner
  /\ 0 \in Hour
  /\ NotShown \notin [Category -> BOOLEAN]
  /\ NotShown \notin [enabled : BOOLEAN, start : Hour, end : Hour]
  /\ {MaxPsTaps, MaxPsFaults, MaxPsStarts} \subseteq Nat

VARIABLES
  psOwner,      \* the wallet in the session, or SignedOut
  pushEnabled, pushToken,  \* usePushPrefsStore in memory: the switch, is a token kept
  keychain,     \* the same two as last written to the keychain
  categoryPrefs, quietHours,  \* what the screen shows, or NotShown
  psCalls,      \* handlers and fetches under way
  tokenRow,     \* the owner the engine has this device's token for, or SignedOut
  prefRows, quietRows,  \* the engine's preferences and quiet hours of every owner
  parted,       \* something happened that may leave the app and the engine apart
  psTaps, psFaults, psStarts

psMemory == <<psOwner, pushEnabled, pushToken, keychain>>
psScreen == <<categoryPrefs, quietHours>>
psRows == <<tokenRow, prefRows, quietRows>>
psCounts == <<psTaps, psFaults, psStarts>>
psVars == <<psMemory, psScreen, psRows, psCalls, parted, psCounts>>

QuietHours == [enabled : BOOLEAN, start : Hour, end : Hour]
AllOn == [c \in Category |-> TRUE]
Disabled == [enabled |-> FALSE, start |-> 0, end |-> 0]

\* A handler or a fetch: what it does, to what, the value it writes or has read,
\* what the screen showed before it, whether its screen is still mounted.
Send(what, cat, value, prev) ==
  [what |-> what, cat |-> cat, value |-> value, prev |-> prev, owner |-> psOwner,
   mounted |-> TRUE, stage |-> "sent", id |-> psTaps]
Fetch(what) == [Send(what, "all", NotShown, NotShown) EXCEPT !.id = 0]

\* The effects that watch the switch: without a wallet there is no session, and
\* nothing to show.
Fetching(enabled) ==
  IF enabled /\ psOwner # SignedOut
  THEN {Fetch("fetchPushCategoryPrefs"), Fetch("fetchQuietHours")} ELSE {}

IsFetch(c) == c.what \in {"fetchPushCategoryPrefs", "fetchQuietHours"}
IsToggle(c) == c.what \in {"enable", "disable", "signOut"}
Leaving(c) == c.what \in {"disable", "signOut"}
Handlers == {c \in psCalls : ~IsFetch(c)}

PushSettingsInit ==
  /\ psOwner \in PsOwner
  /\ pushEnabled = FALSE /\ pushToken = FALSE
  /\ keychain = [enabled |-> FALSE, token |-> FALSE]
  /\ categoryPrefs = NotShown /\ quietHours = NotShown
  /\ psCalls = {}
  /\ tokenRow = SignedOut
  /\ prefRows = [o \in PsOwner |-> AllOn]
  /\ quietRows = [o \in PsOwner |-> Disabled]
  /\ parted = FALSE
  /\ psTaps = 0 /\ psFaults = 0 /\ psStarts = 0

------------------------------------------------------------------------------
(* Taps.                                                                       *)

\* A tap starts handler c.  It can leave app and engine apart when another
\* handler of the same setting is under way, or the switch itself is.
TapStarts(c) ==
  /\ psOwner # SignedOut
  /\ psTaps < MaxPsTaps /\ psTaps' = psTaps + 1
  /\ psCalls' = psCalls \cup {c}
  /\ parted' = (parted \/ \E d \in Handlers :
                   \/ IsToggle(c) \/ IsToggle(d)
                   \/ c.what = d.what /\ c.cat = d.cat)
  /\ UNCHANGED <<psMemory, psRows, psFaults, psStarts>>

\* applyPushPreference: enabling mints a session and registers; disabling
\* unregisters the token it remembers, and asks for nothing when there is none.
onToggleNotifications ==
  LET c == Send(IF pushEnabled THEN "disable" ELSE "enable", "all", NotShown, NotShown)
  IN /\ TapStarts(IF pushEnabled /\ ~pushToken THEN [c EXCEPT !.stage = "done"] ELSE c)
     /\ UNCHANGED psScreen

onToggleCategory(cat) ==
  /\ categoryPrefs # NotShown
  /\ categoryPrefs' = [categoryPrefs EXCEPT ![cat] = ~@]
  /\ TapStarts(Send("setPushCategoryPrefs", cat, ~categoryPrefs[cat], categoryPrefs))
  /\ UNCHANGED quietHours

saveQuietHours(next) == Send("saveQuietHours", "all", next, quietHours)

\* onToggleQuiet and onPickQuietHour: the whole record is written.
writeQuietHours(next) ==
  /\ quietHours # NotShown
  /\ next \in {[quietHours EXCEPT !.enabled = ~@]}
              \cup {[quietHours EXCEPT !.start = h] : h \in Hour}
              \cup {[quietHours EXCEPT !.end = h] : h \in Hour}
  /\ quietHours' = next
  /\ TapStarts(saveQuietHours(next))
  /\ UNCHANGED categoryPrefs

\* onSignOut, confirmed: unregisters first, whatever becomes of it.
onSignOut ==
  LET c == Send("signOut", "all", NotShown, NotShown)
  IN /\ TapStarts(IF pushToken THEN c ELSE [c EXCEPT !.stage = "done"])
     /\ UNCHANGED psScreen

SignIn(o) ==
  /\ psOwner = SignedOut /\ psTaps < MaxPsTaps
  /\ psOwner' = o /\ psTaps' = psTaps + 1
  /\ UNCHANGED <<pushEnabled, pushToken, keychain, psScreen, psRows, psCalls,
                 parted, psFaults, psStarts>>

------------------------------------------------------------------------------
(* The engine's routes.                                                        *)

registerRow(c) ==
  CASE c.what = "enable" -> c.owner
    [] Leaving(c) /\ tokenRow = c.owner -> SignedOut
    [] OTHER -> tokenRow

setPrefs(c) == [prefRows EXCEPT ![c.owner][c.cat] = c.value]
setQuiet(c) == [quietRows EXCEPT ![c.owner] = c.value]

\* What a request brings back.
read(c) ==
  CASE c.what = "fetchPushCategoryPrefs" -> prefRows[c.owner]
    [] c.what = "fetchQuietHours" -> quietRows[c.owner]
    [] OTHER -> c.value

\* A request arrives: rows are upserted, a token is deleted only for its owner.
Lands(c) ==
  /\ c.stage \in {"sent", "abandoned"}
  /\ tokenRow' = registerRow(c)
  /\ prefRows' = IF c.what = "setPushCategoryPrefs" THEN setPrefs(c) ELSE prefRows
  /\ quietRows' = IF c.what = "saveQuietHours" THEN setQuiet(c) ELSE quietRows
  /\ psCalls' = (psCalls \ {c}) \cup
                 (IF c.stage = "abandoned" THEN {}
                  ELSE {[c EXCEPT !.stage = "landed", !.value = read(c)]})
  /\ UNCHANGED <<psMemory, psScreen, parted, psCounts>>

------------------------------------------------------------------------------
(* Answers and failures.                                                       *)

\* The answer arrives.
Answered(c) ==
  /\ c.stage = "landed"
  /\ IF IsToggle(c)
     THEN psCalls' = (psCalls \ {c}) \cup {[c EXCEPT !.stage = "done"]}
     ELSE psCalls' = psCalls \ {c}
  /\ categoryPrefs' = IF c.what = "fetchPushCategoryPrefs" THEN c.value ELSE categoryPrefs
  /\ quietHours' = IF c.what = "fetchQuietHours" THEN c.value ELSE quietHours
  /\ UNCHANGED <<psMemory, psRows, parted, psCounts>>

\* Mutant: a failed category write puts back all the screen showed before it.
takenBack_Snapshot(c) == c.prev

\* A failed category write takes back its own category, whatever the others show.
takenBack(c) == [categoryPrefs EXCEPT ![c.cat] = ~c.value]

\* No session, the request lost, or the answer lost.  Enabling gives up, the
\* other two toggles go on; an engine that was reached, or one that should have
\* forgotten the token, is left apart.
Fails(c) ==
  /\ c.stage \in {"sent", "landed"}
  /\ psFaults < MaxPsFaults /\ psFaults' = psFaults + 1
  /\ psCalls' = (psCalls \ {c}) \cup
                 (IF Leaving(c) THEN {[c EXCEPT !.stage = "done"]} ELSE {})
  /\ categoryPrefs' = CASE c.what = "fetchPushCategoryPrefs" -> NotShown
                        [] c.what = "setPushCategoryPrefs" /\ c.mounted
                           /\ categoryPrefs # NotShown -> takenBack(c)
                        [] OTHER -> categoryPrefs
  /\ quietHours' = CASE c.what = "fetchQuietHours" -> NotShown
                     [] c.what = "saveQuietHours" /\ c.mounted -> c.prev
                     [] OTHER -> quietHours
  /\ parted' = (parted \/ (~IsFetch(c) /\ (c.stage = "landed" \/ Leaving(c))))
  /\ UNCHANGED <<psMemory, psRows, psTaps, psStarts>>

\* setEnabled: memory, then the keychain, whose write may fail.  The effects that
\* watch the switch fetch what the screen shows, or clear it.
setPushEnabled(c, written) ==
  LET on == c.what = "enable" IN
  /\ c.stage = "done"
  /\ pushEnabled' = on
  /\ keychain' = IF written THEN [keychain EXCEPT !.enabled = on] ELSE keychain
  /\ LET rest == (psCalls \ {c}) \cup {[c EXCEPT !.stage = "enabled"]}
     IN psCalls' = IF pushEnabled = on THEN rest
                   ELSE {d \in rest : ~IsFetch(d)} \cup Fetching(on)
  /\ IF pushEnabled /\ ~on
     THEN categoryPrefs' = NotShown /\ quietHours' = NotShown
     ELSE UNCHANGED psScreen
  /\ UNCHANGED <<psOwner, pushToken, psRows>>

\* setToken, the same way; signing out ends the session.
setPushToken(c, written) ==
  LET on == c.what = "enable" IN
  /\ c.stage = "enabled"
  /\ pushToken' = on
  /\ keychain' = IF written THEN [keychain EXCEPT !.token = on] ELSE keychain
  /\ psOwner' = IF c.what = "signOut" THEN SignedOut ELSE psOwner
  /\ psCalls' = psCalls \ {c}
  /\ UNCHANGED <<pushEnabled, psScreen, psRows>>

Continue(c) ==
  \E written \in BOOLEAN :
    /\ setPushEnabled(c, written) \/ setPushToken(c, written)
    /\ IF written THEN UNCHANGED <<parted, psFaults>>
                  ELSE psFaults < MaxPsFaults /\ psFaults' = psFaults + 1 /\ parted' = TRUE
    /\ UNCHANGED <<psTaps, psStarts>>

------------------------------------------------------------------------------
(* The screen and the app come and go.                                         *)

Start == psStarts < MaxPsStarts /\ psStarts' = psStarts + 1 /\ UNCHANGED <<psTaps, psFaults>>

\* The app locks and unlocks: the screen mounts anew; the handlers go on.
Remount ==
  /\ Start
  /\ categoryPrefs' = NotShown /\ quietHours' = NotShown
  /\ psCalls' = {[c EXCEPT !.mounted = FALSE] : c \in Handlers} \cup Fetching(pushEnabled)
  /\ parted' = (parted \/ \E c \in Handlers : ~IsToggle(c))
  /\ UNCHANGED <<psMemory, psRows>>

hydrate == pushEnabled' = keychain.enabled /\ pushToken' = keychain.token

\* The app dies and is launched again; requests on their way may still arrive.
Launch ==
  /\ Start /\ hydrate
  /\ categoryPrefs' = NotShown /\ quietHours' = NotShown
  /\ psCalls' = {[c EXCEPT !.stage = "abandoned"] : c \in {d \in Handlers : d.stage \in {"sent", "abandoned"}}}
                \cup Fetching(keychain.enabled)
  /\ parted' = (parted \/ Handlers # {})
  /\ UNCHANGED <<psOwner, keychain, psRows>>

PushSettingsNext ==
  \/ onToggleNotifications \/ onSignOut \/ Remount \/ Launch
  \/ \E cat \in Category : onToggleCategory(cat)
  \/ \E next \in QuietHours : writeQuietHours(next)
  \/ \E o \in PsOwner : SignIn(o)
  \/ \E c \in psCalls : Lands(c) \/ Answered(c) \/ Fails(c) \/ Continue(c)

PushSettingsSpec == PushSettingsInit /\ [][PushSettingsNext]_psVars

------------------------------------------------------------------------------
\* When no handler is under way, the screen shows the rows of the engine and the
\* engine has this device's token exactly for a user whose switch is on - through
\* failed writes that are taken back while others are under way, locks, launches
\* and changes of wallet - unless something parted them: two handlers of one
\* setting at once, an answer lost after the engine acted, an unregistration or a
\* keychain write that failed, or the app's death in a handler (SettingsScreen,
\* pushToggle, pushPrefsStore: "so a later disable can unregister it").
SettingsAgree ==
  (~parted /\ Handlers = {}) =>
    /\ categoryPrefs # NotShown => categoryPrefs = prefRows[psOwner]
    /\ quietHours # NotShown => quietHours = quietRows[psOwner]
    /\ tokenRow = IF pushEnabled THEN psOwner ELSE SignedOut
==============================================================================
