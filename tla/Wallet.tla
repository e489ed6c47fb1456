------------------------------- MODULE Wallet -------------------------------
(***************************************************************************)
(* The wallet session of the app: the keychain items of the secret and of  *)
(* the PIN, the authentication status that chooses the screen, the wallet  *)
(* in memory, and every way in and out of them: create, restore, import,   *)
(* PIN setup, PIN and biometric unlock, change of PIN, auto-lock, sign-out *)
(* and lock-screen recovery.                                               *)
(*                                                                         *)
(* A handler is a sequence of keychain calls and store updates, kept in    *)
(* todo and run one at a time, so that two handlers interleave, any call   *)
(* may fail (the rest of its handler is dropped) and the app may die       *)
(* between two calls.                                                      *)
(***************************************************************************)
EXTENDS Integers, Sequences, FiniteSets

CONSTANTS
  Secret,         \* wallets, by their secret
  Pin,            \* PINs
  MaxPinAttempts, \* MAX_PIN_ATTEMPTS
  MaxWalletFaults \* bound on failed calls, deaths of the app and invalidations

Item == {"secret", "present", "authmode", "verifier", "attempts"}
Handler == {"main", "lock"}   \* one for the screens, one for unlocking
Absent == <<>>                \* otherwise a value is a tuple

ASSUME WalletAssumption ==
  /\ MaxPinAttempts \in Nat \ {0} /\ MaxWalletFaults \in Nat
  /\ IsFiniteSet(Secret) /\ IsFiniteSet(Pin)

VARIABLES
  kc,      \* keychain: item -> value, Absent when there is none
  status,  \* AuthStatus
  wallet,  \* wallet in memory; Absent for mode "none"
  backup,  \* a created phrase waits for its backup quiz
  bio,     \* biometricEnabled
  walletTodo,    \* what each handler still has to do
  wFaults

walletVars == <<kc, status, wallet, backup, bio, walletTodo, wFaults>>

Write(item, v) == [do |-> "write", item |-> item, v |-> v]
Delete(item) == Write(item, Absent)
Do(what) == [do |-> what, item |-> "none", v |-> Absent]
With(what, v) == [do |-> what, item |-> "none", v |-> v]

(* The steps of the handlers.  The mode is "1" when the keychain took the  *)
(* secret behind its biometric gate and "0" when it could not.             *)
evaluate == <<Do("hasWallet"), Do("hasPin")>>
saveMnemonic(s, mode) ==
  <<Write("secret", <<s, mode>>), Write("present", <<"1">>), Write("authmode", <<mode>>)>>
signOut == <<Delete("secret"), Delete("present"), Delete("authmode")>>
setPin(p) == <<Write("verifier", <<p>>), Write("attempts", <<0>>)>>

(* Mutant: recovery leaves the PIN and its spent attempts. *)
recoverFromLock_KeepsPin == signOut \o <<Do("bioOff"), Do("reset"), Do("hasWallet")>>

recoverFromLock ==
  signOut \o <<Delete("verifier"), Delete("attempts"), Do("bioOff"), Do("reset"), Do("hasWallet")>>

WalletInit ==
  /\ kc = [i \in Item |-> Absent]
  /\ status = "unknown" /\ wallet = Absent /\ backup = FALSE /\ bio = FALSE
  /\ walletTodo = [h \in Handler |-> IF h = "main" THEN evaluate ELSE <<>>]
  /\ wFaults = 0

----------------------------------------------------------------------------
(* What the screens offer.                                                 *)

Idle == walletTodo["main"] = <<>>
BeginHandler(h, steps) == walletTodo[h] = <<>> /\ walletTodo' = [walletTodo EXCEPT ![h] = steps]
Tabs == status \in {"unknown", "noWallet", "unlocked"}

(* Onboarding of AccountScreen, while no wallet is in memory. *)
Onboarding == Tabs /\ wallet = Absent

onCreate(s, mode) ==
  /\ Onboarding /\ BeginHandler("main", saveMnemonic(s, mode) \o <<With("created", <<s>>)>>)
  /\ UNCHANGED <<kc, status, wallet, backup, bio, wFaults>>

(* onRestore and onImportPk. *)
onRestore(s, mode) ==
  /\ Onboarding /\ BeginHandler("main", saveMnemonic(s, mode) \o <<With("use", <<s>>)>> \o evaluate)
  /\ UNCHANGED <<kc, status, wallet, backup, bio, wFaults>>

(* The backup quiz is passed: requirePinSetup. *)
onVerified ==
  /\ Tabs /\ backup
  /\ BeginHandler("main", evaluate) /\ backup' = FALSE
  /\ UNCHANGED <<kc, status, wallet, bio, wFaults>>

(* PinSetupScreen, both entries equal, with or without biometrics. *)
finalize(p, enable) ==
  /\ status = "needsPinSetup"
  /\ BeginHandler("main", setPin(p) \o <<Do("load")>>)
  /\ bio' = (bio \/ enable)
  /\ UNCHANGED <<kc, status, wallet, backup, wFaults>>

submitPin(p) ==
  /\ status = "locked" /\ BeginHandler("lock", <<With("verify", <<p>>), Do("load")>>)
  /\ UNCHANGED <<kc, status, wallet, backup, bio, wFaults>>

(* The prompt of the lock screen, answered by the enrolled user. *)
tryBiometric ==
  /\ status = "locked" /\ bio /\ BeginHandler("lock", <<Do("load")>>)
  /\ UNCHANGED <<kc, status, wallet, backup, bio, wFaults>>

onRecover ==
  /\ status = "locked" /\ BeginHandler("main", recoverFromLock)
  /\ UNCHANGED <<kc, status, wallet, backup, bio, wFaults>>

(* SettingsScreen: change of PIN, the biometric switch, sign-out. *)
onConfirmChangePin(old, new) ==
  /\ Tabs /\ wallet # Absent /\ BeginHandler("main", <<With("verify", <<old>>)>> \o setPin(new))
  /\ UNCHANGED <<kc, status, wallet, backup, bio, wFaults>>
onToggleBiometric ==
  /\ Tabs /\ wallet # Absent /\ bio' = ~bio
  /\ UNCHANGED <<kc, status, wallet, backup, walletTodo, wFaults>>
onSignOut ==
  /\ Tabs /\ BeginHandler("main", signOut \o <<Do("reset")>>)
  /\ UNCHANGED <<kc, status, wallet, backup, bio, wFaults>>

(* The app comes back to the foreground after the timeout: lockSession. *)
AutoLock ==
  /\ status = "unlocked"
  /\ status' = "locked" /\ wallet' = Absent
  /\ UNCHANGED <<kc, backup, bio, walletTodo, wFaults>>

----------------------------------------------------------------------------
(* Running a handler's next step.                                          *)

Head1(h) == Head(walletTodo[h])
Continue(h, steps) == walletTodo' = [walletTodo EXCEPT ![h] = steps]
On(h, what) == walletTodo[h] # <<>> /\ Head1(h).do = what

StepWrite(h) ==
  /\ On(h, "write")
  /\ kc' = [kc EXCEPT ![Head1(h).item] = Head1(h).v]
  /\ Continue(h, Tail(walletTodo[h]))
  /\ UNCHANGED <<status, wallet, backup, bio, wFaults>>

(* evaluate: the PIN is looked for only when the caller asked for it. *)
StepEvaluate(h) ==
  \/ /\ On(h, "hasWallet")
     /\ IF kc["present"] = Absent
        THEN status' = "noWallet" /\ Continue(h, <<>>)
        ELSE /\ status' = IF Tail(walletTodo[h]) = <<>> THEN "locked" ELSE status
             /\ Continue(h, Tail(walletTodo[h]))
     /\ UNCHANGED <<kc, wallet, backup, bio, wFaults>>
  \/ /\ On(h, "hasPin")
     /\ status' = IF kc["verifier"] = Absent THEN "needsPinSetup" ELSE "locked"
     /\ Continue(h, Tail(walletTodo[h]))
     /\ UNCHANGED <<kc, wallet, backup, bio, wFaults>>

(* PinStore.verify: at the limit, or without a verifier, the handler ends; *)
(* otherwise the counter is written, and only a right PIN goes on.         *)
Attempts == IF kc["attempts"] = Absent THEN 0 ELSE kc["attempts"][1]
verify(h) ==
  /\ On(h, "verify")
  /\ Continue(h, IF kc["verifier"] = Absent \/ Attempts >= MaxPinAttempts THEN <<>>
                 ELSE IF Head1(h).v = kc["verifier"]
                      THEN <<Write("attempts", <<0>>)>> \o Tail(walletTodo[h])
                      ELSE <<Write("attempts", <<Attempts + 1>>)>>)
  /\ UNCHANGED <<kc, status, wallet, backup, bio, wFaults>>

(* loadAndUnlock: the secret is read in the mode on record; an item        *)
(* written in the other mode is not found.                                 *)
loadMnemonic ==
  LET mode == IF kc["authmode"] = <<"0">> THEN "0" ELSE "1"
  IN IF kc["secret"] # Absent /\ kc["secret"][2] = mode THEN <<kc["secret"][1]>> ELSE Absent
loadAndUnlock(h) ==
  \/ /\ On(h, "load")
     /\ Continue(h, IF loadMnemonic = Absent THEN <<>> ELSE <<With("enter", loadMnemonic)>>)
     /\ UNCHANGED <<kc, status, wallet, backup, bio, wFaults>>
  \/ /\ On(h, "enter")
     /\ wallet' = Head1(h).v /\ status' = "unlocked"
     /\ Continue(h, Tail(walletTodo[h]))
     /\ UNCHANGED <<kc, backup, bio, wFaults>>

(* Updates of the stores in memory. *)
StepMemory(h) ==
  \/ /\ On(h, "created") /\ wallet' = Head1(h).v /\ backup' = TRUE
     /\ Continue(h, Tail(walletTodo[h])) /\ UNCHANGED <<kc, status, bio, wFaults>>
  \/ /\ On(h, "use") /\ wallet' = Head1(h).v
     /\ Continue(h, Tail(walletTodo[h])) /\ UNCHANGED <<kc, status, backup, bio, wFaults>>
  \/ /\ On(h, "reset") /\ wallet' = Absent /\ backup' = FALSE
     /\ Continue(h, Tail(walletTodo[h])) /\ UNCHANGED <<kc, status, bio, wFaults>>
  \/ /\ On(h, "bioOff") /\ bio' = FALSE
     /\ Continue(h, Tail(walletTodo[h])) /\ UNCHANGED <<kc, status, wallet, backup, wFaults>>

HandlerStep(h) ==
  StepWrite(h) \/ StepEvaluate(h) \/ verify(h) \/ loadAndUnlock(h) \/ StepMemory(h)

----------------------------------------------------------------------------
(* Failures.                                                               *)

WalletFault == wFaults < MaxWalletFaults /\ wFaults' = wFaults + 1

(* A keychain call throws: evaluate falls back to "locked", sign-out still *)
(* resets the wallet, every other handler ends.                            *)
CallFails(h) ==
  /\ WalletFault /\ walletTodo[h] # <<>> /\ Head1(h).do \in {"write", "hasWallet", "hasPin", "verify", "load"}
  /\ LET signing == Head1(h).do = "write" /\ Head1(h).v = Absent
                    /\ walletTodo[h][Len(walletTodo[h])].do = "reset"
     IN Continue(h, IF signing THEN <<Do("reset")>> ELSE <<>>)
  /\ status' = IF Head1(h).do \in {"hasWallet", "hasPin"} THEN "locked" ELSE status
  /\ UNCHANGED <<kc, wallet, backup, bio>>

Relaunched ==
  /\ status' = "unknown" /\ wallet' = Absent /\ backup' = FALSE
  /\ walletTodo' = [h \in Handler |-> IF h = "main" THEN evaluate ELSE <<>>]
  /\ UNCHANGED <<kc, bio>>

(* The app dies anywhere and is started again. *)
AppDies == WalletFault /\ Relaunched

(* The user starts the app again where a screen leads nowhere: PIN setup   *)
(* for a secret that is gone, which offers no way back, and the tabs with  *)
(* a wiped wallet, left by an unlock that ended during recovery.           *)
Relaunch ==
  /\ Idle /\ (status = "needsPinSetup" \/ (status = "noWallet" /\ wallet # Absent /\ ~backup))
  /\ Relaunched /\ UNCHANGED wFaults

(* A change of the enrolled biometrics invalidates a gated secret. *)
Invalidate ==
  /\ WalletFault /\ kc["secret"] # Absent /\ kc["secret"][2] = "1"
  /\ kc' = [kc EXCEPT !["secret"] = Absent]
  /\ UNCHANGED <<status, wallet, backup, bio, walletTodo>>

Restore == \E s \in Secret, mode \in {"0", "1"} : onRestore(s, mode)
Setup == \E p \in Pin, b \in BOOLEAN : finalize(p, b)

(* The ways in that the screens offer to a user who has the phrase. *)
WayIn == Restore \/ onVerified \/ Setup \/ onRecover

WalletNext ==
  \/ \E s \in Secret, mode \in {"0", "1"} : onCreate(s, mode)
  \/ Restore \/ onVerified \/ Setup
  \/ \E p \in Pin : submitPin(p)
  \/ tryBiometric \/ onRecover
  \/ \E p, q \in Pin : onConfirmChangePin(p, q)
  \/ onToggleBiometric \/ onSignOut \/ AutoLock
  \/ \E h \in Handler : HandlerStep(h) \/ CallFails(h)
  \/ AppDies \/ Relaunch \/ Invalidate

(* Handlers run to their end; a user who wants back in takes a way in, and *)
(* starts the app again where there is none, sooner or later.              *)
WalletFairness ==
  /\ \A h \in Handler : WF_walletVars(HandlerStep(h))
  /\ SF_walletVars(WayIn) /\ SF_walletVars(Relaunch)

WalletSpec == WalletInit /\ [][WalletNext]_walletVars /\ WalletFairness

----------------------------------------------------------------------------
LetIn == status = "unlocked" /\ wallet # Absent

(* Nobody is locked out for good: whatever was interrupted or failed, with *)
(* the PIN forgotten, its attempts spent or the secret invalidated, a user *)
(* who has the recovery phrase is let in again (LockScreen: "guarantees no *)
(* permanent lockout").                                                    *)
CanGetBackIn == []<>LetIn
=============================================================================
