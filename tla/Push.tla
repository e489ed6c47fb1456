-------------------------------- MODULE Push --------------------------------
(***************************************************************************)
(* Push notifications of the engine (server/src/push) and the app's        *)
(* registration of its device (the push services of mobile/src).           *)
(*                                                                         *)
(* A notification passes the owner's category preference and quiet hours,  *)
(* is fanned out in chunks to the tokens the owner has at that moment, and *)
(* every accepted message leaves a receipt row.  A poller later fetches    *)
(* the receipts oldest first, deletes the tokens of devices that are gone, *)
(* and drops rows that were answered or are too old.  Registrations,       *)
(* sign-outs, uninstalls, failing chunks, failing fetches and restarts     *)
(* happen in between.  The minutes of a day are 0..DayLen - 1.             *)
(***************************************************************************)
EXTENDS Integers, Sequences, FiniteSets

CONSTANTS
  PushOwner,    \* owners
  Tokens,       \* device tokens are 1..Tokens, in the order of their rows
  ChunkSize,    \* messages per request to Expo
  BatchLimit,   \* receipts fetched by one poll
  MaxAge,       \* polls after which an unanswered receipt is dropped
  DayLen,       \* minutes of a day
  QuietChoices, \* quiet hours an owner may set: records enabled, start, end
  MaxSends,     \* bound on the notifications sent
  MaxChanges    \* bound on registrations, sign-outs and uninstalls

Token == 1..Tokens
Unbound == "nobody"

ASSUME PushAssumption ==
  /\ {Tokens, ChunkSize, BatchLimit, MaxAge, DayLen} \subseteq Nat \ {0}
  /\ {MaxSends, MaxChanges} \subseteq Nat
  /\ QuietChoices \subseteq [enabled : BOOLEAN, start : 0..DayLen - 1, end : 0..DayLen - 1]
  /\ Unbound \notin PushOwner

VARIABLES
  bound,     \* push_tokens: token -> owner
  installed, \* tokens whose device still has the app; a token never revives
  quiet,     \* push_quiet_hours of every owner
  optedOut,  \* owners who switched the fills category off
  job,       \* the notification being sent, NoJob when none
  receipts,  \* push_receipts, oldest first: the token recorded, the device the
             \* message went to, and the number of polls the row has seen
  polling,   \* the receipts a poll is fetching
  lost,      \* tokens deleted as dead while their device had the app
  sends, changes

pushVars == <<bound, installed, quiet, optedOut, job, receipts, polling,
              lost, sends, changes>>

(* The members of a set of integers in ascending order, and the rows of a  *)
(* sequence that stand at the positions of a set.                          *)
inOrder(S) == [k \in 1..Cardinality(S) |->
                 CHOOSE i \in S : Cardinality({j \in S : j < i}) = k - 1]
rowsAt(rows, S) == [k \in DOMAIN inOrder(S) |-> rows[inOrder(S)[k]]]

NoJob == [tokens |-> <<>>, chunk |-> 0, cursor |-> 0]

PushInit ==
  /\ bound = [t \in Token |-> Unbound]
  /\ installed = Token
  /\ quiet \in [PushOwner -> QuietChoices]
  /\ optedOut \in SUBSET PushOwner
  /\ job = NoJob /\ receipts = <<>> /\ polling = <<>>
  /\ lost = {}
  /\ sends = 0 /\ changes = 0

----------------------------------------------------------------------------
(* The device and the HTTP routes.                                         *)

Change == changes < MaxChanges /\ changes' = changes + 1

(* POST /push/register: an upsert that moves the token to its new owner. *)
register(o, t) ==
  /\ Change /\ t \in installed /\ bound[t] # o
  /\ bound' = [bound EXCEPT ![t] = o]
  /\ UNCHANGED <<installed, quiet, optedOut, job, receipts, polling, lost, sends>>

(* POST /push/unregister (toggle off or sign-out): only the owner's own. *)
unregister(o, t) ==
  /\ Change /\ bound[t] = o
  /\ bound' = [bound EXCEPT ![t] = Unbound]
  /\ UNCHANGED <<installed, quiet, optedOut, job, receipts, polling, lost, sends>>

Uninstall(t) ==
  /\ Change /\ t \in installed
  /\ installed' = installed \ {t}
  /\ UNCHANGED <<bound, quiet, optedOut, job, receipts, polling, lost, sends>>

(* POST /push/quiet-hours. *)
setQuietHours(o, q) ==
  /\ Change /\ quiet[o] # q
  /\ quiet' = [quiet EXCEPT ![o] = q]
  /\ UNCHANGED <<bound, installed, optedOut, job, receipts, polling, lost, sends>>

----------------------------------------------------------------------------
(* Sending.                                                                *)

(* Within the day, or around midnight when the window ends before it       *)
(* starts; an empty window never applies.                                  *)
isWithinQuietHours(q, m) ==
  /\ q.enabled /\ q.start # q.end
  /\ IF q.start < q.end THEN m >= q.start /\ m < q.end
                        ELSE m >= q.start \/ m < q.end

isQuietNow(o, m) == isWithinQuietHours(quiet[o], m)
Quietable == {"fills", "lifecycle"}
isEnabled(o, category) == category # "fills" \/ o \notin optedOut

tokensForOwner(o) == inOrder({t \in Token : bound[t] = o})

(* notify up to its first await, at some minute of the day: preference,    *)
(* quiet hours, the snapshot of the owner's tokens.                        *)
notify(o, category, minute) ==
  LET off == ~isEnabled(o, category)
      hush == category \in Quietable /\ isQuietNow(o, minute)
  IN /\ sends < MaxSends /\ sends' = sends + 1
     /\ job = NoJob
     /\ job' = IF off \/ hush THEN NoJob ELSE [NoJob EXCEPT !.tokens = tokensForOwner(o)]
     /\ UNCHANGED <<bound, installed, quiet, optedOut, receipts, polling, lost, changes>>

(* What is notified: a recorded fill, a strategy that completed, an alert  *)
(* of the dead-man switch.                                                 *)
fillRecorded(o, m) == notify(o, "fills", m)
strategyCompleted(o, m) == notify(o, "lifecycle", m)
deadManAlert(o, m) == notify(o, "alerts", m)

(* The messages of the next chunk, and the tokens its tickets are taken    *)
(* to be for: those after the cursor.                                      *)
Chunk == SubSeq(job.tokens, job.chunk * ChunkSize + 1,
                IF (job.chunk + 1) * ChunkSize < Len(job.tokens)
                THEN (job.chunk + 1) * ChunkSize ELSE Len(job.tokens))
chunkTokens == SubSeq(job.tokens, job.cursor + 1, job.cursor + Len(Chunk))

(* Mutant: a chunk that fails does not move the cursor. *)
nextChunk_StaysOnFailure(failed) ==
  [job EXCEPT !.chunk = @ + 1, !.cursor = IF failed THEN @ ELSE @ + Len(Chunk)]

nextChunk(failed) == [job EXCEPT !.chunk = @ + 1, !.cursor = @ + Len(Chunk)]

AfterChunk(failed) ==
  IF (job.chunk + 1) * ChunkSize >= Len(job.tokens) THEN NoJob ELSE nextChunk(failed)

(* deleteToken: unconditional, whoever owns the token by now. *)
deleteToken(dead) ==
  /\ bound' = [t \in Token |-> IF t \in dead THEN Unbound ELSE bound[t]]
  /\ lost' = lost \cup {t \in dead : bound[t] # Unbound /\ t \in installed}

(* The rows of accepted messages, behind the others. *)
record(ok) ==
  receipts' = receipts \o
    [k \in DOMAIN ok |-> [token |-> chunkTokens[ok[k]], to |-> Chunk[ok[k]], age |-> 0]]

(* A chunk is answered with one ticket per message.  A device that is gone *)
(* may be reported at once (now) or only by the receipt.                   *)
SendChunk(now) ==
  LET n == DOMAIN Chunk
      ok == inOrder(n \ now)
  IN /\ job # NoJob /\ job.tokens # <<>>
     /\ now \subseteq {i \in n : Chunk[i] \notin installed}
     /\ deleteToken({chunkTokens[i] : i \in now})
     /\ record(ok)
     /\ job' = AfterChunk(FALSE)
     /\ UNCHANGED <<installed, quiet, optedOut, polling, sends, changes>>

(* The request for a chunk throws: its messages are given up. *)
ChunkFails ==
  /\ job # NoJob /\ job.tokens # <<>>
  /\ job' = AfterChunk(TRUE)
  /\ UNCHANGED <<bound, installed, quiet, optedOut, receipts, polling,
                 lost, sends, changes>>

(* An owner without tokens: nothing to send. *)
NothingToSend ==
  /\ job # NoJob /\ job.tokens = <<>>
  /\ job' = NoJob
  /\ UNCHANGED <<bound, installed, quiet, optedOut, receipts, polling,
                 lost, sends, changes>>

----------------------------------------------------------------------------
(* pollPushReceipts.                                                       *)

(* The oldest rows, up to the limit. *)
pending == SubSeq(receipts, 1, IF BatchLimit < Len(receipts) THEN BatchLimit ELSE Len(receipts))

PollBegin ==
  /\ polling = <<>> /\ receipts # <<>>
  /\ polling' = pending
  /\ UNCHANGED <<bound, installed, quiet, optedOut, job, receipts,
                 lost, sends, changes>>

(* Mutant: rows that are never answered are kept. *)
pruneOlderThan_Keeps(rs) == rs

(* pruneOlderThan, run at the end of every poll whatever the fetch did. *)
Aged(rs) == [i \in DOMAIN rs |-> [rs[i] EXCEPT !.age = @ + 1]]
pruneOlderThan(rs) == rowsAt(Aged(rs), {i \in DOMAIN rs : Aged(rs)[i].age <= MaxAge})

remove(ready) == rowsAt(receipts, DOMAIN receipts \ ready)

(* The fetch answers some of the batch: a device that is gone is reported, *)
(* its token deleted and the answered rows removed.  Rows recorded since   *)
(* the batch was read stand behind it.                                     *)
PollEnd(ready) ==
  /\ polling # <<>>
  /\ ready \subseteq DOMAIN polling
  /\ deleteToken({polling[i].token : i \in {j \in ready : polling[j].to \notin installed}})
  /\ receipts' = pruneOlderThan(remove(ready))
  /\ polling' = <<>>
  /\ UNCHANGED <<installed, quiet, optedOut, job, sends, changes>>

(* The engine restarts: rows survive, the job and the poll do not. *)
PushRestart ==
  /\ job' = NoJob /\ polling' = <<>>
  /\ job # NoJob \/ polling # <<>>
  /\ UNCHANGED <<bound, installed, quiet, optedOut, receipts, lost, sends, changes>>

PushNext ==
  \/ \E o \in PushOwner, t \in Token : register(o, t) \/ unregister(o, t)
  \/ \E t \in Token : Uninstall(t)
  \/ \E o \in PushOwner, q \in QuietChoices : setQuietHours(o, q)
  \/ \E o \in PushOwner, m \in 0..DayLen - 1 :
       fillRecorded(o, m) \/ strategyCompleted(o, m) \/ deadManAlert(o, m)
  \/ \E now \in SUBSET (1..ChunkSize) : SendChunk(now)
  \/ ChunkFails \/ NothingToSend \/ PollBegin
  \/ \E ready \in SUBSET (1..BatchLimit) : PollEnd(ready)
  \/ PushRestart

(* The poll timer fires and its fetch returns or throws (index.ts keeps    *)
(* the interval running); restarts do not go on for ever.                  *)
PushFairness ==
  /\ WF_pushVars(PollBegin)
  /\ SF_pushVars(\E ready \in SUBSET (1..BatchLimit) : PollEnd(ready))

PushSpec == PushInit /\ [][PushNext]_pushVars /\ PushFairness

----------------------------------------------------------------------------
(* Pruning removes only tokens of devices that are gone: tickets and       *)
(* receipts stay aligned with the tokens they are for when a chunk fails,  *)
(* a poll reads a batch, or rows are added and removed under it (Notifier: *)
(* "keep ticket-token alignment").                                         *)
LiveTokensKept == lost = {}

(* Every receipt row goes: answered, or dropped once it is too old, even   *)
(* when a row that is never answered stands first in a full batch          *)
(* (pollPushReceipts, "reap stale rows").                                  *)
ReceiptsSettle == []<>(receipts = <<>>)
=============================================================================
