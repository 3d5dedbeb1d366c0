---------------------------- MODULE IosDispatcher ----------------------------
(***************************************************************************)
(* The iOS flush engine: the actor SyncDispatcher over the Core Data       *)
(* queue.  Its rows have the shape of the Android ones (SyncQueue); what   *)
(* the statements of SyncItemDao write is not the same: an attempt is      *)
(* counted when an item is marked, not when its outcome is recorded, and a *)
(* rejected token gives it back.                                           *)
(*                                                                         *)
(* An actor is left at every await, so flush() calls interleave there.     *)
(* Only the flag isCycleRunning keeps cycles apart; a call that finds it   *)
(* set returns and changes nothing.  A cycle sends its items one by one    *)
(* from the rows it fetched at its start.  Launch recovery does not take   *)
(* part in this: it runs beside the cycles.                                *)
(*                                                                         *)
(* A statement is one step, and so are marking an item and sending it, and *)
(* an answer and the write it leads to: nothing that comes in between      *)
(* reads or writes what they do.                                           *)
(***************************************************************************)
EXTENDS SyncQueue

CONSTANTS
  Caller,          \* tasks that may call flush
  NoItem,
  Budgets,         \* values retryPolicy.maxAttempts may take
  BatchSize,       \* config.batchSize, at least 1
  Delays,          \* what RetryPolicyEvaluator.nextDelayMs may return
  CredentialHold,  \* kMinCredentialHoldMs
  MaxTime,         \* bound on the clock
  MaxFaults        \* bound on process deaths and failing storage statements

ASSUME IosDispatcherAssumption ==
  /\ NoItem \notin Item
  /\ Budgets \subseteq Nat \ {0} /\ Budgets # {}
  /\ BatchSize \in Nat \ {0}
  /\ Delays \subseteq Nat /\ Delays # {}
  /\ CredentialHold \in Nat
  /\ MaxTime \in Nat
  /\ MaxFaults \in Nat

VARIABLES
  rows,     \* the persisted table
  now,      \* the wall clock
  config,   \* the actor's config: where it came from, and maxAttempts
  paused,   \* hooks.paused, and its copy on disk
  startup,  \* SyncEngine.startup: launch recovery is still to run, or it has run
  faults,   \* faults so far
  running,  \* isCycleRunning
  pc,       \* where each caller is in flush
  cyc,      \* the local variables of each caller's cycle
  ledger    \* history: what happened to the dispatches of each item

envVars == <<now, config, paused, startup, faults>>
vars == <<rows, envVars, running, pc, cyc, ledger>>
-----------------------------------------------------------------------------
\* "LIVE" is every configuration without restored headers; "UNAVAILABLE" one whose
\* restored headers could not be read.
Sources == {"LIVE", "PERSISTED", "UNAVAILABLE"}
Config  == [source : Sources, budget : Budgets]

\* "item" is the head of the dispatch loop, "rearm" the await of onCycleFinished.
PC == {"idle", "fetch", "item", "wire", "record", "finish", "rearm"}

CycleVars == [snap     : [Item -> Row],         \* the rows as getPending returned them
              todo     : SUBSET Item,           \* of those, the ones still to send
              item     : Item \cup {NoItem},    \* the one being sent
              sentWith : Sources,               \* the source of the config it went out with
              held     : Nat]                   \* credentialHeldUntil, 0 when there is none
NoCycle == [snap |-> [i \in Item |-> NewRow], todo |-> {}, item |-> NoItem,
            sentWith |-> "LIVE", held |-> 0]

Entry == [tries   : Nat,        \* dispatches begun
          held    : Nat,        \* refunded: a restored token was rejected
          lost    : Nat,        \* begun, but the outcome never reached the row
          due     : Nat,        \* when the cooldown of the last recorded failure ends
          carried : Sources,    \* the credential of the last dispatch
          answer  : {"none", "unauthorized", "other"}]  \* and what the server said
NoEntry == [tries |-> 0, held |-> 0, lost |-> 0, due |-> 0, carried |-> "LIVE", answer |-> "none"]

\* Epoch milliseconds: a clock that shows 0 would make a cooldown look like none.
Init ==
  /\ rows = [i \in Item |-> NewRow]
  /\ now = 1
  /\ config \in Config
  /\ paused \in BOOLEAN
  /\ startup = "pending"
  /\ faults = 0
  /\ running = FALSE
  /\ pc = [c \in Caller |-> "idle"]
  /\ cyc = [c \in Caller |-> NoCycle]
  /\ ledger = [i \in Item |-> NoEntry]

Fault == faults < MaxFaults /\ faults' = faults + 1

Goto(c, l) == pc' = [pc EXCEPT ![c] = l]

Locals(c, r) == cyc' = [cyc EXCEPT ![c] = r]

\* The history of an item ends with its row.
Note(i, e) == ledger' = [ledger EXCEPT ![i] = IF i \in Stored(rows) THEN e ELSE NoEntry]
-----------------------------------------------------------------------------
(***************************************************************************)
(* flush and the head of runCycle.                                         *)
(***************************************************************************)

\* restoreCredentialsIfNeeded: unreadable headers are read again.
Reloaded == IF config.source = "UNAVAILABLE" THEN {"UNAVAILABLE", "PERSISTED"}
                                             ELSE {config.source}

\* Up to the first await.  A paused engine, headers that cannot be read and a running
\* cycle end the call without a trace.
BeginCycle(c) ==
  /\ pc[c] = "idle"
  /\ ~paused
  /\ \E s \in Reloaded \ {"UNAVAILABLE"} : config' = [config EXCEPT !.source = s]
  /\ running' = TRUE
  /\ Goto(c, "fetch")
  /\ UNCHANGED <<rows, now, paused, startup, faults, cyc, ledger>>

\* The flag set only after the first await.
BugFlush(c) == BeginCycle(c)

Flush(c) == ~running /\ BeginCycle(c)

Fetch(c) ==
  /\ pc[c] = "fetch"
  /\ \E ids \in Claims(rows, now, BatchSize) :
       /\ Locals(c, [cyc[c] EXCEPT !.snap = [i \in Item |-> IF i \in ids THEN rows[i] ELSE NewRow],
                                   !.todo = ids])
       /\ Goto(c, IF ids = {} THEN "record" ELSE "item")
  /\ UNCHANGED <<rows, envVars, running, ledger>>
-----------------------------------------------------------------------------
(***************************************************************************)
(* The dispatch loop.                                                      *)
(***************************************************************************)

\* SyncItemDao.markInFlight: whatever the row's status, if there is a row.
MarkAttempt(q, i) ==
  UpdateStatus(q, i, "IN_FLIGHT", q[i].attempts + 1, q[i].nextRetryAt)

\* The next item of the fetched list, also when its row was removed meanwhile.
StartItem(c) ==
  /\ pc[c] = "item" /\ ~paused
  /\ \E i \in Heads(cyc[c].snap, cyc[c].todo) :
       /\ rows' = MarkAttempt(rows, i)
       /\ Locals(c, [cyc[c] EXCEPT !.todo = @ \ {i}, !.item = i, !.sentWith = config.source])
       /\ Note(i, [ledger[i] EXCEPT !.tries = @ + 1, !.carried = config.source, !.answer = "none"])
  /\ Goto(c, "wire")
  /\ UNCHANGED <<envVars, running>>

\* Nothing left, or paused since: the rest stays PENDING.
LeaveLoop(c) ==
  /\ pc[c] = "item"
  /\ paused \/ cyc[c].todo = {}
  /\ Goto(c, "record")
  /\ UNCHANGED <<rows, envVars, running, cyc, ledger>>

\* The answer to the item on the wire came and the table became q.
Answered(c, q, entry, next) ==
  /\ pc[c] = "wire"
  /\ rows' = q
  /\ Note(cyc[c].item, entry)
  /\ Goto(c, next)
  /\ UNCHANGED <<envVars, running>>

Succeed(c) ==
  /\ Answered(c, MarkSucceeded(rows, cyc[c].item), NoEntry, "item")
  /\ UNCHANGED cyc

\* recordFailureOutcome counts from the row as it was fetched, and against the policy
\* of the moment.
Exhausted(c) == cyc[c].snap[cyc[c].item].attempts + 1 >= config.budget

\* A retry without its cooldown.
BugMarkPendingForRetry(q, i, at) == UpdateStatus(q, i, "PENDING", q[i].attempts, q[i].nextRetryAt)

\* SyncItemDao.markPendingForRetry; the attempt stays spent.
MarkPendingForRetry(q, i, at) == UpdateStatus(q, i, "PENDING", q[i].attempts, at)

\* One attempt more than the policy allows.
BugReschedule(c) ==
  LET i == cyc[c].item
  IN /\ pc[c] = "wire" /\ ~(cyc[c].snap[i].attempts + 1 > config.budget)
     /\ \E d \in Delays : Answered(c, MarkPendingForRetry(rows, i, now + d),
                                   [ledger[i] EXCEPT !.due = now + d, !.answer = "other"], "item")
     /\ UNCHANGED cyc

\* A retryable failure with budget left.
Reschedule(c) ==
  LET i == cyc[c].item
  IN /\ pc[c] = "wire" /\ ~Exhausted(c)
     /\ \E d \in Delays : Answered(c, MarkPendingForRetry(rows, i, now + d),
                                   [ledger[i] EXCEPT !.due = now + d, !.answer = "other"], "item")
     /\ UNCHANGED cyc

\* The verdict on the configuration of the moment.
BugIsStaleCredential(c) == config.source = "PERSISTED"

\* isStaleCredentialRejection, for a 401 or 403.
IsStaleCredential(c) == cyc[c].sentWith = "PERSISTED"

\* SyncItemDao.markFailed writes the status alone.
FailTerminally(c) ==
  LET i == cyc[c].item
  IN /\ pc[c] = "wire"
     /\ \E answer \in {"unauthorized", "other"} :
          /\ answer = "unauthorized" => ~IsStaleCredential(c)
          /\ Answered(c, UpdateStatus(rows, i, "FAILED", rows[i].attempts, rows[i].nextRetryAt),
                      [ledger[i] EXCEPT !.answer = answer], "item")
     /\ UNCHANGED cyc

\* max(delayMs, kMinCredentialHoldMs)
HoldDelays == {IF d > CredentialHold THEN d ELSE CredentialHold : d \in Delays}

\* The refund taken off the row instead of put back from the fetched one.
BugRefunded(c, i) == cyc[c].snap[i].attempts - 1

Refunded(c, i) == cyc[c].snap[i].attempts

\* markCredentialRejected: the attempt is given back, and the cycle ends here.
RejectCredential(c) ==
  LET i == cyc[c].item
  IN /\ pc[c] = "wire" /\ IsStaleCredential(c)
     /\ \E wait \in HoldDelays :
          /\ Answered(c, UpdateStatus(rows, i, "PENDING", Refunded(c, i), now + wait),
                      [ledger[i] EXCEPT !.held = @ + 1, !.due = now + wait, !.answer = "unauthorized"],
                      "record")
          /\ Locals(c, [cyc[c] EXCEPT !.held = now + wait])
-----------------------------------------------------------------------------
(***************************************************************************)
(* The end of a cycle.                                                     *)
(***************************************************************************)
\* runCycle is left; only the hold, a property of the actor, survives it.
LeaveCycle(c) ==
  /\ Goto(c, "finish")
  /\ Locals(c, [NoCycle EXCEPT !.held = cyc[c].held])

RecordResult(c) ==
  /\ pc[c] = "record"
  /\ LeaveCycle(c)
  /\ UNCHANGED <<rows, envVars, running, ledger>>

\* Any statement of the cycle throws: nothing was written, and an item on the wire
\* keeps the row it has.
Throws(c) ==
  /\ pc[c] \in {"fetch", "item", "wire", "record"}
  /\ Fault
  /\ IF pc[c] = "wire"
     THEN Note(cyc[c].item, [ledger[cyc[c].item] EXCEPT !.lost = @ + 1])
     ELSE UNCHANGED ledger
  /\ LeaveCycle(c)
  /\ UNCHANGED <<rows, now, config, paused, startup, running>>

\* finishCycle: the flag falls before onCycleFinished is awaited.
Finish(c) ==
  /\ pc[c] = "finish"
  /\ running' = FALSE
  /\ Goto(c, "rearm")
  /\ UNCHANGED <<rows, envVars, cyc, ledger>>

\* onCycleFinished came back, and so does flush.
Return(c) ==
  /\ pc[c] = "rearm"
  /\ Locals(c, NoCycle)
  /\ Goto(c, "idle")
  /\ UNCHANGED <<rows, envVars, running, ledger>>
-----------------------------------------------------------------------------
(***************************************************************************)
(* The rest of the process, JS and the OS.                                 *)
(***************************************************************************)

\* RecoveryManager.recoverPendingItems, once per process; a failure is only logged.
Recover ==
  /\ startup = "pending" /\ startup' = "done"
  /\ \/ rows' = ResetInFlight(rows) /\ UNCHANGED faults
     \/ Fault /\ UNCHANGED rows
  /\ UNCHANGED <<now, config, paused, running, pc, cyc, ledger>>

\* enqueue and enqueueBatch; the cap was looked at in an earlier statement.
Enqueue ==
  /\ \E ids \in SUBSET {i \in Item : rows[i].status = "NEW"} :
       ids # {} /\ rows' = Insert(rows, ids, now)
  /\ UNCHANGED <<envVars, running, pc, cyc, ledger>>

\* removeItem and clear, whatever the row's status.
Remove ==
  /\ \E ids \in {{i} : i \in Stored(rows)} \cup {Stored(rows)} :
       /\ ids # {}
       /\ rows' = Delete(rows, ids)
       /\ ledger' = [i \in Item |-> IF i \in ids THEN NoEntry ELSE ledger[i]]
  /\ UNCHANGED <<envVars, running, pc, cyc>>

\* updateConfig with what the app passed to configureSync.
UpdateConfig ==
  /\ \E b \in Budgets : config' = [source |-> "LIVE", budget |-> b]
  /\ UNCHANGED <<rows, now, paused, startup, faults, running, pc, cyc, ledger>>

SetPaused(p) ==
  /\ paused' = p
  /\ UNCHANGED <<rows, now, config, startup, faults, running, pc, cyc, ledger>>

Sending(i) == \E c \in Caller : pc[c] = "wire" /\ cyc[c].item = i

\* Process death.  The table and the pause are on disk; what the next process restores
\* as configuration depends on what was saved and can be read.
Kill ==
  /\ Fault
  /\ config' \in Config
  /\ startup' = "pending"
  /\ running' = FALSE
  /\ pc' = [c \in Caller |-> "idle"]
  /\ cyc' = [c \in Caller |-> NoCycle]
  /\ ledger' = [i \in Item |-> IF Sending(i) /\ i \in Stored(rows)
                               THEN [ledger[i] EXCEPT !.lost = @ + 1] ELSE ledger[i]]
  /\ UNCHANGED <<rows, now, paused>>

Tick ==
  /\ now < MaxTime
  /\ now' = now + 1
  /\ UNCHANGED <<rows, config, paused, startup, faults, running, pc, cyc, ledger>>
-----------------------------------------------------------------------------
ItemStep(c) ==
  \/ StartItem(c) \/ LeaveLoop(c)
  \/ Succeed(c) \/ Reschedule(c) \/ FailTerminally(c) \/ RejectCredential(c)

\* What a cycle does between its first await and onCycleFinished.
CycleStep(c) == Fetch(c) \/ ItemStep(c) \/ RecordResult(c) \/ Throws(c)

Next ==
  \/ \E c \in Caller : Flush(c) \/ CycleStep(c) \/ Finish(c) \/ Return(c)
  \/ Recover \/ Enqueue \/ Remove \/ UpdateConfig \/ Kill \/ Tick
  \/ \E p \in BOOLEAN : SetPaused(p)

Spec == Init /\ [][Next]_vars
-----------------------------------------------------------------------------
\* The table holds rows, the clock has started, and the callers' locals have their
\* types; in particular no refund takes a count below zero.
TypeOK ==
  /\ rows \in [Item -> Row]
  /\ now \in Nat \ {0}
  /\ config \in Config
  /\ paused \in BOOLEAN
  /\ startup \in {"pending", "done"}
  /\ faults \in Nat
  /\ running \in BOOLEAN
  /\ pc \in [Caller -> PC]
  /\ cyc \in [Caller -> CycleVars]
  /\ ledger \in [Item -> Entry]

\* The persisted attempts count every dispatch begun and not refunded, whatever reset,
\* removal, configuration or process death falls between the mark and the outcome, and
\* an item is sent again past its budget only for an outcome that was lost or refunded
\* (markInFlight, recordFailureOutcome, markCredentialRejected).
BudgetKept ==
  \A i \in Stored(rows) :
    /\ ledger[i].tries = rows[i].attempts + ledger[i].held
    /\ \E b \in Budgets : ledger[i].tries <= b + ledger[i].held + ledger[i].lost

\* No dispatch of an item starts before the cooldown of its last recorded failure has
\* run, although the cycle works from rows it fetched earlier, launch recovery resets
\* rows under it, and the process may die in between (fetchPending, markPendingForRetry).
CooldownKept ==
  [][\A i \in Item : ledger'[i].tries > ledger[i].tries => now >= ledger[i].due]_vars

\* Whatever calls of flush come in at the awaits of a cycle, no two cycles run at once,
\* the time between the end of one and the fall of its flag included (flush, finishCycle).
InCycle == {"fetch", "item", "wire", "record", "finish"}

OneCycle ==
  \A c \in Caller : pc[c] \in InCycle => running /\ \A d \in Caller \ {c} : pc[d] \notin InCycle

\* A 401 is judged by the credential the request carried, not by the one configured
\* since: final for an item sent with the app's own, never for one sent with headers
\* read back from disk (recordFailureOutcome, isStaleCredentialRejection).
CredentialVerdict ==
  \A i \in Stored(rows) :
    ledger[i].answer = "unauthorized" =>
      (rows[i].status = "FAILED") = (ledger[i].carried = "LIVE")
-----------------------------------------------------------------------------
(***************************************************************************)
(* What the engine implements.  Launch recovery may reset the row of an    *)
(* item that is on the wire, so the row's status does not tell whether it  *)
(* is being sent.  The attempt under way is already counted in the row.    *)
(***************************************************************************)
BeingSent(i) == Sending(i) /\ i \in Stored(rows)

Lifecycle(i) ==
  CASE BeingSent(i)                  -> "sending"
    [] rows[i].status = "NEW"        -> "new"
    [] rows[i].status = "GONE"       -> "gone"
    [] ~BeingSent(i) /\ rows[i].status = "FAILED" -> "failed"
    [] OTHER                         -> "queued"

Delivery == INSTANCE DeliveryQueue WITH
  state <- [i \in Item |-> Lifecycle(i)],
  spent <- [i \in Item |-> rows[i].attempts - (IF BeingSent(i) THEN 1 ELSE 0)]

\* The actor, with its reentrant calls, its stale rows, the recovery that runs beside
\* it and its faults, implements the at-least-once delivery queue.
ImplementsDelivery == Delivery!Spec
-----------------------------------------------------------------------------
(***************************************************************************)
(* Inductive invariants behind the properties.                             *)
(***************************************************************************)

\* A row and its history tell the same story: what waits, waits for the cooldown of its
\* last failure; and a row that is not stored has no history.
HistoryInv ==
  \A i \in Item :
    IF i \in Stored(rows)
    THEN ledger[i].due = rows[i].nextRetryAt /\ ledger[i].tries = rows[i].attempts + ledger[i].held
    ELSE ledger[i] = NoEntry /\ rows[i].attempts = 0

\* A cycle has headers, its copies of the rows it has still to send are up to date,
\* removed rows aside, and the row of the item it sends counts this attempt.
CycleOf(c) ==
  /\ pc[c] \in InCycle => config.source # "UNAVAILABLE"
  /\ pc[c] \in {"item", "wire"} =>
       \A i \in cyc[c].todo :
         /\ cyc[c].snap[i].status = "PENDING" /\ cyc[c].snap[i].nextRetryAt <= now
         /\ rows[i] = cyc[c].snap[i] \/ rows[i].status = "GONE"
  /\ pc[c] = "wire" =>
       LET i == cyc[c].item
       IN /\ i \in Item \ cyc[c].todo
          /\ cyc[c].sentWith # "UNAVAILABLE"
          /\ \/ rows[i].status = "GONE"
             \/ /\ rows[i].status \in {"PENDING", "IN_FLIGHT"}
                /\ rows[i].attempts = cyc[c].snap[i].attempts + 1
                /\ ledger[i].carried = cyc[c].sentWith /\ ledger[i].answer = "none"

CycleInv == \A c \in Caller : CycleOf(c)

\* Some budget, and the dispatches nobody counted, pay for n dispatches of an item.
Affords(i, n) == \E b \in Budgets : n <= b + ledger[i].lost

\* A row that is neither being sent nor failed has an attempt left.
AttemptLeft ==
  \A i \in Stored(rows) :
    Affords(i, rows[i].attempts + (IF BeingSent(i) \/ rows[i].status = "FAILED" THEN 0 ELSE 1))
=============================================================================
