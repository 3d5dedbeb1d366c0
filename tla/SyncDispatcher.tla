--------------------------- MODULE SyncDispatcher ---------------------------
(***************************************************************************)
(* The Android flush engine: SyncDispatcher over the persisted queue.      *)
(*                                                                         *)
(* Callers are the coroutines that call flush(): JS, the retry timer and   *)
(* the WorkManager worker.  Each is somewhere in flush (pc), holds a       *)
(* snapshot of what its cycle read (cred, options, startedAt, the claimed  *)
(* entities) and dispatches the claimed items concurrently (task).  The    *)
(* environment enqueues and removes items, configures, pauses, cancels a   *)
(* caller, kills the process and makes a storage statement throw.          *)
(*                                                                         *)
(* Every cycle keeps its state under its own caller: that no two cycles    *)
(* overlap is a consequence of flushMutex, not of the shape of the model.  *)
(***************************************************************************)
EXTENDS SyncQueue

CONSTANTS
  Caller,          \* coroutines that may call flush
  NoCaller, NoItem,
  Budgets,         \* values retryPolicy.maxAttempts may take (coerced to >= 1)
  BatchSize,       \* options.batchSize, coerced to >= 1
  Delays,          \* what computeDelayMs may return, jitter included
  CredentialHold,  \* MIN_CREDENTIAL_HOLD_MS
  MaxTime,         \* bound on the clock
  MaxFaults        \* bound on process deaths and failing storage statements

ASSUME DispatcherAssumption ==
  /\ NoCaller \notin Caller
  /\ NoItem \notin Item
  /\ Budgets \subseteq Nat \ {0} /\ Budgets # {}
  /\ BatchSize \in Nat \ {0}
  /\ Delays \subseteq Nat /\ Delays # {}
  /\ CredentialHold \in Nat
  /\ MaxTime \in Nat
  /\ MaxFaults \in Nat

VARIABLES
  rows,       \* the persisted table
  now,        \* the wall clock
  config,     \* configRef: maxAttempts and where the headers came from
  paused,     \* pausedFlag
  recovery,   \* the unique recovery work of WorkManager
  faults,     \* faults so far
  mutex,      \* holder of flushMutex
  pc,         \* where each caller is in flush
  task,       \* progress of each item a caller claimed
  cyc,        \* the local variables of each caller's cycle
  \* History, read by the properties only.
  orphan,     \* IN_FLIGHT rows whose cycle ended without recording them
  ledger      \* what happened to the dispatches of each item

envVars == <<now, config, paused, recovery, faults>>
vars == <<rows, envVars, mutex, pc, task, cyc, orphan, ledger>>
-----------------------------------------------------------------------------
\* "LIVE" is every configuration without restored headers: set by JS in this
\* process, the defaults, or restored but carrying no header.
Sources     == {"LIVE", "PERSISTED", "UNAVAILABLE"}
Credentials == {"TRUSTED", "PERSISTED", "UNAVAILABLE"}
Config      == [source : Sources, budget : Budgets]

\* A claimed item is "todo" until its dispatch starts and on the "wire" until
\* its outcome is recorded; "held" is ItemOutcome.CredentialRejected.
TaskStates  == {"none", "todo", "wire", "done", "held"}
Active      == {"todo", "wire"}
NoTask      == [i \in Item |-> "none"]

RecoveryStates == {"none", "queued", "running"}

InCycle     == {"policy", "starting", "first", "release", "rest", "record", "emit",
                "abortCancel", "abortError", "finish"}
PC          == {"idle", "lock"} \cup InCycle

CycleVars == [cancelled : BOOLEAN,             \* the caller's job was cancelled
              cred      : Credentials,         \* credentials, read once per cycle
              options   : Config,              \* options, read once per cycle
              startedAt : Nat,
              first     : Item \cup {NoItem},  \* claimed.first() when it probes
              seen      : [Item -> Nat],       \* attempts of each claimed entity
              terminal  : BOOLEAN,             \* terminalEventSent
              closed    : BOOLEAN]             \* history: a terminal event went out
NoCycle == [cancelled |-> FALSE, cred |-> "UNAVAILABLE",
            options |-> [source |-> "UNAVAILABLE", budget |-> CHOOSE b \in Budgets : TRUE],
            startedAt |-> 0, first |-> NoItem, seen |-> [i \in Item |-> 0],
            terminal |-> FALSE, closed |-> FALSE]

Entry == [tries   : Nat,   \* dispatches begun
          held    : Nat,   \* refunded: a restored token was rejected
          lost    : Nat,   \* begun, but the outcome never reached the row
          due     : Nat]   \* when the cooldown of the last recorded failure ends
NoEntry == [tries |-> 0, held |-> 0, lost |-> 0, due |-> 0]

Init ==
  /\ rows = [i \in Item |-> NewRow]
  /\ now = 0
  /\ config \in Config
  /\ paused \in BOOLEAN
  /\ recovery = "none"
  /\ faults = 0
  /\ mutex = NoCaller
  /\ pc = [c \in Caller |-> "idle"]
  /\ task = [c \in Caller |-> NoTask]
  /\ cyc = [c \in Caller |-> NoCycle]
  /\ orphan = {}
  /\ ledger = [i \in Item |-> NoEntry]

Fault == faults < MaxFaults /\ faults' = faults + 1

Goto(c, l) == pc' = [pc EXCEPT ![c] = l]

Locals(c, r) == cyc' = [cyc EXCEPT ![c] = r]

\* The history of an item ends with its row.
Note(i, e) == ledger' = [ledger EXCEPT ![i] = IF i \in Stored(rows) THEN e ELSE NoEntry]
-----------------------------------------------------------------------------
(***************************************************************************)
(* flush: take the mutex, then decide whether there is a cycle at all.     *)
(***************************************************************************)

\* A policy that forgets the headers came from disk.
BugCredentialPolicy(source) ==
  IF source = "UNAVAILABLE" THEN "UNAVAILABLE" ELSE "TRUSTED"

\* credentialPolicy(): headers restored from disk still have to prove themselves.
CredentialPolicy(source) ==
  CASE source = "UNAVAILABLE" -> "UNAVAILABLE"
    [] source = "PERSISTED"   -> "PERSISTED"
    [] OTHER                  -> "TRUSTED"

\* configRecoveringSecret(): an unreadable secret is read again, and may now be there.
Reloaded == IF config.source = "UNAVAILABLE" THEN {"UNAVAILABLE", "PERSISTED"}
                                             ELSE {config.source}

Flush(c) ==
  /\ pc[c] = "idle"
  /\ Goto(c, "lock")
  /\ UNCHANGED <<rows, envVars, mutex, task, cyc, orphan, ledger>>

\* Paused: an empty result, and the mutex is released at once.
SkipPaused(c) ==
  /\ pc[c] = "lock" /\ mutex = NoCaller
  /\ paused
  /\ Goto(c, "idle")
  /\ UNCHANGED <<rows, envVars, mutex, task, cyc, orphan, ledger>>

\* The second early return: headers that cannot be recovered.
SkipUnavailable(c) ==
  /\ pc[c] = "lock" /\ mutex = NoCaller
  /\ ~paused
  /\ \E s \in Reloaded : CredentialPolicy(s) = "UNAVAILABLE"
  /\ Goto(c, "idle")
  /\ UNCHANGED <<rows, envVars, mutex, task, cyc, orphan, ledger>>

ReadPolicy(c) ==
  /\ ~paused
  /\ \E s \in Reloaded :
       /\ CredentialPolicy(s) # "UNAVAILABLE"
       /\ config' = [config EXCEPT !.source = s]
       /\ Locals(c, [cyc[c] EXCEPT !.cred = CredentialPolicy(s)])
  /\ mutex' = c
  /\ Goto(c, "policy")
  /\ UNCHANGED <<rows, now, paused, recovery, faults, task, orphan, ledger>>

\* Cycles that do not wait for each other.
BugEnter(c) == pc[c] = "lock" /\ ReadPolicy(c)

Enter(c) == pc[c] = "lock" /\ mutex = NoCaller /\ ReadPolicy(c)

\* getOptions() is a second read of the configuration: configureSync may have
\* run since credentialPolicy().
Begin(c) ==
  /\ pc[c] = "policy"
  /\ Locals(c, [cyc[c] EXCEPT !.options = config, !.startedAt = now])
  /\ Goto(c, "starting")
  /\ UNCHANGED <<rows, envVars, mutex, task, orphan, ledger>>
-----------------------------------------------------------------------------
(***************************************************************************)
(* runCycle: SYNC_STARTED, then the claim as of startedAt.                 *)
(***************************************************************************)
\* The item that goes first and alone, when the headers were restored from disk.
Probe(c, ids) ==
  IF cyc[c].cred = "PERSISTED" /\ ids # {} THEN Heads(rows, ids) ELSE {NoItem}

Claim(c) ==
  /\ pc[c] = "starting" /\ ~cyc[c].cancelled
  /\ \E ids \in Claims(rows, cyc[c].startedAt, BatchSize) :
       /\ rows' = MarkInFlight(rows, ids)
       /\ task' = [task EXCEPT ![c] = [i \in Item |-> IF i \in ids THEN "todo" ELSE "none"]]
       /\ \E f \in Probe(c, ids) :
            /\ Locals(c, [cyc[c] EXCEPT !.first = f, !.seen = [i \in Item |-> rows[i].attempts]])
            /\ Goto(c, CASE ids = {} -> "record" [] f # NoItem -> "first" [] OTHER -> "rest")
  /\ UNCHANGED <<envVars, mutex, orphan, ledger>>
-----------------------------------------------------------------------------
(***************************************************************************)
(* dispatchItem.  A cancelled cycle starts no further child, but the probe *)
(* runs in the cycle's own coroutine, inside NonCancellable.               *)
(***************************************************************************)
MayStart(c, i) ==
  /\ task[c][i] = "todo"
  /\ \/ pc[c] = "first" /\ i = cyc[c].first
     \/ pc[c] = "rest" /\ ~cyc[c].cancelled

Exhausted(c, i) == cyc[c].seen[i] >= cyc[c].options.budget

\* Off by one: the attempt after the last is let through.
BugStartItem(c, i) ==
  /\ MayStart(c, i) /\ ~(cyc[c].seen[i] > cyc[c].options.budget)
  /\ task' = [task EXCEPT ![c][i] = "wire"]
  /\ Note(i, [ledger[i] EXCEPT !.tries = @ + 1])
  /\ UNCHANGED <<rows, envVars, mutex, pc, cyc, orphan>>

StartItem(c, i) ==
  /\ MayStart(c, i) /\ ~Exhausted(c, i)
  /\ task' = [task EXCEPT ![c][i] = "wire"]
  /\ Note(i, [ledger[i] EXCEPT !.tries = @ + 1])
  /\ UNCHANGED <<rows, envVars, mutex, pc, cyc, orphan>>

\* Dispatching only the head of the batch when it was not rejected.
BugAfterItem(c, result) == IF pc[c] = "first" THEN "rest" ELSE pc[c]

\* Where dispatchClaimed goes after an item: the probe decides, siblings do not.
AfterItem(c, result) ==
  CASE pc[c] = "first" /\ result = "held" -> "release"
    [] pc[c] = "first" /\ result # "held" -> "rest"
    [] OTHER -> pc[c]

EndItem(c, i, result, q) ==
  /\ rows' = q
  /\ task' = [task EXCEPT ![c][i] = result]
  /\ Goto(c, AfterItem(c, result))
  /\ UNCHANGED <<now, config, paused, recovery, mutex, cyc>>

\* maxAttempts was lowered since: no request, the row fails with its old count.
FailExhausted(c, i) ==
  /\ MayStart(c, i) /\ Exhausted(c, i)
  /\ EndItem(c, i, "done", MarkFailed(rows, i, cyc[c].seen[i]))
  /\ UNCHANGED <<faults, orphan, ledger>>

Succeed(c, i) ==
  /\ task[c][i] = "wire"
  /\ EndItem(c, i, "done", MarkSucceeded(rows, i))
  /\ Note(i, NoEntry)
  /\ UNCHANGED <<faults, orphan>>

\* The cooldown measured from the start of the cycle.
BugReschedule(c, i) ==
  /\ task[c][i] = "wire"
  /\ cyc[c].seen[i] + 1 < cyc[c].options.budget
  /\ \E d \in Delays :
       /\ EndItem(c, i, "done", MarkRetry(rows, i, cyc[c].seen[i] + 1, cyc[c].startedAt + d))
       /\ Note(i, [ledger[i] EXCEPT !.due = now + d])
  /\ UNCHANGED <<faults, orphan>>

\* Retryable failure with budget left; the cooldown runs from the end of the attempt.
Reschedule(c, i) ==
  /\ task[c][i] = "wire"
  /\ cyc[c].seen[i] + 1 < cyc[c].options.budget
  /\ \E d \in Delays :
       /\ EndItem(c, i, "done", MarkRetry(rows, i, cyc[c].seen[i] + 1, now + d))
       /\ Note(i, [ledger[i] EXCEPT !.due = now + d])
  /\ UNCHANGED <<faults, orphan>>

\* maxOf(retryDelayMs, MIN_CREDENTIAL_HOLD_MS)
HoldDelays == {IF d > CredentialHold THEN d ELSE CredentialHold : d \in Delays}

\* A rejected token that spends an attempt of the item.
BugHoldForCredentialRenewal(c, i) ==
  /\ task[c][i] = "wire"
  /\ cyc[c].cred = "PERSISTED"
  /\ \E wait \in HoldDelays :
       /\ EndItem(c, i, "held", MarkRetry(rows, i, cyc[c].seen[i] + 1, now + wait))
       /\ Note(i, [ledger[i] EXCEPT !.held = @ + 1, !.due = now + wait])
  /\ UNCHANGED <<faults, orphan>>

\* 401 or 403 with restored headers: the attempt is not spent.
HoldForCredentialRenewal(c, i) ==
  /\ task[c][i] = "wire"
  /\ cyc[c].cred = "PERSISTED"
  /\ \E wait \in HoldDelays :
       /\ EndItem(c, i, "held", MarkRetry(rows, i, cyc[c].seen[i], now + wait))
       /\ Note(i, [ledger[i] EXCEPT !.held = @ + 1, !.due = now + wait])
  /\ UNCHANGED <<faults, orphan>>

\* Not retryable (a request that cannot be built included), or no budget left.
FailTerminally(c, i) ==
  /\ task[c][i] = "wire"
  /\ EndItem(c, i, "done", MarkFailed(rows, i, cyc[c].seen[i] + 1))
  /\ UNCHANGED <<faults, orphan, ledger>>

\* The statement that should have recorded the outcome throws: runCatching turns
\* it into a Failed outcome of the cycle and the row stays as it is.
LoseOutcome(c, i) ==
  /\ task[c][i] = "wire" \/ (MayStart(c, i) /\ Exhausted(c, i))
  /\ Fault
  /\ EndItem(c, i, "done", rows)
  /\ orphan' = orphan \cup ({i} \cap InFlight(rows))
  /\ Note(i, [ledger[i] EXCEPT !.lost = IF task[c][i] = "wire" THEN @ + 1 ELSE @])
-----------------------------------------------------------------------------
(***************************************************************************)
(* The rest of runCycle.                                                   *)
(***************************************************************************)
Unstarted(c) == [i \in Item |-> IF task[c][i] = "todo" THEN "none" ELSE task[c][i]]

\* The restored token was rejected: release what the cycle claimed.
Release(c) ==
  /\ pc[c] = "release" /\ ~cyc[c].cancelled
  /\ rows' = ResetInFlight(rows)
  /\ orphan' = {}
  /\ task' = [task EXCEPT ![c] = Unstarted(c)]
  /\ Goto(c, "record")
  /\ UNCHANGED <<envVars, mutex, cyc, ledger>>

\* awaitAll of the supervisor scope.
Joined(c) ==
  /\ pc[c] = "rest" /\ ~cyc[c].cancelled
  /\ \A i \in Item : task[c][i] \notin Active
  /\ Goto(c, "record")
  /\ UNCHANGED <<rows, envVars, mutex, task, cyc, orphan, ledger>>

\* recordResult, then terminalEventSent = true.
RecordResult(c) ==
  /\ pc[c] = "record" /\ ~cyc[c].cancelled
  /\ Locals(c, [cyc[c] EXCEPT !.terminal = TRUE])
  /\ Goto(c, "emit")
  /\ UNCHANGED <<rows, envVars, mutex, task, orphan, ledger>>

\* SYNC_SUCCEEDED or SYNC_FAILED.
EmitTerminal(c) ==
  /\ pc[c] = "emit" /\ ~cyc[c].cancelled
  /\ Locals(c, [cyc[c] EXCEPT !.closed = TRUE])
  /\ Goto(c, "finish")
  /\ UNCHANGED <<rows, envVars, mutex, task, orphan, ledger>>

\* A supervisor scope that does not wait for its children.
BugObserveCancel(c) ==
  /\ cyc[c].cancelled
  /\ pc[c] \in {"starting", "first", "release", "rest", "record", "emit"}
  /\ Goto(c, "abortCancel")
  /\ UNCHANGED <<rows, envVars, mutex, task, cyc, orphan, ledger>>

\* CancellationException surfaces at a cancellable suspension point; the scope
\* first waits for every dispatch that started.
ObserveCancel(c) ==
  /\ cyc[c].cancelled
  /\ pc[c] \in {"starting", "first", "release", "rest", "record", "emit"}
  /\ \A i \in Item : task[c][i] # "wire"
  /\ Goto(c, "abortCancel")
  /\ UNCHANGED <<rows, envVars, mutex, task, cyc, orphan, ledger>>

\* claimPending, resetInFlight or recordResult throws: nothing was written.
StorageThrows(c) ==
  /\ pc[c] \in {"starting", "release", "record"} /\ ~cyc[c].cancelled
  /\ Fault
  /\ Goto(c, "abortError")
  /\ UNCHANGED <<rows, now, config, paused, recovery, mutex, task, cyc, orphan, ledger>>

EmitFailed(c) == Locals(c, [cyc[c] EXCEPT !.closed = @ \/ ~cyc[c].terminal])

\* An abort that only reports.
BugAbortCancelled(c) ==
  /\ pc[c] = "abortCancel"
  /\ task' = [task EXCEPT ![c] = Unstarted(c)]
  /\ EmitFailed(c)
  /\ Goto(c, "finish")
  /\ UNCHANGED <<rows, envVars, mutex, orphan, ledger>>

\* abortCycle on cancellation: release the rows that never started.
AbortCancelled(c) ==
  /\ pc[c] = "abortCancel"
  /\ rows' = ResetInFlight(rows)
  /\ orphan' = {}
  /\ task' = [task EXCEPT ![c] = Unstarted(c)]
  /\ EmitFailed(c)
  /\ Goto(c, "finish")
  /\ UNCHANGED <<envVars, mutex, ledger>>

\* abortCycle when nothing is released: another exception, or the reset itself
\* throws (a fault of its own, logged).
AbortUnreleased(c) ==
  /\ \/ pc[c] = "abortError" /\ UNCHANGED faults
     \/ pc[c] = "abortCancel" /\ Fault
  /\ orphan' = orphan \cup {i \in InFlight(rows) : task[c][i] = "todo"}
  /\ task' = [task EXCEPT ![c] = Unstarted(c)]
  /\ EmitFailed(c)
  /\ Goto(c, "finish")
  /\ UNCHANGED <<rows, now, config, paused, recovery, mutex, ledger>>

\* A lock that is only given back when the cycle was not cancelled.
BugFinish(c) ==
  /\ pc[c] = "finish"
  /\ mutex' = IF cyc[c].cancelled THEN c ELSE NoCaller
  /\ task' = [task EXCEPT ![c] = NoTask]
  /\ Locals(c, NoCycle)
  /\ Goto(c, "idle")
  /\ UNCHANGED <<rows, envVars, orphan, ledger>>

\* finally: onCycleFinished, whose own failures are logged, then the mutex.
Finish(c) ==
  /\ pc[c] = "finish"
  /\ mutex' = NoCaller
  /\ task' = [task EXCEPT ![c] = NoTask]
  /\ Locals(c, NoCycle)
  /\ Goto(c, "idle")
  /\ UNCHANGED <<rows, envVars, orphan, ledger>>
-----------------------------------------------------------------------------
(***************************************************************************)
(* Recovery.  Both callers of dispatcher.resetInFlight take the mutex; the *)
(* update is the only statement under it.                                  *)
(***************************************************************************)

\* A reset that does not take the flush mutex.
BugResetUnderMutex ==
  /\ rows' = ResetInFlight(rows)
  /\ orphan' = {}

ResetUnderMutex ==
  /\ mutex = NoCaller
  /\ rows' = ResetInFlight(rows)
  /\ orphan' = {}

\* Recovery that, like a flush, does nothing while paused.
BugRecoveryWorker ==
  /\ recovery = "queued" /\ ~paused
  /\ ResetUnderMutex
  /\ recovery' = "running"
  /\ UNCHANGED <<now, config, paused, faults, mutex, pc, task, cyc, ledger>>

\* resetInFlight whether or not the provider is paused.
RecoveryWorker ==
  /\ recovery = "queued"
  /\ ResetUnderMutex
  /\ recovery' = "running"
  /\ UNCHANGED <<now, config, paused, faults, mutex, pc, task, cyc, ledger>>

\* The rest of the worker arms the next wake; a failure there queues it again.
RecoveryEnds ==
  /\ recovery = "running"
  /\ recovery' \in {"none", "queued"}
  /\ UNCHANGED <<rows, now, config, paused, faults, mutex, pc, task, cyc, orphan, ledger>>

\* A worker in a process without a JS engine, before it flushes.  Whether background
\* dispatch is foregroundOnly and whether an engine is attached is left open.
SyncWorkerReset ==
  /\ ~paused
  /\ ResetUnderMutex
  /\ UNCHANGED <<envVars, mutex, pc, task, cyc, ledger>>
-----------------------------------------------------------------------------
(***************************************************************************)
(* The environment: JS, the OS and time.                                   *)
(***************************************************************************)

\* enqueue and enqueueBatch.  The cap was checked in an earlier statement and may
\* be stale by now, so it does not guard the insert.
Enqueue ==
  /\ \E ids \in SUBSET {i \in Item : rows[i].status = "NEW"} :
       ids # {} /\ rows' = Insert(rows, ids, now)
  /\ UNCHANGED <<envVars, mutex, pc, task, cyc, orphan, ledger>>

\* removeItem and clear, whatever the row's status.
Remove ==
  /\ \E ids \in {{i} : i \in Stored(rows)} \cup {Stored(rows)} :
       /\ ids # {}
       /\ rows' = Delete(rows, ids)
       /\ orphan' = orphan \ ids
       /\ ledger' = [i \in Item |-> IF i \in ids THEN NoEntry ELSE ledger[i]]
  /\ UNCHANGED <<envVars, mutex, pc, task, cyc>>

Configure ==
  /\ \E b \in Budgets : config' = [source |-> "LIVE", budget |-> b]
  /\ UNCHANGED <<rows, now, paused, recovery, faults, mutex, pc, task, cyc, orphan, ledger>>

PauseOrResume ==
  /\ paused' = ~paused
  /\ UNCHANGED <<rows, now, config, recovery, faults, mutex, pc, task, cyc, orphan, ledger>>

\* attachEngine: a new engine starts unpaused and schedules recovery, which KEEPs
\* the one that is already queued or running.
AttachEngine ==
  /\ paused' = FALSE
  /\ recovery' = IF recovery = "none" THEN "queued" ELSE recovery
  /\ UNCHANGED <<rows, now, config, faults, mutex, pc, task, cyc, orphan, ledger>>

\* dispose cancels the JS callers, WorkManager stops a worker.  A caller still
\* waiting for the mutex leaves at once.
Cancel(c) ==
  /\ \/ pc[c] = "lock" /\ Goto(c, "idle") /\ UNCHANGED cyc
     \/ /\ pc[c] \in InCycle /\ ~cyc[c].cancelled
        /\ Locals(c, [cyc[c] EXCEPT !.cancelled = TRUE])
        /\ UNCHANGED pc
  /\ UNCHANGED <<rows, envVars, mutex, task, orphan, ledger>>

\* Process death.  The table and the paused flag are on disk and WorkManager runs
\* interrupted work again; what the next process loads as configuration depends on
\* what was saved and can be read.
Crash ==
  /\ Fault
  /\ \E cfg \in Config : config' = cfg
  /\ recovery' = IF recovery = "running" THEN "queued" ELSE recovery
  /\ mutex' = NoCaller
  /\ pc' = [c \in Caller |-> "idle"]
  /\ task' = [c \in Caller |-> NoTask]
  /\ cyc' = [c \in Caller |-> NoCycle]
  /\ orphan' = InFlight(rows)
  /\ ledger' = [i \in Item |->
                 IF i \in Stored(rows) /\ \E c \in Caller : task[c][i] = "wire"
                 THEN [ledger[i] EXCEPT !.lost = @ + 1] ELSE ledger[i]]
  /\ UNCHANGED <<rows, now, paused>>

Tick ==
  /\ now < MaxTime
  /\ now' = now + 1
  /\ UNCHANGED <<rows, config, paused, recovery, faults, mutex, pc, task, cyc, orphan, ledger>>
-----------------------------------------------------------------------------
ItemStep(c, i) ==
  \/ StartItem(c, i) \/ FailExhausted(c, i) \/ Succeed(c, i) \/ Reschedule(c, i)
  \/ HoldForCredentialRenewal(c, i) \/ FailTerminally(c, i) \/ LoseOutcome(c, i)

\* Steps a caller that holds the mutex takes by itself.
CycleStep(c) ==
  \/ Begin(c) \/ Claim(c) \/ Release(c) \/ Joined(c) \/ RecordResult(c) \/ EmitTerminal(c)
  \/ ObserveCancel(c) \/ StorageThrows(c) \/ AbortCancelled(c) \/ AbortUnreleased(c) \/ Finish(c)
  \/ \E i \in Item : ItemStep(c, i)

Locked(c) == SkipPaused(c) \/ SkipUnavailable(c) \/ Enter(c)

Environment ==
  \/ Enqueue \/ Remove \/ Configure \/ PauseOrResume \/ AttachEngine \/ Crash \/ Tick

Next ==
  \/ \E c \in Caller : Flush(c) \/ Locked(c) \/ CycleStep(c) \/ Cancel(c)
  \/ RecoveryWorker \/ RecoveryEnds \/ SyncWorkerReset
  \/ Environment

Spec == Init /\ [][Next]_vars

(***************************************************************************)
(* A coroutine that can run does run, and every request ends (callTimeout  *)
(* and withTimeoutOrNull).  Kotlin's Mutex is FIFO, so a waiting caller or *)
(* worker gets it although others keep asking: strong fairness.            *)
(***************************************************************************)
Fairness ==
  /\ \A c \in Caller : WF_vars(CycleStep(c)) /\ SF_vars(Locked(c))
  /\ SF_vars(RecoveryWorker)

FairSpec == Spec /\ Fairness
-----------------------------------------------------------------------------
\* Every row is absent or in one of the three statuses SyncItemEntity stores, and the
\* cycle's locals have their types; a delivered row leaves no status behind.
TypeOK ==
  /\ rows \in [Item -> Row]
  /\ now \in Nat
  /\ config \in Config
  /\ paused \in BOOLEAN
  /\ recovery \in RecoveryStates
  /\ faults \in Nat
  /\ mutex \in Caller \cup {NoCaller}
  /\ pc \in [Caller -> PC]
  /\ task \in [Caller -> [Item -> TaskStates]]
  /\ cyc \in [Caller -> CycleVars]
  /\ orphan \in SUBSET Item
  /\ ledger \in [Item -> Entry]

\* A request is on the wire for an item at most once at a time, and its row cannot
\* be claimed meanwhile: no interleaving of cycles, cancellations, recovery passes
\* and process deaths sends an item concurrently with itself (flushMutex,
\* claimPending and the callers of resetInFlight).
WireExclusive ==
  \A c \in Caller, i \in Item :
    task[c][i] = "wire" =>
      /\ rows[i].status \in {"IN_FLIGHT", "GONE"}
      /\ \A d \in Caller \ {c} : task[d][i] \notin Active

\* A row is IN_FLIGHT only while a running cycle has still to dispatch or record it,
\* or because a process death or a failing statement left it behind: no cancelled
\* or credential-rejected cycle strands a row (abortCycle, dispatchClaimed).
InFlightAccounted ==
  \A i \in InFlight(rows) : i \in orphan \/ \E c \in Caller : task[c][i] \in Active

\* The persisted attempts count exactly the dispatches of the item, minus the ones
\* refunded for a rejected restored token and the ones whose outcome was lost with
\* the process or a failing statement; the one now on the wire is not counted yet.
AttemptsAccounted ==
  \A i \in Stored(rows) :
    ledger[i].tries = rows[i].attempts + ledger[i].held + ledger[i].lost
                      + (IF \E c \in Caller : task[c][i] = "wire" THEN 1 ELSE 0)

\* The retry budget survives cycles, cancellation, process death and a lowered
\* maxAttempts: an item is sent only while its persisted count is below the budget of
\* the cycle that sends it, although the cycle looked at a copy of the row, and no row
\* ever counts more attempts than the largest budget configured (dispatchItem).
BudgetKept ==
  \A i \in Stored(rows) :
    /\ \A c \in Caller : task[c][i] = "wire" => rows[i].attempts < cyc[c].options.budget
    /\ \E b \in Budgets : rows[i].attempts <= b

\* An expired restored token costs one request per cycle: once the probe was
\* rejected, no other item of the batch goes out (dispatchClaimed).
OneRequestPerRejectedToken ==
  \A c \in Caller : \A f \in Item :
    (f = cyc[c].first /\ task[c][f] = "held") =>
      \A i \in Item \ {f} : task[c][i] \in {"none", "todo"}

\* A cycle that trusts its credential was not handed headers restored from disk,
\* although policy and options are two reads of a configuration that may change
\* in between (flush).
TrustedNotRestored ==
  \A c \in Caller :
    (pc[c] \in InCycle \ {"policy"} /\ cyc[c].cred = "TRUSTED")
      => cyc[c].options.source = "LIVE"

\* No dispatch of an item starts before the cooldown of its last recorded failure has
\* run, measured from the END of that dispatch, whatever happened in between (a stale
\* claim, a reset of the rows, a process death).
CooldownKept ==
  [][\A i \in Item : ledger'[i].tries > ledger[i].tries => now >= ledger[i].due]_vars

\* Every flush returns: the mutex is always released and handed on, whatever is
\* cancelled or fails in between.
FlushReturns == \A c \in Caller : pc[c] # "idle" ~> pc[c] = "idle"

\* A row a dead process left IN_FLIGHT becomes claimable again (or is removed) once
\* recovery is scheduled: it gets through whatever flushes compete for the mutex,
\* paused or not, and across another process death.
OrphansRecovered ==
  \A i \in Item : (recovery = "queued" /\ i \in orphan) ~> rows[i].status # "IN_FLIGHT"
-----------------------------------------------------------------------------
(***************************************************************************)
(* What the engine implements.  A row counts as being sent only while a    *)
(* dispatch of it is on the wire: claimed, orphaned and released rows are  *)
(* all simply queued.                                                      *)
(***************************************************************************)
Sending(i) == \E c \in Caller : task[c][i] = "wire"

Lifecycle(i) ==
  CASE rows[i].status = "NEW"       -> "new"
    [] rows[i].status = "GONE"      -> "gone"
    [] rows[i].status = "FAILED"    -> "failed"
    [] rows[i].status = "PENDING"   -> "queued"
    [] rows[i].status = "IN_FLIGHT" -> IF Sending(i) THEN "sending" ELSE "queued"

Delivery == INSTANCE DeliveryQueue WITH
  state <- [i \in Item |-> Lifecycle(i)],
  spent <- [i \in Item |-> rows[i].attempts]

\* The flush engine, with its cycles, locks, cancellation, recovery and faults,
\* implements the at-least-once delivery queue.
ImplementsDelivery == Delivery!Spec
-----------------------------------------------------------------------------
(***************************************************************************)
(* The inductive invariant behind WireExclusive and InFlightAccounted.     *)
(***************************************************************************)

\* flushMutex is held by exactly the caller that is inside runCycle.
MutexHeld == \A c \in Caller : pc[c] \in InCycle <=> mutex = c

\* Only a cycle between its claim and its result has items to dispatch, only before
\* any reset of its own has it one on the wire, and while it probes only the probe.
TaskPhases ==
  \A c \in Caller, i \in Item :
    /\ task[c][i] = "wire" => pc[c] = "rest" \/ (pc[c] = "first" /\ i = cyc[c].first)
    /\ task[c][i] = "todo" => pc[c] \in {"first", "rest", "release", "abortCancel", "abortError"}

\* The row of an item a cycle has still to finish is IN_FLIGHT or was removed.
Claimed ==
  \A c \in Caller, i \in Item :
    task[c][i] \in Active => rows[i].status \in {"IN_FLIGHT", "GONE"} /\ i \notin orphan

OrphansInFlight == orphan \subseteq InFlight(rows)

CoreInv == MutexHeld /\ TaskPhases /\ Claimed /\ OrphansInFlight /\ InFlightAccounted
-----------------------------------------------------------------------------
(***************************************************************************)
(* The inductive invariants behind the properties of the history: what a   *)
(* cycle remembers is compared with the table it was read from.            *)
(***************************************************************************)

\* A cycle's copy of the attempts of an item it has still to finish is what the row says.
SeenFresh ==
  \A c \in Caller : \A i \in Stored(rows) :
    task[c][i] \in Active => cyc[c].seen[i] = rows[i].attempts

\* Nothing has happened yet to an item that was never enqueued.
NoHistoryYet == \A i \in Item : rows[i].status = "NEW" => ledger[i] = NoEntry

AccountInv == SeenFresh /\ NoHistoryYet /\ AttemptsAccounted /\ BudgetKept

\* While the probe is out nothing else of the batch was started, and the rest of the
\* batch goes out only after a probe that was not rejected.
ProbeFirst ==
  \A c \in Caller :
    /\ pc[c] = "first" => \A i \in Item :
         task[c][i] \in IF i = cyc[c].first THEN Active ELSE {"none", "todo"}
    /\ (pc[c] = "rest" /\ cyc[c].first \in Item) => task[c][cyc[c].first] = "done"

ProbeInv == ProbeFirst /\ OneRequestPerRejectedToken

\* Between its two reads, a cycle that trusts its credential can only see the
\* configuration become LIVE again.
TrustInv ==
  /\ TrustedNotRestored
  /\ \A c \in Caller : (pc[c] = "policy" /\ cyc[c].cred = "TRUSTED") => config.source = "LIVE"

\* The row of an item that may still be sent carries the end of its cooldown, and a
\* claim was made as of a moment that is past.
CoolInv ==
  /\ \A c \in Caller : pc[c] \in InCycle \ {"policy"} => cyc[c].startedAt <= now
  /\ \A i \in Item : rows[i].status \in {"PENDING", "IN_FLIGHT"} => ledger[i].due <= rows[i].nextRetryAt
  /\ \A c \in Caller : \A i \in Stored(rows) : task[c][i] = "todo" => ledger[i].due <= now
-----------------------------------------------------------------------------
(***************************************************************************)
(* Two readings of abortCycle's comment that the code does not meet.       *)
(***************************************************************************)

\* abortCycle: "Leave no path without a terminal event".  Every cycle that ends has
\* told the listeners so.  terminalEventSent is set before the event is emitted, so
\* a cancellation that surfaces in emit itself ends the cycle in silence.
EveryCycleCloses == \A c \in Caller : pc[c] = "finish" => cyc[c].closed

\* abortCycle: "and no row stranded".  An aborted cycle leaves none of the rows it
\* claimed and never started IN_FLIGHT.  Only a CancellationException releases them:
\* a storage error while releasing a rejected batch does not even try.
AbortStrandsNoRow ==
  [][\A c \in Caller : (pc[c] = "abortError" /\ pc'[c] = "finish") =>
       \A i \in Item : task[c][i] = "todo" => rows'[i].status # "IN_FLIGHT"]_vars
=============================================================================
