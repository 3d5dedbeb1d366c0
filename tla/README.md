# A TLA+ model of react-native-sync-provider

`react-native-sync-provider` is an offline queue of HTTP requests for React Native.
JavaScript enqueues items; a native engine (Kotlin on Android, Swift on iOS) stores them
in a table, sends them in cycles, retries with a persisted cooldown, and promises
at-least-once delivery (`README.md:69`) across reloads, process deaths, lost networks and
background work of the OS.

This directory holds TLA+ modules translated from that code, TLC configurations that
model-check them, and proofs checked by TLAPS. Paths below are relative to the
repository; `A/` stands for
`android/src/main/java/com/margelo/nitro/syncprovider/`.

## 1. Inventory

| Part | State | Operations | What makes it correct |
|---|---|---|---|
| Android queue storage (`A/storage`, `A/database`) | rows of `sync_items`: status PENDING / IN_FLIGHT / FAILED, attempts, nextRetryAt, createdAt, priority | insert, delete, claim (select + flip in one transaction), markRetry, markFailed, markSucceeded, resetInFlight | a claim takes due rows in priority order up to the limit; an update never resurrects a deleted row; the cap |
| Android dispatcher (`A/http/SyncDispatcher.kt`) | `flushMutex`, `syncing`, locals of a cycle | `flush`, `resetInFlight` | never sends an item twice at once; strands no row; counts attempts exactly; always ends a cycle and gives the mutex back |
| Android retry wake (`A/retry`, `A/connectivity`) | the timer, `wakeOwed`, the connectivity state flow | `arm`, `armForResume`, `cancel`, `onFire`, `onNetworkAvailable` | a waiting retry is woken |
| Android runtime (`A/SyncProviderRuntime.kt`) | `configRef`, `pausedFlag`, engine count, `connectivityWatch` | configure, pause, resume, attach, detach | memory and disk agree; a live engine has its wake |
| Android workers and scheduling (`A/work`) | WorkManager's unique work, `enabled` and `foregroundOnly` flags | recovery, flush worker, periodic work, retry kick, enable, disable | recovery always gets through; disabled means no work |
| Android configuration (`A/config`) | preferences, encrypted headers | save, load, clear | options and headers of one call; no stale credential |
| iOS dispatcher and storage (`ios/HTTP`, `ios/Database`, `ios/Storage`) | the rows in Core Data; the actor's config, `isCycleRunning`, the hold of a rejected credential | `flush`, `updateConfig`, the statements of `SyncItemDao` | one cycle at a time in a reentrant actor; attempts that are counted before the request; the same delivery promise |
| iOS engine (`ios/Engine`, `ios/Connectivity`, `ios/Background`) | hybrids attached, options, the rearm ticket, the timer, a wake waiting for the network | attach, detach, configure, pause, resume, `rearmRetryTimer`, `retryWakeFired`, launch recovery | a waiting retry is woken, never before the hold ends |
| Drain controller (`src/utils/drainController.ts`) | the active drain, its stop signal | `runDrain`, `cancelActiveDrain` | terminates; counts nothing after a stop |
| JS facade (`src/index.tsx`, `src/index.web.tsx`, `src/utils`) | the memo of the native object | the public functions; validation, bridge call, form of the answer | one native object; a rejection tells the truth about the queue; no sentinel reaches a caller |
| JS hooks and context (`src/contexts`, `src/hooks`) | what each hook shows, refs, subscriptions | effect, cleanup, listener, the answers of calls | shows what native holds once all is quiet; leaves nothing registered; never flushes after its cleanup |
| Pure helpers (validation, JSON form, retry delay, ULID) | none, or the last ULID | compute | accept exactly the contract; round trip; bounds, monotonicity |

How they interact. JS calls the bridge (`A/SyncProvider.kt`), which calls the singleton
runtime. `flush` may be called by JS, by the retry timer and by a WorkManager worker at
once; `flushMutex` serialises cycles, and recovery (`resetInFlight`) takes the same mutex.
On iOS the dispatcher is an actor, a second flush returns while a cycle runs, and recovery runs
beside cycles. A cycle that ends arms the next wake (`onCycleFinished`). Configuration, pause and the
engine count are plain atomics that cycles, armers and workers read with no common lock.
The table, the pause flag, the configuration and WorkManager's queue survive the process;
everything else does not.

What is hard. Several callers and several coroutines per cycle; cancellation (a disposed
bridge, a stopped worker) in the middle of a cycle whose requests cannot be unsent;
process death at any point; a storage statement that throws; two reads of a configuration
that changes in between; armers that act on what they read a moment ago; a state flow
that forgets intermediate values. `PROJECT.json` lists each hazard at its line with the
property that covers it, or why none does yet.

## 2. Modules

| Module | Models | Used by |
|---|---|---|
| `SyncQueue` | the table and each SQL statement, as pure operators | the modules below |
| `SyncDispatcher` | flush cycles of any number of callers over the table, recovery, and the environment | `MCSyncDispatcher`, `SyncDispatcherProofs` |
| `DeliveryQueue` | the abstract promise: at-least-once delivery of each item, no cycles and no table | `SyncDispatcher`, `IosDispatcher` (refinement) |
| `RetryWake` | what wakes the queue: armers, timer, network, engines, recovery work | `MCRetryWake` |
| `IosDispatcher` | the iOS actor: reentrant flush, its cycle over Core Data rows, recovery beside it | `IosEngine`, `IosDispatcherProofs` |
| `IosEngine` | `IosDispatcher` composed with the engine around it: ticketed re-arms, timer, network, hybrids, pause, configure | `MCIosEngine` |
| `DrainController` | `drainUntilEmpty` and `cancelDrain`, against a native engine others use too | `MCDrainController` |
| `SyncTypes` | the value sets shared with the bridge | the three modules below |
| `SyncItemRules` | `validateSyncItem`, `serializeSyncItem`, `deserializeSyncItem` as operators | `SyncFacade`, `MCRules` |
| `RetryBackoff` | the retry delay in TypeScript, Kotlin and Swift, as operators | `MCRules`, through it `MCSyncFacade` |
| `SyncFacade` | every public function over the bridge, both bundles | `MCSyncFacade` |
| `Hooks` | the eight hooks and the `SyncProvider` component | `MCHooks`, `HooksProofs` |
| `SyncDispatcherProofs` | theorems of `SyncDispatcher`, in three parts: types, mutex and rows; attempts and budget; when a dispatch may start, and the refinement | TLAPS |
| `IosDispatcherProofs`, `IosEngineProofs` | theorems of the iOS actor, and of the engine around it | TLAPS |
| `RetryWakeProofs`, `DrainControllerProofs`, `SyncFacadeProofs`, `HooksProofs` | theorems of the modules they are named after | TLAPS |
| `RulesProofs` | theorems of `SyncItemRules`, as `MCRules` calls it | TLAPS |

### SyncQueue

A row is a function value per id: `NEW` (not yet inserted), one of the three stored
statuses, or `GONE`. Payload, headers, error text and `lastAttemptAt` are left out: no
guard reads them. ULIDs are never reused, so `GONE` is final. `Claims` gives every set the
ordered, limited `selectClaimable` may return (ties in any order); `Heads` the rows that
may be first in that list.

### SyncDispatcher

`pc[c]` says where caller `c` is: waiting for the mutex (`lock`), between the two reads of
the configuration (`policy`), between SYNC_STARTED and the claim (`starting`), probing with
one item (`first`), releasing a rejected batch (`release`), dispatching concurrently
(`rest`), recording, emitting, aborting, or in `finally` (`finish`). `task[c][i]` is the
progress of each claimed item, `cyc[c]` the locals of `runCycle`. Each suspension point of
the code is a step boundary: mutex, configuration reads, emission, claim, each dispatch's
start and end, the result, the abort. A statement on the table is one step, as it is one
SQLite transaction.

Faithful details worth knowing when reading: attempts come from the claimed entity
(`seen`), not from the row; dispatches run in `NonCancellable`, so a started one always
records its outcome, while a cancelled supervisor scope starts no further child; the
probe's outcome decides whether the rest goes out; `runCatching` turns a failing statement
into a failed outcome and leaves the row IN_FLIGHT; `terminalEventSent` is set before the
event goes out. What an HTTP exchange answers is open: an item on the wire may end in any
of the outcomes `dispatchItem` distinguishes. Options other than `maxAttempts` do not
influence control.

Every cycle's state is kept per caller, so that two cycles do not overlap is a consequence
of the mutex, not of the model's shape. `orphan` and `ledger` are history: rows whose cycle
ended without recording them, and what became of each dispatch.

### DeliveryQueue

An item is new, queued, sending, failed or gone. A dispatch that ends costs an attempt, is
refunded, or loses its outcome; a death may charge any of the dispatches it cuts off. Both
dispatchers implement it under a mapping `Lifecycle`: an item is being sent only while a request
for it is on the wire. On iOS the row does not tell (launch recovery resets it under a running
cycle), so the mapping looks at the callers, and takes the attempt under way off the row's count.

### IosDispatcher

The actor is left at every await, so a step of one `flush` may fall between any two of another;
only `isCycleRunning` keeps cycles apart, and it is the model's `running`, not its shape. `pc[c]`
says at which await a caller is: before the fetch, at the head of the loop, with a request out,
before the result is recorded, before the flag falls (`finish`), in `onCycleFinished` (`rearm`).
`cyc[c]` holds the rows as they were fetched: outcomes are computed from them, while the writes go
to the row of the moment, which recovery may have reset and the app removed. An attempt is counted
by `markInFlight` and put back from the fetched row when a restored token is rejected. `config.source` says
whether the headers are the app's own (`LIVE`), read back from disk (`PERSISTED`) or not readable
yet. Marking an item and sending it are one step, as are its answer and the write it leads to:
what comes in between touches nothing they use. `ledger` is history.

### IosEngine

Every action of `IosDispatcher` becomes an action here, with the engine's part conjoined: the flag
that falls starts a re-arm, `configure` is two steps (options, then dispatcher and re-arm), `pause`
and the last detach disarm in a second step. `arm[a]` is one call of `rearmRetryTimer`: take a ticket,
read pause and rows, act if the ticket is the newest. `fire` is the task of `retryWakeFired` with its three
looks (hybrid and pause, network, flush) and `notice` a path update whose listeners have not run
yet. `missed` is history: the timer stayed as it was after a failing query, a late disarm cancelled
it, a wake was handed to a listener that had already run, or a wake found headers it could not
read. `mustHold` is history too: the end of the last hold since the app configured.

At most one task of the timer or the network is under way, one configure, one resume and one
attachment's re-arm; more of the same kind take newer tickets and change nothing else. `shutdown` is left out.

### RetryWake

Four coroutines arm: the end of a cycle, `configure`, `RecoveryWorker` and `resume`. Each
reads (pause flag, strategy, headers, queue, engine count) in one step, then cancels or sets
the timer in another: nothing holds the reads together with the action. `timer`, `fire` and
`wakeOwed` are `RetryTimer`; `online` is what `isOffline()` asks the system, `flow` the
conflated state flow, `delivered` what its collector last saw. `pause` and `detachEngine`
are two steps each (flag or count, then cancel). Recovery is unique work with
`ExistingWorkPolicy.KEEP`. The cycle is reduced to claim, settle, end.

`overtaken` and `missed` are history: an armer is overtaken when what it read changed before
it acted; `missed` says the wake now in force (or its absence) is the work of an overtaken
arm, a failed query, a late cancel, a dropped recovery or a conflated network change, and is
cleared when a timer is set.

The clock is abstracted: a row has been attempted (`nextRetryAt` 1) or not (0), any attempted
row may have cooled, an armed timer may fire at any time.

### DrainController

The loop of `src/utils/drainController.ts` is always in one await (`at`): a native call or a
sleep. `wait` says how it stands: waiting, resolved with a value, rejected by a stop or by the
call. `Answer` takes the snapshot, a later step acts on it, so everything may happen in between,
a cancel that finds no waiter included. `Leave` is the `finally` block. A native call may hang,
fail, or, for a flush, run no cycle of its own (paused, no headers, or iOS's stale result while
a cycle runs). Cycles of other callers come and go; the abandoned flush of a stopped drain is
one of them. `itemsDispatched` and the 32-bit cap of `setTimeout` are left out.

`past` is history: when this drain last flushed, what it saw since, whether the queue was ever
empty and idle during it, how the last drain ended.

### SyncItemRules and RetryBackoff

Pure functions. A field of an input is what the checks tell apart (`absent`, `string`,
`other`; an absolute, relative, empty or non-string URL; the bad keys of a map), and the
collected issues keep their order, since the first one gives the error its code. `IllFormed`
states the contract once more, field by field and without an order.

`RetryBackoff` computes in doubles as the three platforms do: hundredths of a millisecond,
saturating at a bound that stands for Infinity, with NaN for `0 * Infinity`; jitter is a factor
drawn by the caller. `Ceiling` stands for the 2^53 - 1 at which Swift alone clamps a delay
(`maxRepresentableDelayMs`), far below Infinity: between the two, iOS and the reference differ,
and `IosMatchesJs` says how. `MCRules` calls the functions one at a time with every input of bounded
sets.

### SyncFacade

A call is validated, finds or does not find the native object (`GetNativeSyncProvider` keeps
the memo), runs its native part, and gives its answer the public form. Native parts of calls
that overlap run in any order; an enqueue is two steps, `CountRows` and `InsertRows`.
Any call may throw natively with any of the codes native has, and the facade maps each to its
fallback. Requests whose state lives in another module are reduced to their phases.
The issues of a batch are a set: in which order it names its items is left out.
`calls[c]` keeps as history what the call wrote, which items were malformed, what native found
and whether another write came between its count and its insert. On the web bundle every call
rejects and listeners are accepted.

### Hooks

One mounted instance of one hook. `effects` has a record per run of its effect: React may run
cleanup and effect again with the same refs, so the hooks with a `cancelledRef` share the flag
across runs, while `useConnection`, `useSyncEvents` and `useAutoSync` keep one per run. Each
hook is three operators: the calls it starts with, the calls an event asks for, what it shows
when a read has settled. `calls` is the bag of native calls under way; `Execute` takes a
value at native's instant, `Settle` is the continuation, in any order. `getQueueSize` and
`getPendingItems` are two reads of one `Promise.all`. Events go to the listeners of the moment
and arrive in any order, except those of one cycle. `syncing` rises before SYNC_STARTED and
falls after the closing event, as in the dispatcher. A cycle may also end without that event
(`CycleEndsSilently`, finding 1), be aborted with no result recorded, and anybody may clear the
history (`ClearHistory`): `last` is then 0, an answer `useSyncStatus` and `useSyncSnapshot`
ignore, and the next result has a number (`results`) that was never used.

`stale` is history: fields the hook had no chance to know, because they changed while its
listener was not registered, have no event (`configureSync`, `clearSyncHistory`, a silent end),
were read by two overlapping calls, were crossed by an event, or could not be read; and the last
result after a read that native answers with none while the hook shows one (`Ignored`).
Everything else must be right at rest, and what an event tells (`told`) or a read brings that
nothing overlaps is known again.

Not followed: `progress`, error objects, `flushOnReconnect: false` (the listener then does
nothing), and the functions a hook returns that pass their arguments to the facade: their effect
is a native change like any other.

## 3. Runs

| Run | Configuration | Checks | Shows |
|---|---|---|---|
| `dispatcher` | `Dispatcher.cfg`: 2 items of different priority, 2 callers, 1 fault and a clock that stands still; or 1 item, 1 caller at a time, budgets {1, 3}, two faults or ticks in any mix; 0.57M states | `TypeOK`, `WireExclusive`, `InFlightAccounted`, `AttemptsAccounted`, `BudgetKept`, `OneRequestPerRejectedToken`, `TrustedNotRestored`, `CooldownKept`, `ImplementsDelivery` | no double send, no stranded row, exact attempts, one request per rejected token, in every interleaving of two cycles, recovery, removal, cancellation and reconfiguration; budget and cooldown over several cycles and process deaths; refinement of `DeliveryQueue` |
| `dispatcher_live` | `DispatcherLive.cfg`: 1 item, 2 callers; 75k states | `FlushReturns`, `OrphansRecovered` | every flush returns; scheduled recovery gets through |
| `dispatcher_silent` | `DispatcherSilent.cfg` | `EveryCycleCloses` (violated) | finding 1 |
| `dispatcher_stranded` | `DispatcherStranded.cfg` | `AbortStrandsNoRow` (violated) | finding 2 |
| `retry_wake` | `RetryWake.cfg`: 1 item, 1 engine; either 2 collectors and 2 armers at once and no outage, or a network that comes and goes and 1 armer at a time; 3.9M states | `TypeOK`, `WakeKept` | a waiting retry keeps its wake unless an arm was overtaken, failed or cancelled late; the second look of `onFire` closes the window between check and flag |
| `retry_wake_lost` | `RetryWakeLost.cfg` | `NoLostWake` (violated) | finding 3 |
| `drain` | `Drain.cfg`: 2 items, batch of 1, clock to 2; 1.3M states | `TypeOK`, `EmptyWasQuiet`, `NoSpin`, `DrainSettles` | EMPTY is never decided while a cycle holds rows; the loop waits between flushes that achieve nothing; every drain ends, whatever hangs |
| `drain_empty` | `DrainEmpty.cfg` | `EmptyMeansEmpty` (violated) | finding 4 |
| `facade` | `Facade.cfg`: 2 overlapping calls, 3 ids, caps 0 to 2; and, one call at a time, the pure functions with two keys per map, attempts to 16, delays -1, 0, 1 and 3; 0.36M states | `TypeOK`, `OneNativeObject`, `RejectionTells`, `HistoryHonest`, `CapKept`, `ValidationExact`, `ReadBack`, `DelaysSound` | what a caller may conclude from an answer; the soft cap; validation reports what breaks the contract and nothing else; a stored item is read back; delays are bounded, never shrink, and agree across platforms up to the ceiling of iOS |
| `hooks` | `Hooks.cfg`: 17 instances of the eight hooks and the provider, up to 2 effects, 3 changes, 1 rejected call; 2.2M states | `TypeOK`, `MirrorsAtRest`, `LoadingSettles`, `LeakOnlyInWindow`, `NoWildFlush`, `BackgroundOnlyInWindow` | hooks converge to native state, cycles that end silently and a cleared history apart; what outlives an unmount is confined to one window |
| `ios` | `Ios.cfg`: six instances of `IosDispatcher` and `IosEngine`, below; 1.05M states | `EngineTypeOK`, `OneCycle`, `BudgetKept`, `CredentialVerdict`, `WakeKept`, `CooldownKept`, `ImplementsDelivery` | one cycle at a time; budget and cooldown through kills, resets and removals; a 401 is judged by the credential it was sent with; re-arms that overtake each other lose no wake and shorten no hold; refinement of `DeliveryQueue` |
| `ios_wake_lost` | `IosWakeLost.cfg`: the instance with a network | `OfflineWakeFlushed` (violated) | finding 5 |

Bounds, and why they are enough for what is asked:

- Two items: one to probe and one to release, or one in flight while another is claimable;
  different weights make the order of a claim matter. Rows do not influence each other
  otherwise.
- Two callers: the mutex's property is about pairs. Recovery, the worker's reset and the
  environment come on top.
- `MaxFaults` bounds process deaths and failing statements together: 1 with two callers, 2 with
  one (a death during what a failing statement left). `InFocus` of `MCSyncDispatcher`, an action
  constraint, joins the two instances in one run and tells them apart by the budget. In the wide
  one a death may strike both callers in any state that is not paused; a statement fails only
  while one of them is alone, and after either fault callers come one at a time. Faults while
  paused are left to the long one, which is not paused after the second. Callers meet only at the
  mutex, so what a second one adds to a fault is who takes it next. The constraint cuts steps of
  the environment and faults, and in each instance the retry delays it does not draw, never the
  only step a cycle can go on with; no temporal property is checked under it except the safety of
  `DeliveryQueue`. All properties of this run are proved without these bounds.
- `MaxTime` and `Delays`: where time is not the question the clock stands still and a
  cooldown of 0 or of `CredentialHold` > 0 separates rows that can be claimed again from
  rows that cannot. The other instance lets the clock run to 2 with delays of 1
  and a hold of 2.
- `Budgets` {1, 3}: exhausted at once, or after several cycles, and lowered in between.
- `Bounds` of `RetryWake` chooses one of two instances at the start: two armers and two watches
  (overtaking needs two armers, a leaked collector two watches) without outages, or outages,
  which multiply the states, with one of each.
- `focus` of `MCIosEngine` chooses among six instances. Of the dispatcher alone: two items and two
  callers on a clock that stands still, or one of each through many cycles with delays, kills and a
  clock to 3. Of the engine, always with one item and one caller at a time: a network that comes and
  goes, with unreadable headers and failing queries; kills and hybrids; configure against cycles;
  pause, resume and detach against cycles. In the last two at most two re-arms or halves of calls
  overlap, which is what overtaking needs, the network is up and nothing fails. One item: a re-arm reads
  one deadline, and the soonest of several is the statement's own minimum. `MaxAttached` is 1: a
  second hybrid changes no guard.
- `RetryWake`, iOS, the drain, the facade and the hooks: what the runs check of them is proved for every
  value of the bounds as well, `DrainSettles` and `DelaysSound` aside (section 5). The bounds below are
  there to make the interesting cases happen, and to find the invariants.
- The drain: two items and a batch of one make a size that falls without reaching zero; a
  clock of 2 with an idle wait of 1 and two iterations leaves room for two flushes with a wait
  between; a timeout of 0 stops before the first call.
- The rules: a map with two bad keys, also the same one twice, is enough for one issue per entry;
  `Infinity` is set so low that the curves overflow within the attempts tried, `Ceiling` lower by
  a factor of five, so that delays fall below it, between the two and beyond both; base and cap
  stand in every order.
- The facade: two calls, since the memo, the count and the cap are about pairs; a cap of 0 is
  raised to 1; three ids let a batch of two meet one row.
- `Instances` of `Hooks`: an effect that runs once or twice, one to three changes, at most one
  rejected call. Hooks that start more calls get fewer changes. A leak needs one cleanup, a shared
  flag two runs, two events that change places two changes; `useSyncStatus` gets three, for a
  cycle, a cleared history and another cycle, or two over a re-run. Which connection a device
  starts with is varied for `useConnection` and `useAutoSync` only (`InitiallyConnected`, a constraint that
  drops initial states and nothing later): the other hooks that show it meet both in the changes.

`SYMMETRY` is used where values are interchangeable (callers of the dispatcher, calls and ids of
the facade) and only in runs without liveness.

Fairness (`FairSpec`). A coroutine that can run runs: weak fairness of each cycle's own
steps. A request ends: `callTimeout` and `withTimeoutOrNull` bound it, so weak fairness
covers its outcome. Kotlin's `Mutex` is FIFO, so a waiting flush or recovery gets it although
others keep asking: strong fairness of `Locked` and `RecoveryWorker`. WorkManager runs
enqueued work eventually and again after a death. Nothing is assumed of JS, the network,
the clock or cancellation. The drain's fairness is that of the JS event loop: a turn that can run
runs, the deadline timer fires, time passes; the native side is not fair at all. Nothing is assumed fair on iOS: its
properties are safety properties. Deadlock is checked
everywhere but in `hooks`: a component that has been unmounted for the last time comes to rest. The
other modules never stop (a flush, a call, a recovery, a pause or a timer is always possible).

## 4. Findings

1. `dispatcher_silent`. `runCycle` sets `terminalEventSent` (`A/http/SyncDispatcher.kt:141`)
   and then suspends in `emit`. A cancellation that surfaces there reaches `abortCycle`, which
   returns early because the flag is set: listeners saw SYNC_STARTED and never an end. The
   comment at :165 says "Leave no path without a terminal event and no row stranded."
2. `dispatcher_stranded`. `abortCycle` releases rows only for a `CancellationException` (:170).
   When the reset at :200 itself throws, the unstarted rows of the batch stay IN_FLIGHT until a
   recovery pass. Same comment.
3. `retry_wake_lost`. "Recovery arms the first retry wake once it has finished."
   (`A/SyncProviderRuntime.kt:205`). Recovery is unique work under KEEP: when an engine attaches
   while a recovery worker that already found no engine is still running, the new request is
   dropped and the live engine has a waiting retry and no timer until something else flushes.
4. `drain_empty`. `runDrain` reads `isSyncing`, the size, and `isSyncing` again
   (`src/utils/drainController.ts:216-235`). A cycle of another caller that starts after the first
   read takes the last item out of the count, and may end before the second with the item queued
   for a retry: the drain returns EMPTY although the queue was at no moment empty and idle.
   `src/index.tsx:354` says "It reports `EMPTY` only when {@link getQueueSize} is `0` and
   {@link isSyncing} is `false`, so an item still in flight in a running cycle keeps the loop
   waiting."
5. `ios_wake_lost`. `retryWakeFired` looks at the network and, offline, records the wake in a second
   step (`ios/Engine/SyncEngine.swift:322-325`). When the network returns in between, the
   listener has already run and found nothing to deliver: the wake waits for connectivity with the
   network up. `website/docs/guides/retry-policy.md:165` says "When the timer fires offline, it
   remembers the wake and flushes when connectivity returns." Android looks a second time after
   it set its flag (`A/retry/RetryTimer.kt:68`), and `retry_wake` shows that this suffices.

Seen while modelling, with no run of their own:

- A provider that is unmounted while `configureSync`, its read or `enableBackgroundSync` is under
  way goes on and enables background sync afterwards: the chain in `src/contexts/SyncProvider.tsx:135`
  tests no flag and the cleanup sees `ownsBackgroundRef` still false. `BackgroundOnlyInWindow` says
  that this window is the only one. The same window leaves a listener registered in every hook except
  `useSyncEvents`, which removes it when its id arrives (`LeakOnlyInWindow`).
- `src/hooks/useSyncQueue.ts:82` and the other hooks share `cancelledRef` between runs of an effect:
  a late answer to a call of the first run is applied by the second. It is no older than the second
  run's own reads only if they did not overlap; `stale` records where they did.
- `ios/Storage/SyncQueueStorage.swift:16` calls the cap check and the insert atomic because the storage is an
  actor. An actor is reentrant at its awaits, and both are awaited: two enqueues can count before either
  inserts, as on Android. `CapKept` promises the cap only to an enqueue nothing overtook.
- A process killed with a request out has spent the attempt on iOS and not on Android. Both refine
  `DeliveryQueue`, whose death may charge any dispatch.
- On iOS a `pause` whose late half runs after a `resume`, and a last detach whose late half runs after
  a new attach, disarm the timer the newer call armed; a wake that finds headers unreadable is not armed
  again; and a `configure` that clears the hold can have it set again by the end of a cycle that the
  old credential ran. `WakeKept` excepts the first three through `missed`.
- A statement that throws between `markInFlight` and the outcome leaves an iOS row IN_FLIGHT until the
  next launch; nothing in the process looks for it.
- Kotlin never caps a delay below the base (`coerceAtLeast(base)`,
  `A/retry/RetryPolicyEvaluator.kt:34`), TypeScript and Swift do; a cap of 0 means no cap there and the
  base delay on Android. `DelaysSound` compares Android where the cap is positive and not below the
  base.
- Swift clamps a delay at 2^53 - 1 ms (`ios/Retry/RetryPolicyEvaluator.swift:82`, and the test at
  `ios/Tests/RetryPolicyEvaluatorTests.swift:186` wants it), TypeScript does not, although :54 says that
  the two must match: without a cap and with a base of 1000 they part at attempt 45. No delay of
  that length is ever waited out. `DelaysSound` states equality up to the ceiling.
- After a cycle that ends silently (finding 1), a hook that heard SYNC_STARTED goes on showing
  `isSyncing` with native idle, until it hears the next closing event
  (`src/hooks/useSyncStatus.ts:84`), and the hooks that show the queue may show it as it was before
  rows were released.
- After `clearSyncHistory`, `useSyncStatus` and `useSyncSnapshot` go on showing the old result until a
  new one is recorded: they take an undefined answer for no news (`src/hooks/useSyncStatus.ts:51`, :88,
  `src/hooks/useSyncSnapshot.ts:130`). `MirrorsAtRest` names both as exceptions.
- `enqueue` rejects with INVALID_PAYLOAD when native finds the queue full; `SyncErrorCode.ts` says so.

## 5. Proofs

Every safety property the runs check, `DelaysSound` alone excepted, is a theorem: it holds for every set
of items, callers, calls and effect runs, every batch size, budget, delay, cap and limit, and every bound
on the clock, the faults and the environment. `PROJECT.json` lists the theorems under the properties they
state.

| Component | Theorems | Inductive invariant |
|---|---|---|
| Android dispatcher | `TypeCorrect`, `WireExclusiveHolds`, `InFlightAccountedHolds` | `CoreInv` |
| | `AttemptsAccountedHolds`, `BudgetKeptHolds` | `AccountInv` |
| | `OneRequestPerRejectedTokenHolds`, `TrustedNotRestoredHolds`, `CooldownKeptHolds` | `ProbeInv`, `TrustInv`, `CoolInv` |
| | `ImplementsDeliveryHolds` | the above, and `NewCountsNothing` |
| iOS dispatcher | `OneCycleHolds`, `BudgetKeptHolds`, `CredentialVerdictHolds`, `CooldownKeptHolds`, `ImplementsDeliveryHolds` | `HistoryInv`, `CycleInv`, `AttemptLeft` |
| iOS engine | `EngineKeeps`, `EngineCooldownKept`, `EngineImplementsDelivery`; `EngineTypeCorrect`, `EngineWakeKept` | the dispatcher's; `ArmersInv`, `WakeInv`, `HoldInv` |
| Android retry wake | `TypeCorrect`, `WakeKeptHolds` | `WakeInv` |
| Drain | `TypeCorrect`, `EmptyWasQuietHolds`, `NoSpinHolds` | `QuietInv`, `SpinInv` |
| Facade | `TypeCorrect`, `OneNativeObjectHolds`, `RejectionTellsHolds`, `HistoryHonestHolds`, `CapKeptHolds` | `MemoInv`, `CallsInv`, `CapInv` |
| Hooks | `TypesCorrect`, `LoadingSettled`, `FlushesTame` | `TypeInv`; `LoadInv`; `OnlineInv` |
| | `ListenersRemoved`, `BackgroundReturned` | `ListenInv`; `BackgroundInv` |
| | `MirrorsSettled` | `SyncingInv`, `PausedInv`, `LastInv`, `ReadInv` |
| Validation | `ValidationExactHolds`, `ReadBackHolds` | `RulesInv` |

The inductive invariants stand beside the properties in each component's module, those of the hooks and of
validation at the head of their proofs. TLC has checked each of them on its component's run, except
`RulesInv`, which speaks of sequences of any length.

**Android dispatcher.** `WireExclusive` alone says nothing about an item that was claimed
and not started, which the next step sends; `InFlightAccounted` alone does not say that a reset
cannot touch another cycle's rows. `CoreInv` adds `MutexHeld` (the mutex is held by exactly the
caller inside `runCycle`), `TaskPhases` (only a cycle between claim and result has items to
dispatch; when it resets, none is on the wire), `Claimed` (the row of an unfinished item is
IN_FLIGHT or was removed, and is no orphan) and `OrphansInFlight`. At most one
caller is in a cycle, so a claim, which takes PENDING rows, meets no unfinished item of anybody
else; every reset happens under the mutex at a point where `TaskPhases` leaves nothing on the
wire; so every unfinished item stays IN_FLIGHT until its own outcome.

An outcome writes `attempts + 1` from the entity that was claimed, not from the row.
`AttemptsAccounted` is inductive only with `SeenFresh`: as long as a cycle has an item to finish, its
copy is what the row says, because nobody else may write a row that is IN_FLIGHT. `ProbeFirst` says that
nothing but the probe was started while the probe is out; `TrustInv`, that a cycle which trusts its
credential was given a live configuration at the first read, and no step but a death takes that back;
`CoolInv` carries the end of a cooldown from the outcome that set it, through the row, to the
claim. The step lemmas go action by action; `Quiet` gathers the steps that only move a caller on.

**iOS dispatcher.** No mutex: a fetch takes copies of the rows, and recovery, removals and
configuration run between the awaits. `CycleInv` says what survives of the copies: the row of an item
still to be sent is its copy or gone, which holds although recovery resets rows beside the
cycle, because a row that is not being sent is not IN_FLIGHT in the copy either. `HistoryInv` ties row and
history. For the budget, `AttemptLeft` keeps for each item a budget that pays for its dispatches so
far, and one more if it is neither being sent nor failed.

**iOS engine.** `DispatcherSees` shows that each step of the composed engine is, for the dispatcher's
variables, a step of `IosDispatcher` or a failing query of the timer (`Elsewhere`). The dispatcher's
theorems, refinement included, carry over with no second proof. `WakeKept` needs to know who will
wake a waiting retry: a re-arm that has not looked yet, the holder of the newest ticket, or timer,
task and network. `WakeInv` says that one of them does, `missed` aside; `HoldInv` follows a hold from the
cycle that met the rejection to the engine, the ticket and the timer. Both hold in every state, not only at
rest, which is where they exceed `WakeKept`.

**Android retry wake.** `WakeInv` of `RetryWake` says that a waiting retry is promised a wake:
`CycleArms` (whoever ends a cycle arms) and `FreshCancels` (an armer that decided to cancel on
what is still so finds nothing to wake) are what makes it inductive.

**Drain.** `QuietInv`: the flag `isSyncing` covers every row in flight, and a snapshot that
has been answered and not yet acted on was true when it was given. `SpinInv`: while a flush was followed by
neither progress nor rest, `cycleJustRan` is set, or the loop is on its way to the sleep that will last
long enough.

**Facade.** `ValidateExact` and `BatchExact` prove that `validateSyncItem` raises an error exactly when the
input breaks the contract, and a batch names exactly its malformed items, for every input and maps of
any size. `CallsInv` says of each call what it may claim in its phase. That a
refused call was refused for good rests on `MemoInv`: the code says NATIVE_MODULE_UNAVAILABLE only where the
memo will always say so. `CapInv` is the soft cap: what a call counted still leaves room for its rows, unless
another write came, and the insert is the only step from `counted` to `answered`.

**Hooks.** The native calls under way are a bag: the same refresh may be out twice. `Moves(out, in)` says
what every action does to it, calls issued or one call taken out and what it becomes put in, and is proved once
for each action; every invariant is then proved from `Moves` without looking at a bag again. `TypeInv`
ties a call to what it has read so far and what it goes on with. `ListenInv`: a run seeds at most one
listener, because what may still subscribe (`add`, the read before it, the provider's `configure`) is a single
call of its run. `BackgroundInv`: unless a cleanup came before the ownership was known (`Late`), only the
live run enables background sync, and while it is on it is owned or a call is about to settle it.
`MirrorsAtRest` speaks of rest alone and says nothing of the way there. `ReadInv` does: of each field a hook
mirrors, either a read is to come (`Underway`: an event waits that asks for one, a call has not read it yet, or
a cycle runs whose end will ask), or the newest answer is right (`Answered`: nothing is under way and the view
is right, or the only call under way carries the right value). `isSyncing` is set by events and not by
reads: `SyncingInv` says that once a cycle has ended, the closing event still to be handled comes after any
SYNC_STARTED in the inbox, and no probe under way says otherwise. `PausedInv` does it for the pause.
A silent end gives the field up, and the next closing event that is heard with no probe under way
makes it known again: after it `SyncingInv` holds whatever came before (`ClosesLowered`). `LastInv` is
what makes ignoring an undefined answer harmless while the history was not cleared: the hook then knows
of no result either. It says so only while `last` is not in `stale`, which a read the hook does not
ignore is the only way out of (`LastGivenBack`).
`MirrorsSettled` follows, since at rest nothing is under way.

**Validation.** `Collected` turns the list of issues into the set of its elements, clause by clause:
the fields blamed are exactly the ill-formed ones, and each bad entry of a map has an issue. That
carries over to the public issues and the error's code (`Exact`), to `WellFormed` (`Accepts`), and from there to
what a document is read back as (`Read`, `RoundTrip`).

**Refinement.** `ImplementsDelivery` maps an item to its `Lifecycle` and its attempts. The initial states
map to the initial state, and each step to a step of `DeliveryQueue` or a stutter; a death, a reset or
an abort changes many items at once, so the lemmas first say what becomes of each item (its fate),
then that fates add up to an abstract step.

**Assumptions.** All are named in the modules that declare the constants. `WeightAssumption`: each item has
a priority weight. `DispatcherAssumption`, `IosDispatcherAssumption`: the null values are outside their
sets, budgets and batch size are positive, as the code coerces them, delays and bounds are naturals.
`IosEngineAssumption`: callers are no engine armers, and one hybrid may attach. `WakeAssumption`: bounds are
positive. `DrainAssumption` and `FacadeAssumption`: options are naturals, inputs have the shapes the
contract tells apart, and the ids are a finite set, since sizes are counted. `HooksAssumption` types the
instances: a hook, and naturals for effect runs, native changes and rejected calls. The theorems of
validation need none.

**Only model-checked.** Liveness (`FlushReturns`, `OrphansRecovered`, `DrainSettles`): fairness is outside what
the prover handles. `DelaysSound`: the curves of `RetryBackoff` are recursive, and what they compute for
every attempt takes an induction over data; the run takes every attempt up to a bound that passes the
overflow of a double as the model has it (`Infinity`). The violated properties have counterexamples, and no theorem.

## 6. Not modelled, and the plan

In order of importance:

1. `Settings`: periodic work, retry kick and the `enabled`/`foregroundOnly` flags on both platforms (a kick
   enqueued after `disable`, recovery that re-enables what was disabled), and the configuration
   store (options and headers saved in two steps, a crash between, an unreadable secret). Then
   compose with `RetryWake` and `IosEngine`, which take its results as inputs today.
2. The background URLSession of iOS: an upload the OS finishes after the process died, whose completion
   is dropped while recovery requeues the row. Core Data contexts that overlap: each statement
   is one step here, although two contexts may read before either saves.
3. Status classification of the two dispatchers against one definition; `Ulid` monotonicity; the
   pruning of the history table.

Left out for good: the OkHttp and URLSession exchange itself, what makes a URL absolute (string
checking), `idGenerator` (random text), generated Nitro bindings, the vendored package manager, the
example app and the website. WorkManager, the connectivity services and process death are external and are
modelled from how the code uses them.
