------------------------------ MODULE RetryWake ------------------------------
(***************************************************************************)
(* What wakes the Android queue again: RetryWake decides, RetryTimer waits *)
(* in the process, ConnectivityMonitor delivers a wake that fell due       *)
(* offline, SyncProviderRuntime wires them to JS engines, pause and        *)
(* configuration.                                                          *)
(*                                                                         *)
(* Four coroutines arm: the end of a cycle, configure, RecoveryWorker and  *)
(* resume.  Each reads the pause flag, the queue and the engine count and  *)
(* then acts on what it read, with no common lock.  The three reads are    *)
(* one step here: they concern independent state, so whatever happens      *)
(* between two of them could as well have happened before or after both.   *)
(*                                                                         *)
(* The clock is left out: nextRetryAt is 0 or 1 (never attempted, or       *)
(* attempted), which cooldowns have run out is open, and an armed timer    *)
(* may fire at any time.  The WorkManager kick is only a step an armer     *)
(* still has to take; workers appear as callers of flush.                  *)
(***************************************************************************)
EXTENDS SyncQueue

CONSTANT
  \* The bounds looked at: whether networks may be lost, how many JS engines are alive at once
  \* (a reload overlaps two), connectivity collectors, and coroutines inside RetryWake.
  Bounds

ASSUME WakeAssumption ==
  Bounds \subseteq [outages : BOOLEAN, engines : Nat \ {0}, watches : Nat \ {0}, arming : Nat \ {0}]

VARIABLES
  bounds,     \* the bounds of this behaviour
  rows,       \* the persisted table
  paused,     \* pausedFlag
  config,     \* strategy, or "UNAVAILABLE": headers that cannot be recovered
  engines,    \* attachedEngines
  watches,    \* connectivity collectors running
  watchRef,   \* connectivityWatch # null
  detaching,  \* a detachEngine that brought the count to zero has still to stop things
  pausing,    \* a pause has set its flag and not yet cancelled
  online,     \* what isOffline() asks the system
  flow,       \* value of ConnectivityMonitor.state
  delivered,  \* the last value the collector saw
  timer,      \* a timer is counting down
  fire,       \* where onFire is
  wakeOwed,   \* RetryTimer.wakeOwed
  launched,   \* a flush was called and waits for the mutex
  cycle,      \* what the holder of flushMutex does
  claimed,    \* rows the running cycle has still to settle
  apc,        \* where each armer is
  recovery,   \* the unique recovery work
  \* History, read by the properties only.
  overtaken,  \* armers whose reads went stale before they acted
  missed      \* the last arm was overtaken, failed or was cancelled by a late step

queueVars   == <<rows, launched, cycle, claimed>>
configVars  == <<paused, config, pausing>>
engineVars  == <<engines, watches, watchRef, detaching>>
netVars     == <<online, flow, delivered, bounds>>
timerVars   == <<timer, fire, wakeOwed>>
armVars     == <<apc, recovery, overtaken, missed>>
vars == <<queueVars, configVars, engineVars, netVars, timerVars, armVars>>
-----------------------------------------------------------------------------
Armers  == {"cycle", "configure", "recovery", "resume"}
Configs == {"AUTOMATIC", "MANUAL", "UNAVAILABLE"}
Stages  == {"off", "read", "cancel", "set"}

\* Rows that were attempted and wait for another try.
RetryRows(q) == {i \in Pending(q) : q[i].nextRetryAt > 0}

Arming  == {a \in Armers : apc[a] # "off"}

Init ==
  /\ bounds \in Bounds
  /\ rows = [i \in Item |-> NewRow]
  /\ paused \in BOOLEAN /\ config \in Configs /\ pausing = FALSE
  /\ engines = 0 /\ watches = 0 /\ watchRef = FALSE /\ detaching = FALSE
  /\ online \in {TRUE, ~bounds.outages} /\ flow = (IF online THEN "UP" ELSE "DOWN") /\ delivered = "none"
  /\ timer = FALSE /\ fire = "none" /\ wakeOwed = FALSE
  /\ launched = FALSE /\ cycle = "idle" /\ claimed = {}
  /\ apc = [a \in Armers |-> "off"]
  /\ recovery = "none"
  /\ overtaken = {} /\ missed = FALSE

\* What every armer that is about to act has read is stale now.
Stale == overtaken \cup {a \in Armers : apc[a] \in {"cancel", "set"}}

Overtake == overtaken' = Stale

\* configRecoveringSecret: headers that could not be read may be readable now.
Recovered == IF config = "UNAVAILABLE" THEN Configs ELSE {config}
-----------------------------------------------------------------------------
(***************************************************************************)
(* RetryTimer.                                                             *)
(***************************************************************************)
TimerCancel == timer' = FALSE /\ wakeOwed' = FALSE

\* A timer that expires: online it dispatches a flush, offline it goes on to
\* remember the wake.
Fire ==
  /\ timer /\ fire = "none"
  /\ timer' = FALSE
  /\ fire' = IF online THEN "none" ELSE "offline"
  /\ launched' = (launched \/ online)
  /\ UNCHANGED <<rows, cycle, claimed, wakeOwed, configVars, engineVars, netVars, armVars>>

FireOwe ==
  /\ fire = "offline"
  /\ wakeOwed' = TRUE
  /\ fire' = "owed"
  /\ UNCHANGED <<timer, queueVars, configVars, engineVars, netVars, armVars>>

\* onNetworkAvailable: compareAndSet, so that one wake is delivered once.
Deliver ==
  /\ launched' = (launched \/ wakeOwed)
  /\ wakeOwed' = FALSE

\* Without the second look, a network that returned in between delivers nothing.
BugFireRecheck ==
  /\ fire = "owed"
  /\ fire' = "none"
  /\ UNCHANGED <<timer, wakeOwed, queueVars, configVars, engineVars, netVars, armVars>>

\* The second look at the network in onFire.
FireRecheck ==
  /\ fire = "owed"
  /\ fire' = "none"
  /\ IF online THEN Deliver ELSE UNCHANGED <<launched, wakeOwed>>
  /\ UNCHANGED <<timer, rows, cycle, claimed, configVars, engineVars, netVars, armVars>>
-----------------------------------------------------------------------------
(***************************************************************************)
(* ConnectivityMonitor and the collector attachEngine launches.  A state   *)
(* flow keeps only its last value: a collector that is late never sees     *)
(* what was overwritten.                                                   *)
(***************************************************************************)
NetworkDown ==
  /\ bounds.outages /\ online
  /\ online' = FALSE /\ flow' = "DOWN"
  /\ UNCHANGED <<bounds, delivered, queueVars, configVars, engineVars, timerVars, armVars>>

\* onLost of one network while another one stays up.
OneNetworkLost ==
  /\ bounds.outages /\ online /\ flow = "UP"
  /\ flow' = "DOWN"
  /\ missed' = (missed \/ delivered # "UP")
  /\ UNCHANGED <<bounds, online, delivered, queueVars, configVars, engineVars, timerVars, apc, recovery, overtaken>>

\* onAvailable or onCapabilitiesChanged.
NetworkUp ==
  /\ ~online \/ flow = "DOWN"
  /\ online' = TRUE /\ flow' = "UP"
  /\ missed' = (missed \/ delivered = "UP")
  /\ UNCHANGED <<bounds, delivered, queueVars, configVars, engineVars, timerVars, apc, recovery, overtaken>>

Collect ==
  /\ watches > 0 /\ flow # delivered
  /\ delivered' = flow
  /\ IF flow = "UP" THEN Deliver ELSE UNCHANGED <<launched, wakeOwed>>
  /\ UNCHANGED <<bounds, online, flow, timer, fire, rows, cycle, claimed, configVars, engineVars, armVars>>
-----------------------------------------------------------------------------
(***************************************************************************)
(* The dispatcher as the wakes see it: a cycle under flushMutex claims,    *)
(* settles and arms before it lets go.                                     *)
(***************************************************************************)

\* flush() from JS; the timer and the worker call it too.
CallFlush ==
  /\ engines > 0 /\ ~launched
  /\ launched' = TRUE
  /\ UNCHANGED <<rows, cycle, claimed, configVars, engineVars, netVars, timerVars, armVars>>

SkipCycle ==
  /\ launched /\ cycle = "idle"
  /\ paused \/ config = "UNAVAILABLE"
  /\ launched' = FALSE
  /\ UNCHANGED <<rows, cycle, claimed, configVars, engineVars, netVars, timerVars, armVars>>

\* claimPending: the rows whose cooldown ran out, at most a batch of them.
BeginCycle ==
  /\ launched /\ cycle = "idle"
  /\ ~paused
  /\ \E s \in Recovered \ {"UNAVAILABLE"} : config' = s
  /\ overtaken' = IF config' = config THEN overtaken ELSE Stale
  /\ launched' = FALSE
  /\ cycle' = "sending"
  /\ \E ids \in SUBSET Pending(rows) : claimed' = ids /\ rows' = MarkInFlight(rows, ids)
  /\ UNCHANGED <<paused, pausing, engineVars, netVars, timerVars, apc, recovery, missed>>

\* An outcome is recorded: delivered, failed for good, or queued for a retry.
Settle(i) ==
  /\ i \in claimed
  /\ claimed' = claimed \ {i}
  /\ \/ rows' = MarkSucceeded(rows, i) /\ UNCHANGED overtaken
     \/ rows' = MarkFailed(rows, i, 0) /\ UNCHANGED overtaken
     \/ rows' = MarkRetry(rows, i, 0, 1) /\ Overtake
  /\ UNCHANGED <<launched, cycle, configVars, engineVars, netVars, timerVars, apc, recovery, missed>>

Start(a, stage) ==
  /\ apc[a] = "off" /\ Cardinality(Arming) < bounds.arming
  /\ apc' = [apc EXCEPT ![a] = stage]

\* A cycle that arms only when it was not aborted.
BugEndCycle ==
  /\ cycle = "sending"
  /\ claimed' = {}
  /\ \/ claimed = {} /\ cycle' = "arming" /\ Start("cycle", "read") /\ UNCHANGED <<rows, overtaken>>
     \/ claimed # {} /\ cycle' = "idle" /\ rows' = ResetInFlight(rows) /\ Overtake /\ UNCHANGED apc
  /\ UNCHANGED <<launched, configVars, engineVars, netVars, timerVars, recovery, missed>>

\* finally { onCycleFinished(...) }, on every way out of a cycle; a cancelled one
\* has released the rows it never started.
EndCycle ==
  /\ cycle = "sending"
  /\ \/ claimed = {} /\ UNCHANGED <<rows, overtaken>>
     \/ claimed # {} /\ rows' = ResetInFlight(rows) /\ Overtake
  /\ claimed' = {}
  /\ cycle' = "arming"
  /\ Start("cycle", "read")
  /\ UNCHANGED <<launched, configVars, engineVars, netVars, timerVars, recovery, missed>>
-----------------------------------------------------------------------------
(***************************************************************************)
(* RetryWake.arm and armForResume: what was read, then what is done.       *)
(***************************************************************************)
\* The armer is done with the timer and schedules the kick; a cycle gives the mutex back.
Return(a) ==
  /\ apc' = [apc EXCEPT ![a] = "off"]
  /\ overtaken' = (IF config' = config THEN overtaken ELSE Stale) \ {a}
  /\ cycle' = IF a = "cycle" THEN "idle" ELSE cycle

\* A resume wakes for every PENDING row and does not ask whether an engine lives.
Wakes(a) == IF a = "resume" THEN Pending(rows) # {} ELSE RetryRows(rows) # {}

\* The armer goes on to act; a configuration recovered just now makes others stale.
Decide(a, stage) ==
  /\ apc' = [apc EXCEPT ![a] = stage]
  /\ overtaken' = IF config' = config THEN overtaken ELSE Stale

\* Not halted; headers that could not be read before may have been recovered.
NotHalted == ~paused /\ "AUTOMATIC" \in Recovered /\ config' = "AUTOMATIC"

\* Halted, or nothing to wait for: the timer is going to be cancelled.
ReadNothing(a) ==
  /\ apc[a] = "read"
  /\ \/ (paused \/ config # "AUTOMATIC") /\ UNCHANGED config
     \/ NotHalted /\ ~Wakes(a)
  /\ Decide(a, "cancel")
  /\ UNCHANGED <<paused, pausing, queueVars, engineVars, netVars, timerVars, recovery, missed>>

\* A row waits and a timer is going to be set for it.
ReadWork(a) ==
  /\ apc[a] = "read"
  /\ NotHalted /\ Wakes(a) /\ (a # "resume" => engines > 0)
  /\ Decide(a, "set")
  /\ UNCHANGED <<paused, pausing, queueVars, engineVars, netVars, timerVars, recovery, missed>>

\* A row waits in a process without an engine: only the kick is scheduled.
ReadNoEngine(a) ==
  /\ apc[a] = "read"
  /\ NotHalted /\ Wakes(a) /\ a # "resume" /\ engines = 0
  /\ Return(a)
  /\ UNCHANGED <<rows, launched, claimed, paused, pausing, engineVars, netVars, timerVars, recovery, missed>>

\* The query throws: logged at the end of a cycle, rejected to JS, and for the
\* recovery work a reason to run again.
ReadThrows(a) ==
  /\ apc[a] = "read"
  /\ UNCHANGED configVars
  /\ Return(a)
  /\ recovery' = IF a = "recovery" THEN "queued" ELSE recovery
  /\ missed' = TRUE
  /\ UNCHANGED <<rows, launched, claimed, engineVars, netVars, timerVars>>

CancelTimer(a) ==
  /\ apc[a] = "cancel"
  /\ TimerCancel
  /\ missed' = (missed \/ a \in overtaken)
  /\ UNCHANGED configVars
  /\ Return(a)
  /\ UNCHANGED <<fire, rows, launched, claimed, engineVars, netVars, recovery>>

SetTimer(a) ==
  /\ apc[a] = "set"
  /\ timer' = TRUE /\ wakeOwed' = FALSE
  /\ missed' = FALSE
  /\ UNCHANGED configVars
  /\ Return(a)
  /\ UNCHANGED <<fire, rows, launched, claimed, engineVars, netVars, recovery>>

ArmStep(a) ==
  ReadNothing(a) \/ ReadWork(a) \/ ReadNoEngine(a) \/ ReadThrows(a) \/ CancelTimer(a) \/ SetTimer(a)
-----------------------------------------------------------------------------
(***************************************************************************)
(* SyncProviderRuntime, called from JS.                                    *)
(***************************************************************************)
JsCall == engines > 0

Enqueue(i) ==
  /\ JsCall /\ rows[i].status = "NEW"
  /\ rows' = Insert(rows, {i}, 0)
  /\ UNCHANGED <<launched, cycle, claimed, configVars, engineVars, netVars, timerVars, armVars>>

Remove(i) ==
  /\ JsCall /\ i \in Stored(rows)
  /\ rows' = Delete(rows, {i})
  /\ UNCHANGED <<launched, cycle, claimed, configVars, engineVars, netVars, timerVars, armVars>>

\* configure: the new configuration, then arm.
Configure ==
  /\ JsCall
  /\ config' \in {"AUTOMATIC", "MANUAL"}
  /\ Overtake
  /\ Start("configure", "read")
  /\ UNCHANGED <<paused, pausing, queueVars, engineVars, netVars, timerVars, recovery, missed>>

Pause ==
  /\ JsCall /\ ~pausing
  /\ paused' = TRUE /\ pausing' = TRUE
  /\ Overtake
  /\ UNCHANGED <<config, queueVars, engineVars, netVars, timerVars, apc, recovery, missed>>

PauseCancels ==
  /\ pausing
  /\ pausing' = FALSE
  /\ TimerCancel
  /\ missed' = (missed \/ ~paused)
  /\ UNCHANGED <<paused, config, fire, queueVars, engineVars, netVars, apc, recovery, overtaken>>

Resume ==
  /\ JsCall
  /\ paused' = FALSE
  /\ Overtake
  /\ Start("resume", "read")
  /\ UNCHANGED <<config, pausing, queueVars, engineVars, netVars, timerVars, recovery, missed>>

\* scheduleRecovery KEEPs the work that is already queued or running.
ScheduleRecovery == recovery' = IF recovery = "none" THEN "queued" ELSE recovery

AttachEngine ==
  /\ engines < bounds.engines
  /\ engines' = engines + 1
  /\ paused' = FALSE
  /\ IF engines = 0
     THEN watches < bounds.watches /\ watches' = watches + 1 /\ watchRef' = TRUE /\ delivered' = "none"
     ELSE UNCHANGED <<watches, watchRef, delivered>>
  /\ ScheduleRecovery
  /\ Overtake
  /\ missed' = (missed \/ recovery = "running")
  /\ UNCHANGED <<bounds, config, pausing, detaching, online, flow, queueVars, timerVars, apc>>

\* One detach to zero at a time.
DetachEngine ==
  /\ engines > 0 /\ ~detaching
  /\ engines' = engines - 1
  /\ detaching' = (engines = 1)
  /\ Overtake
  /\ UNCHANGED <<watches, watchRef, configVars, queueVars, netVars, timerVars, apc, recovery, missed>>

\* The rest of a detachEngine that counted down to zero, whoever attached since.
DetachStops ==
  /\ detaching
  /\ detaching' = FALSE
  /\ watches' = IF watchRef THEN watches - 1 ELSE watches
  /\ watchRef' = FALSE
  /\ TimerCancel
  /\ missed' = (missed \/ engines > 0)
  /\ UNCHANGED <<engines, fire, configVars, queueVars, netVars, apc, recovery, overtaken>>
-----------------------------------------------------------------------------
(***************************************************************************)
(* The workers.                                                            *)
(***************************************************************************)

\* BootCompletedReceiver.
Boot ==
  /\ recovery = "none"
  /\ ScheduleRecovery
  /\ UNCHANGED <<apc, overtaken, missed, queueVars, configVars, engineVars, netVars, timerVars>>

\* RecoveryWorker: the reset under the mutex, then arm.
RecoveryWorker ==
  /\ recovery = "queued" /\ cycle = "idle"
  /\ recovery' = "running"
  /\ rows' = ResetInFlight(rows)
  /\ Overtake
  /\ Start("recovery", "read")
  /\ UNCHANGED <<launched, cycle, claimed, configVars, engineVars, netVars, timerVars, missed>>

RecoveryEnds ==
  /\ recovery = "running" /\ apc["recovery"] = "off"
  /\ recovery' = "none"
  /\ UNCHANGED <<apc, overtaken, missed, queueVars, configVars, engineVars, netVars, timerVars>>

\* SyncWorker: inert while paused; with no engine it first recovers what a dead
\* process left.
SyncWorker ==
  /\ ~paused /\ ~launched
  /\ launched' = TRUE
  /\ IF engines = 0 THEN cycle = "idle" /\ rows' = ResetInFlight(rows) /\ Overtake
                    ELSE UNCHANGED <<rows, overtaken>>
  /\ UNCHANGED <<cycle, claimed, configVars, engineVars, netVars, timerVars, apc, recovery, missed>>

\* Process death: the table, the pause flag and the enqueued work survive.
Crash ==
  /\ config' \in Configs
  /\ pausing' = FALSE
  /\ engines' = 0 /\ watches' = 0 /\ watchRef' = FALSE /\ detaching' = FALSE
  /\ delivered' = "none"
  /\ timer' = FALSE /\ fire' = "none" /\ wakeOwed' = FALSE
  /\ launched' = FALSE /\ cycle' = "idle" /\ claimed' = {}
  /\ apc' = [a \in Armers |-> "off"]
  /\ recovery' = IF recovery = "running" THEN "queued" ELSE recovery
  /\ overtaken' = {} /\ missed' = FALSE
  /\ UNCHANGED <<bounds, rows, paused, online, flow>>
-----------------------------------------------------------------------------
JsStep ==
  \/ \E i \in Item : Enqueue(i) \/ Remove(i)
  \/ CallFlush \/ Configure \/ Pause \/ PauseCancels \/ Resume
  \/ AttachEngine \/ DetachEngine \/ DetachStops

WorkStep == Boot \/ RecoveryWorker \/ RecoveryEnds \/ SyncWorker

WakeStep ==
  \/ Fire \/ FireOwe \/ FireRecheck
  \/ NetworkDown \/ OneNetworkLost \/ NetworkUp \/ Collect
  \/ \E a \in Armers : ArmStep(a)

CycleStep == SkipCycle \/ BeginCycle \/ EndCycle \/ \E i \in Item : Settle(i)

Next == JsStep \/ WorkStep \/ WakeStep \/ CycleStep \/ Crash

Spec == Init /\ [][Next]_vars
-----------------------------------------------------------------------------
\* The wake layer's variables have their types; in particular every armer is at one
\* of its steps and at most bounds.watches collectors run.
TypeOK ==
  /\ rows \in [Item -> Row]
  /\ paused \in BOOLEAN /\ config \in Configs /\ pausing \in BOOLEAN
  /\ bounds \in Bounds /\ engines \in 0..bounds.engines /\ watches \in 0..bounds.watches
  /\ watchRef \in BOOLEAN /\ detaching \in BOOLEAN
  /\ online \in BOOLEAN /\ flow \in {"UP", "DOWN"} /\ delivered \in {"UP", "DOWN", "none"}
  /\ timer \in BOOLEAN /\ fire \in {"none", "offline", "owed"} /\ wakeOwed \in BOOLEAN
  /\ launched \in BOOLEAN /\ cycle \in {"idle", "sending", "arming"} /\ claimed \subseteq Item
  /\ apc \in [Armers -> Stages]
  /\ recovery \in {"none", "queued", "running"}
  /\ overtaken \subseteq Armers /\ missed \in BOOLEAN

\* Nothing is under way that could still arm, dispatch or cancel.
Quiet ==
  /\ ~launched /\ cycle = "idle" /\ Arming = {} /\ recovery = "none"
  /\ fire = "none" /\ delivered = flow
  /\ ~pausing /\ ~detaching

\* A retry waits for a wake that this process owes it.
Waiting ==
  /\ engines > 0 /\ watches > 0
  /\ ~paused /\ config = "AUTOMATIC"
  /\ RetryRows(rows) # {}

Woken == timer \/ (wakeOwed /\ ~online)

\* A retry that waits is always going to be woken: a timer counts down, or a wake
\* is owed to a network that is down - unless the last arm was overtaken by another
\* coroutine, failed, or was cancelled by the late half of a pause or detach
\* (RetryWake.arm, RetryTimer.onFire, SyncDispatcher's onCycleFinished).
WakeKept == (Quiet /\ Waiting /\ ~missed) => Woken

\* A wake that is on its way: a timer or one of its late halves, a wake owed to a network
\* that is down or whose return was not collected yet, a flush or a cycle that will arm,
\* an armer that has still to read or is about to set the timer, or a recovery to come.
Promised ==
  \/ timer \/ fire = "offline" \/ launched \/ cycle = "sending" \/ recovery = "queued"
  \/ wakeOwed /\ (~online \/ fire = "owed" \/ (flow = "UP" /\ delivered # "UP"))
  \/ \E a \in Armers : apc[a] \in {"read", "set"}

\* An armer that is going to cancel what it read was right to cancel has nothing to wake.
FreshCancels ==
  \A a \in Armers \ overtaken :
    apc[a] = "cancel" => paused \/ config # "AUTOMATIC" \/ RetryRows(rows) = {}

\* A cycle holds rows only while it sends, and arms before it gives the mutex back.
CycleArms ==
  /\ claimed # {} => cycle = "sending"
  /\ apc["cycle"] # "off" => cycle = "arming"

\* The inductive invariant behind WakeKept.
WakeInv ==
  /\ watchRef => watches > 0
  /\ ~online => flow = "DOWN"
  /\ CycleArms
  /\ FreshCancels
  /\ (Waiting /\ ~missed) => Promised

\* The same without the exception: the next wake is always re-armed.
NoLostWake == (Quiet /\ Waiting) => Woken
=============================================================================
