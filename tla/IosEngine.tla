------------------------------ MODULE IosEngine ------------------------------
(***************************************************************************)
(* The iOS runtime around the dispatcher: SyncEngine with its retry timer  *)
(* (RetryWakeTimer), the hybrids that attach and detach, pause, resume and *)
(* configure, the connectivity listener and launch recovery.               *)
(*                                                                         *)
(* rearmRetryTimer takes a ticket, reads the pause and the store with no   *)
(* lock held, and then acts only if its ticket is still the newest.  It is *)
(* called at the end of every cycle, after attachHybrid, configure and     *)
(* resume; disarmRetryTimer takes a ticket too.  The pause flag and the    *)
(* store are read in one step: a pause between them takes a newer ticket   *)
(* before it returns.                                                      *)
(*                                                                         *)
(* At most one configure, one resume and one wake-up of an attachment are  *)
(* under way at a time, one task that a timer or the network started, and  *)
(* one late half of a pause and of a detach.                               *)
(***************************************************************************)
EXTENDS IosDispatcher

CONSTANT MaxAttached   \* bound on the hybrids alive at once

ASSUME IosEngineAssumption ==
  /\ Caller \cap {"configure", "attach", "resume", "none"} = {}
  /\ MaxAttached \in Nat \ {0}

VARIABLES
  attached,   \* attachedHybrids
  detaching,  \* a detach that was the last still has to disarm
  pausing,    \* a pause still has to disarm
  manual,     \* options.isManual
  configure,  \* a configure has stored its options, not yet told the dispatcher
  hold,       \* credentialHoldUntil
  newest,     \* who holds the newest rearm ticket, "none" after a disarm
  arm,        \* the calls of rearmRetryTimer
  timer,      \* when the armed timer fires
  fire,       \* the task that runs retryWakeFired
  awaiting,   \* wakeAwaitingConnectivity
  online,     \* the monitor's current snapshot
  notice,     \* a path update whose listeners have not run yet
  \* History, read by the properties only.
  mustHold,   \* end of the last credential hold the app has not configured away
  missed      \* the timer was left as it is although something changed

lifeVars  == <<attached, detaching, pausing>>
optVars   == <<manual, configure, mustHold>>
armVars   == <<hold, newest, arm>>
timerVars == <<timer, fire, awaiting>>
netVars   == <<online, notice>>
engineVars == <<lifeVars, optVars, armVars, timerVars, netVars, missed>>
-----------------------------------------------------------------------------
Armers == Caller \cup {"configure", "attach", "resume"}

\* No wake to come: no row waits, or the timer is not armed.
Never == -1

ArmStages == {"off", "begin", "read", "act"}

\* What one call of rearmRetryTimer has found out.
Rearm == [stage : ArmStages, can : BOOLEAN, until : Nat, wake : Nat \cup {Never}]
NoRearm == [stage |-> "off", can |-> FALSE, until |-> 0, wake |-> Never]

Larger(m, n) == IF m > n THEN m ELSE n

\* A process just launched: no hybrid, no timer, no snapshot of the network.
Launch ==
  /\ attached' = 0 /\ detaching' = FALSE /\ pausing' = FALSE
  /\ manual' \in BOOLEAN /\ configure' = FALSE /\ mustHold' = 0
  /\ hold' = 0 /\ newest' = "none" /\ arm' = [a \in Armers |-> NoRearm]
  /\ timer' = Never /\ fire' = "none" /\ awaiting' = FALSE
  /\ online' = FALSE /\ notice' = FALSE
  /\ missed' = FALSE

EngineInit ==
  /\ Init
  /\ attached = 0 /\ detaching = FALSE /\ pausing = FALSE
  /\ manual \in BOOLEAN /\ configure = FALSE /\ mustHold = 0
  /\ hold = 0 /\ newest = "none" /\ arm = [a \in Armers |-> NoRearm]
  /\ timer = Never /\ fire = "none" /\ awaiting = FALSE
  /\ online = FALSE /\ notice = FALSE
  /\ missed = FALSE
-----------------------------------------------------------------------------
(***************************************************************************)
(* rearmRetryTimer.                                                        *)
(***************************************************************************)
Start(a) == arm[a].stage = "off" /\ arm' = [arm EXCEPT ![a].stage = "begin"]

\* When the hold of the caller's cycle ends: notBefore, 0 when there is none.
NotBefore(a) == IF a \in Caller THEN cyc[a].held ELSE 0

\* The task attachHybrid starts waits for launch recovery first.
RearmBegin(a) ==
  LET until == Larger(hold, NotBefore(a))
  IN /\ arm[a].stage = "begin"
     /\ a = "attach" => startup = "done"
     /\ newest' = a
     /\ hold' = until
     /\ arm' = [arm EXCEPT ![a] = [stage |-> "read", can |-> attached > 0 /\ ~manual,
                                   until |-> until, wake |-> Never]]
     /\ UNCHANGED <<vars, lifeVars, optVars, timerVars, netVars, missed>>

\* earliestPendingAt after a resume, earliestRetryAt otherwise.
WakeRows(a) == IF a = "resume" THEN Pending(rows) ELSE {i \in Pending(rows) : rows[i].nextRetryAt > 0}

\* The smallest of their times, the only member; Never when there is none.
EarliestWake(a) ==
  LET times == {rows[i].nextRetryAt : i \in WakeRows(a)}
  IN IF times = {} THEN {Never} ELSE {t \in times : \A u \in times : t <= u}

RearmRead(a) ==
  /\ arm[a].stage = "read"
  /\ \E t \in IF arm[a].can /\ ~paused THEN EarliestWake(a) ELSE {Never} :
       arm' = [arm EXCEPT ![a].stage = "act", ![a].wake = t]
  /\ UNCHANGED <<vars, lifeVars, optVars, hold, newest, timerVars, netVars, missed>>

\* The query throws: logged, and the timer stays as it is.
RearmThrows(a) ==
  /\ arm[a].stage = "read" /\ arm[a].can /\ ~paused
  /\ Fault
  /\ arm' = [arm EXCEPT ![a] = NoRearm]
  /\ missed' = (missed \/ newest = a)
  /\ UNCHANGED <<rows, now, config, paused, startup, running, pc, cyc, ledger,
                 lifeVars, optVars, hold, newest, timerVars, netVars>>

\* The timer is armed or cancelled without a look at the ticket.
BugRearmAct(a) ==
  /\ arm[a].stage = "act"
  /\ arm' = [arm EXCEPT ![a] = NoRearm]
  /\ IF arm[a].wake = Never
     THEN timer' = Never /\ awaiting' = FALSE
     ELSE timer' = Larger(now, Larger(arm[a].wake, arm[a].until)) /\ UNCHANGED awaiting
  /\ missed' = (missed /\ newest # a)
  /\ UNCHANGED <<vars, lifeVars, optVars, hold, newest, fire, netVars>>

\* Only the newest ticket touches the timer.
RearmAct(a) ==
  /\ arm[a].stage = "act"
  /\ arm' = [arm EXCEPT ![a] = NoRearm]
  /\ IF newest # a THEN UNCHANGED <<timer, awaiting>>
     ELSE IF arm[a].wake = Never
          THEN timer' = Never /\ awaiting' = FALSE
          ELSE timer' = Larger(now, Larger(arm[a].wake, arm[a].until)) /\ UNCHANGED awaiting
  /\ missed' = (missed /\ newest # a)
  /\ UNCHANGED <<vars, lifeVars, optVars, hold, newest, fire, netVars>>

\* disarmRetryTimer.
Disarm ==
  /\ newest' = "none"
  /\ timer' = Never /\ awaiting' = FALSE
  /\ UNCHANGED <<hold, arm, fire>>
-----------------------------------------------------------------------------
(***************************************************************************)
(* The timer and the network.                                              *)
(***************************************************************************)

\* The timer disarms itself and starts a task.
TimerFires ==
  /\ timer # Never /\ timer <= now
  /\ fire = "none"
  /\ timer' = Never /\ fire' = "check"
  /\ UNCHANGED <<vars, lifeVars, optVars, armVars, awaiting, netVars, missed>>

\* retryWakeFired: dropped without a hybrid or while paused, else the network decides.
WakeCheck ==
  /\ fire = "check"
  /\ fire' = IF attached = 0 \/ paused THEN "none" ELSE IF online THEN "flush" ELSE "offline"
  /\ UNCHANGED <<vars, lifeVars, optVars, armVars, timer, awaiting, netVars, missed>>

\* The wake is handed to the connectivity listener, which may have run just before.
WakeOffline ==
  /\ fire = "offline"
  /\ fire' = "none" /\ awaiting' = TRUE
  /\ missed' = (missed \/ (online /\ ~notice))
  /\ UNCHANGED <<vars, lifeVars, optVars, armVars, timer, netVars>>

WakeFlush(c) ==
  /\ fire = "flush"
  /\ fire' = "none"
  /\ Flush(c)
  /\ UNCHANGED <<lifeVars, optVars, armVars, timer, awaiting, netVars, missed>>

\* flush() returns at once.  A cycle that runs arms at its end and a resume arms too;
\* after headers that could not be read nobody does.
WakeSkipped ==
  /\ fire = "flush"
  /\ paused \/ running \/ config.source = "UNAVAILABLE"
  /\ fire' = "none"
  /\ missed' = (missed \/ (~paused /\ ~running))
  /\ UNCHANGED <<vars, lifeVars, optVars, armVars, timer, awaiting, netVars>>

\* handlePathUpdate stores the snapshot, then calls the listeners on the same queue.
PathUpdate ==
  /\ ~notice
  /\ online' \in BOOLEAN /\ notice' = TRUE
  /\ UNCHANGED <<vars, lifeVars, optVars, armVars, timerVars, missed>>

\* connectivityChanged.
ConnectivityChanged ==
  /\ notice /\ notice' = FALSE
  /\ \/ online /\ awaiting /\ fire = "none" /\ awaiting' = FALSE /\ fire' = "check"
     \/ ~(online /\ awaiting) /\ UNCHANGED <<awaiting, fire>>
  /\ UNCHANGED <<vars, lifeVars, optVars, armVars, timer, online, missed>>
-----------------------------------------------------------------------------
(***************************************************************************)
(* Calls of the bridge and of background tasks.                            *)
(***************************************************************************)

\* flush() from JS, or from a BGTask handler once launch recovery has run.
CallFlush(c) ==
  /\ attached > 0 \/ startup = "done"
  /\ Flush(c)
  /\ UNCHANGED engineVars

AttachHybrid ==
  /\ attached < MaxAttached
  /\ attached' = attached + 1
  /\ SetPaused(FALSE)
  /\ Start("attach")
  /\ UNCHANGED <<detaching, pausing, optVars, hold, newest, timerVars, netVars, missed>>

DetachHybrid ==
  /\ attached > 0 /\ ~detaching
  /\ attached' = attached - 1
  /\ detaching' = (attached = 1)
  /\ UNCHANGED <<vars, pausing, optVars, armVars, timerVars, netVars, missed>>

\* The rest of the last detach, whoever attached since.
DetachDisarms ==
  /\ detaching /\ detaching' = FALSE
  /\ Disarm
  /\ missed' = (missed \/ attached > 0)
  /\ UNCHANGED <<vars, attached, pausing, optVars, netVars>>

Pause ==
  /\ attached > 0 /\ ~pausing
  /\ pausing' = TRUE
  /\ SetPaused(TRUE)
  /\ UNCHANGED <<attached, detaching, optVars, armVars, timerVars, netVars, missed>>

\* The rest of the pause, whoever resumed since.
PauseDisarms ==
  /\ pausing /\ pausing' = FALSE
  /\ Disarm
  /\ missed' = (missed \/ ~paused)
  /\ UNCHANGED <<vars, attached, detaching, optVars, netVars>>

Resume ==
  /\ attached > 0
  /\ SetPaused(FALSE)
  /\ Start("resume")
  /\ UNCHANGED <<lifeVars, optVars, hold, newest, timerVars, netVars, missed>>

\* configure under the lock: the options, and no hold any more.
Configure ==
  /\ attached > 0 /\ ~configure /\ arm["configure"].stage = "off"
  /\ configure' = TRUE
  /\ manual' \in BOOLEAN
  /\ hold' = 0 /\ mustHold' = 0
  /\ UNCHANGED <<vars, lifeVars, newest, arm, timerVars, netVars, missed>>

\* Then the dispatcher, and the timer.
ConfigureDispatcher ==
  /\ configure /\ configure' = FALSE
  /\ UpdateConfig
  /\ Start("configure")
  /\ UNCHANGED <<lifeVars, manual, mustHold, hold, newest, timerVars, netVars, missed>>

\* enqueue, removeItem and clear.
QueueCall ==
  /\ attached > 0
  /\ Enqueue \/ Remove
  /\ UNCHANGED engineVars
-----------------------------------------------------------------------------
(***************************************************************************)
(* Cycles, recovery, death and time.                                       *)
(***************************************************************************)
EngineCycle(c) ==
  /\ CycleStep(c)
  /\ mustHold' = IF cyc'[c].held > cyc[c].held THEN cyc'[c].held ELSE mustHold
  /\ UNCHANGED <<lifeVars, manual, configure, armVars, timerVars, netVars, missed>>

FinishAndRearm(c) ==
  /\ Finish(c)
  /\ Start(c)
  /\ UNCHANGED <<lifeVars, optVars, hold, newest, timerVars, netVars, missed>>

ReturnRearmed(c) ==
  /\ arm[c].stage = "off"
  /\ Return(c)
  /\ UNCHANGED engineVars

EngineRecover == Recover /\ UNCHANGED engineVars

EngineKill == Kill /\ Launch

EngineTick == Tick /\ UNCHANGED engineVars
-----------------------------------------------------------------------------
RearmStep(a) == RearmBegin(a) \/ RearmRead(a) \/ RearmThrows(a) \/ RearmAct(a)

WakeStep ==
  \/ TimerFires \/ WakeCheck \/ WakeOffline \/ WakeSkipped
  \/ \E c \in Caller : WakeFlush(c)
  \/ PathUpdate \/ ConnectivityChanged

JsStep ==
  \/ AttachHybrid \/ DetachHybrid \/ DetachDisarms
  \/ Pause \/ PauseDisarms \/ Resume
  \/ Configure \/ ConfigureDispatcher \/ QueueCall

EngineNext ==
  \/ \E c \in Caller : CallFlush(c) \/ EngineCycle(c) \/ FinishAndRearm(c) \/ ReturnRearmed(c)
  \/ \E a \in Armers : RearmStep(a)
  \/ WakeStep \/ JsStep
  \/ EngineRecover \/ EngineKill \/ EngineTick

EngineSpec == EngineInit /\ [][EngineNext]_<<vars, engineVars>>
-----------------------------------------------------------------------------
\* The engine's variables have their types, next to the dispatcher's; in particular the
\* hybrids are never counted below zero and every hold and deadline is a time.
EngineTypeOK ==
  /\ TypeOK
  /\ attached \in 0..MaxAttached /\ detaching \in BOOLEAN /\ pausing \in BOOLEAN
  /\ manual \in BOOLEAN /\ configure \in BOOLEAN /\ mustHold \in Nat
  /\ hold \in Nat /\ newest \in Armers \cup {"none"} /\ arm \in [Armers -> Rearm]
  /\ timer \in Nat \cup {Never} /\ fire \in {"none", "check", "offline", "flush"}
  /\ awaiting \in BOOLEAN /\ online \in BOOLEAN /\ notice \in BOOLEAN
  /\ missed \in BOOLEAN

\* Nothing is under way that could still arm, disarm or dispatch.
Quiet ==
  /\ startup = "done" /\ \A c \in Caller : pc[c] = "idle"
  /\ \A a \in Armers : arm[a].stage = "off"
  /\ fire = "none" /\ ~notice /\ ~configure /\ ~pausing /\ ~detaching

\* A retry waits for a wake that this process owes it.
Waiting ==
  /\ attached > 0 /\ ~paused /\ ~manual
  /\ WakeRows("attach") # {}

\* A retry that waits is going to be woken, by the timer or by the network it waits for,
\* whatever re-arms overtake each other, and a wake never comes before the hold on a
\* rejected credential has run.  Excepted are a timer that a failing query left as it
\* was, the late half of a pause or detach, a wake handed over just after the network
\* returned, and one that found the headers unreadable (rearmRetryTimer, retryWakeFired).
WakeKept ==
  (Quiet /\ ~missed) =>
    /\ Waiting => timer # Never \/ (awaiting /\ ~online)
    /\ timer # Never => timer >= mustHold

\* A timer that fires offline remembers the wake and flushes when connectivity returns
\* (the retry guide; retryWakeFired): with the network up and nothing under way no wake
\* still waits for it.
OfflineWakeFlushed == (Quiet /\ online) => ~awaiting
-----------------------------------------------------------------------------
(***************************************************************************)
(* Inductive invariants behind WakeKept.                                   *)
(***************************************************************************)

\* The holder of the newest ticket has still to act on the timer.
Ticketed == newest \in Armers /\ arm[newest].stage \in {"read", "act"}

\* It will arm it, should a retry wait by then.
WillArm(a) ==
  \/ arm[a].stage = "read" /\ arm[a].can
  \/ arm[a].stage = "act" /\ arm[a].wake # Never

\* A re-arm that has not looked at anything yet is under way, or bound to come.
RearmDue ==
  \/ \E a \in Armers : arm[a].stage = "begin"
  \/ configure
  \/ \E c \in Caller : pc[c] \in InCycle

\* The wake is with the timer, its task, or the network.
Armed ==
  \/ timer # Never \/ fire # "none"
  \/ awaiting /\ (~online \/ notice)

\* A cycle re-arms before flush returns, and the wake-up of an attachment waits for
\* launch recovery.
ArmersInv ==
  /\ running => \E c \in Caller : pc[c] \in InCycle
  /\ startup = "pending" /\ attached > 0 => arm["attach"].stage = "begin"
  /\ \A c \in Caller :
       /\ arm[c].stage # "off" => pc[c] = "rearm"
       /\ pc[c] \in {"idle", "fetch", "item", "wire"} => cyc[c].held = 0

\* A retry that waits is with a re-arm to come, with the newest ticket, or woken already.
\* What the newest ticket does not know, a later one will find: that does not depend on
\* what was missed before.
WakeInv ==
  Waiting =>
    \/ RearmDue
    \/ Ticketed /\ WillArm(newest)
    \/ ~Ticketed /\ (missed \/ Armed)

\* The cycle that was told to hold has not passed it on.
HoldCarried ==
  \E c \in Caller : (pc[c] \in InCycle \/ arm[c].stage = "begin") /\ cyc[c].held >= mustHold

\* A hold travels from the cycle that met the rejection to the engine, to the newest
\* ticket and to the timer.
HoldInv ==
  HoldCarried \/
    /\ hold >= mustHold
    /\ IF Ticketed THEN arm[newest].until >= mustHold
       ELSE missed \/ timer = Never \/ timer >= mustHold
=============================================================================
