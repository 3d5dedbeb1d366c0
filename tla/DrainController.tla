--------------------------- MODULE DrainController ---------------------------
(***************************************************************************)
(* drainUntilEmpty: the JS loop that flushes until the queue is empty or a *)
(* bound stops it, against a native engine that others use at the same     *)
(* time.                                                                   *)
(*                                                                         *)
(* The loop is always in one await: a native call, or a sleep.  What it    *)
(* learns is a snapshot of native state at the moment the call was         *)
(* answered; it acts on it in a later turn.  A stop (deadline or cancel)   *)
(* rejects the await, never the native work behind it.                     *)
(*                                                                         *)
(* The native side is as the loop sees it on either platform: cycles of    *)
(* any caller claim, settle and end; a flush during one waits for it       *)
(* (Android) or returns at once (iOS).  The abandoned flush of a stopped   *)
(* drain is one of those callers.  itemsDispatched, a best-effort sum, is  *)
(* left out.                                                               *)
(***************************************************************************)
EXTENDS SyncQueue

CONSTANTS
  IdleWait,       \* DRAIN_IDLE_WAIT_MS
  Delays,         \* values of delayBetweenCyclesMs
  Timeouts,       \* values of timeoutMs
  MaxIterations,  \* values of maxIterations
  BatchSize,      \* rows a cycle claims at most
  Cooldowns,      \* what a failed attempt may add to the clock
  MaxTime         \* bound on the clock

ASSUME DrainAssumption ==
  /\ IsFiniteSet(Item)
  /\ IdleWait \in Nat \ {0}
  /\ Delays \subseteq Nat /\ Delays # {}
  /\ Timeouts \subseteq Nat /\ Timeouts # {}
  /\ MaxIterations \subseteq Nat /\ MaxIterations # {}
  /\ BatchSize \in Nat \ {0}
  /\ Cooldowns \subseteq Nat \ {0} /\ Cooldowns # {}
  /\ MaxTime \in Nat

VARIABLES
  rows,       \* the persisted table
  now,        \* Date.now
  syncing,    \* what isSyncing answers
  cycle,      \* the native cycle: "idle", "begun", "sending"
  claimed,    \* rows the native cycle has still to settle
  answers,    \* the running cycle was started by the flush the loop awaits
  cancelled,  \* state.cancelled
  at,         \* the await the loop is in, "off" when no drain is active
  wait,       \* how that await stands
  reply,      \* what the native call answered
  loop,       \* the local variables of runDrain
  \* History, read by the properties only.
  past        \* what happened in this drain, and how the last one ended

nativeVars == <<rows, syncing, cycle, claimed, answers>>
loopVars   == <<cancelled, at, wait, reply, loop>>
vars == <<nativeVars, now, loopVars, past>>
-----------------------------------------------------------------------------
Calls == {"isSyncing", "size", "recheck", "pending", "connection", "flush"}
Stops == {"CANCELLED", "TIMEOUT"}

Reply == [syncing : BOOLEAN, size : Nat, cooling : SUBSET Nat, online : BOOLEAN,
          held : SUBSET Item]   \* history: rows in flight when the re-read was answered
NoReply == [syncing |-> FALSE, size |-> 0, cooling |-> {}, online |-> FALSE, held |-> {}]

Loop == [iterations : Nat, max : Nat, delay : Nat, lastSize : Nat, ran : BOOLEAN,
         deadline : Nat, wakeAt : Nat]
NoLoop == [iterations |-> 0, max |-> 0, delay |-> 0, lastSize |-> 0, ran |-> FALSE,
           deadline |-> 0, wakeAt |-> 0]

Past == [flushAt  : Nat,         \* time of the last flush of this drain
         flushed  : BOOLEAN,     \* there was one
         progress : BOOLEAN,     \* the size was seen to fall since
         cooling  : SUBSET Nat,  \* the cooldowns seen since
         empty    : BOOLEAN,     \* at some moment of this drain the queue was empty and idle
         ended    : {"none", "EMPTY", "MAX_ITERATIONS", "ERROR"} \cup Stops,
         held     : SUBSET Item] \* rows in flight when the re-read that ended it was answered
NoPast == [flushAt |-> 0, flushed |-> FALSE, progress |-> FALSE, cooling |-> {}, empty |-> FALSE,
           ended |-> "none", held |-> {}]

Init ==
  /\ rows = [i \in Item |-> NewRow]
  /\ now = 0
  /\ syncing = FALSE /\ cycle = "idle" /\ claimed = {} /\ answers = FALSE
  /\ cancelled = FALSE /\ at = "off" /\ wait = "none"
  /\ reply = NoReply /\ loop = NoLoop /\ past = NoPast

EmptyAndIdle(q, busy) == Pending(q) = {} /\ ~busy

Longest(m, n) == IF m > n THEN m ELSE n
-----------------------------------------------------------------------------
(***************************************************************************)
(* raceWithStop: every await checks both stops before it calls, and can be *)
(* ended by either while it waits.                                         *)
(***************************************************************************)

RaceWithStop(step) ==
  /\ at' = step
  /\ wait' = CASE cancelled                              -> "CANCELLED"
               [] ~cancelled /\ now >= loop.deadline      -> "TIMEOUT"
               [] ~cancelled /\ ~(now >= loop.deadline)   -> "waiting"
  /\ reply' = NoReply
  /\ UNCHANGED cancelled

\* A wait whose deadline nobody watches.
BugDeadlinePasses == FALSE /\ UNCHANGED vars

DeadlinePasses ==
  /\ wait = "waiting" /\ now >= loop.deadline
  /\ wait' = "TIMEOUT"
  /\ answers' = FALSE
  /\ UNCHANGED <<rows, syncing, cycle, claimed, now, cancelled, at, reply, loop, past>>

\* Every await in progress is rejected; one that is already resolved is not.
CancelActiveDrain ==
  /\ at # "off" /\ ~cancelled
  /\ cancelled' = TRUE
  /\ wait' = IF wait = "waiting" THEN "CANCELLED" ELSE wait
  /\ answers' = IF wait = "waiting" THEN FALSE ELSE answers
  /\ UNCHANGED <<rows, syncing, cycle, claimed, now, at, reply, loop, past>>

SleepEnds ==
  /\ at = "sleep" /\ wait = "waiting" /\ now >= loop.wakeAt
  /\ wait' = "value"
  /\ UNCHANGED <<nativeVars, now, cancelled, at, reply, loop, past>>
-----------------------------------------------------------------------------
(***************************************************************************)
(* runDrain.  One step runs from the end of one await to the next one.     *)
(***************************************************************************)

\* A second call while a drain is active throws and changes nothing.
StartDrain ==
  /\ at = "off"
  /\ \E t \in Timeouts, m \in MaxIterations, d \in Delays :
       /\ now + t <= MaxTime
       /\ loop' = [NoLoop EXCEPT !.deadline = now + t, !.max = m, !.delay = d]
       /\ at' = "isSyncing"
       /\ wait' = IF t = 0 THEN "TIMEOUT" ELSE "waiting"
  /\ cancelled' = FALSE /\ reply' = NoReply
  /\ past' = [NoPast EXCEPT !.empty = EmptyAndIdle(rows, syncing)]
  /\ UNCHANGED <<nativeVars, now>>

\* finally: the lock is released on every way out.
Leave(reason) ==
  /\ at' = "off" /\ wait' = "none" /\ cancelled' = FALSE
  /\ reply' = NoReply /\ loop' = NoLoop
  /\ past' = [NoPast EXCEPT !.ended = reason, !.empty = reason = "EMPTY" /\ past.empty, !.held = reply.held]
  /\ UNCHANGED <<nativeVars, now>>

\* A DrainStop becomes a result, any other rejection is thrown on.
Stopped ==
  /\ wait \in Stops \cup {"ERROR"}
  /\ Leave(wait)

Await(step) ==
  /\ RaceWithStop(step)
  /\ UNCHANGED <<nativeVars, now>>

Sleep(ms) == Await("sleep") /\ loop' = [loop EXCEPT !.wakeAt = now + ms]

Resumes(step) == at = step /\ wait = "value"

\* A running cycle holds items out of the count: wait it out.
AfterIsSyncing ==
  /\ Resumes("isSyncing")
  /\ \/ reply.syncing  /\ Sleep(IdleWait)
     \/ ~reply.syncing /\ Await("size") /\ UNCHANGED loop
  /\ UNCHANGED past

\* Fewer rows than at the last look; the first look compares with nothing.
Removed == loop.lastSize > reply.size

SeeSize(ran) == loop' = [loop EXCEPT !.lastSize = reply.size, !.ran = ran]

SizeZero ==
  /\ Resumes("size") /\ reply.size = 0
  /\ Await("recheck")
  /\ SeeSize(loop.ran)
  /\ past' = [past EXCEPT !.progress = @ \/ Removed]

OutOfIterations ==
  /\ Resumes("size") /\ reply.size > 0
  /\ loop.iterations >= loop.max
  /\ Leave("MAX_ITERATIONS")

\* A loop that flushes again at once, whatever the last cycle did.
BugAfterCycle ==
  /\ Resumes("size") /\ reply.size > 0 /\ loop.iterations < loop.max /\ loop.ran
  /\ Await("connection") /\ SeeSize(FALSE)
  /\ past' = [past EXCEPT !.progress = @ \/ Removed]

\* A cycle has just run: pause, or ask what cools when it took nothing away.
AfterCycle ==
  /\ Resumes("size") /\ reply.size > 0 /\ loop.iterations < loop.max /\ loop.ran
  /\ \/ Removed /\ loop.delay > 0 /\ Await("sleep")
          /\ loop' = [loop EXCEPT !.lastSize = reply.size, !.ran = FALSE, !.wakeAt = now + loop.delay]
     \/ Removed /\ loop.delay = 0 /\ Await("connection") /\ SeeSize(FALSE)
     \/ ~Removed /\ Await("pending") /\ SeeSize(FALSE)
  /\ past' = [past EXCEPT !.progress = @ \/ Removed]

NoCycleYet ==
  /\ Resumes("size") /\ reply.size > 0 /\ loop.iterations < loop.max /\ ~loop.ran
  /\ Await("connection") /\ SeeSize(FALSE)
  /\ past' = [past EXCEPT !.progress = @ \/ Removed]

\* A zero size alone taken for an empty queue.
BugAfterRecheck ==
  /\ Resumes("recheck")
  /\ Leave("EMPTY")

AfterRecheck ==
  /\ Resumes("recheck")
  /\ \/ reply.syncing  /\ Sleep(IdleWait) /\ UNCHANGED past
     \/ ~reply.syncing /\ Leave("EMPTY")

\* waitAfterNoProgress, with soonestCooldownEnd of the rows it read.
AfterPending ==
  LET ahead == {t \in reply.cooling : t > now}
  IN /\ Resumes("pending")
     /\ \/ ahead = {} /\ Sleep(Longest(loop.delay, IdleWait)) /\ UNCHANGED past
        \/ \E end \in ahead :
             /\ \A t \in ahead : end <= t
             /\ \/ end >= loop.deadline /\ Leave("TIMEOUT")
                \/ /\ end < loop.deadline
                   /\ Sleep(Longest(loop.delay, end - now))
                   /\ past' = [past EXCEPT !.cooling = @ \cup {end}]

AfterConnection ==
  /\ Resumes("connection")
  /\ \/ ~reply.online /\ Sleep(Longest(loop.delay, IdleWait)) /\ UNCHANGED past
     \/ /\ reply.online
        /\ Await("flush")
        /\ loop' = [loop EXCEPT !.iterations = @ + 1, !.ran = TRUE]
        /\ past' = IF wait' = "waiting"
                   THEN [past EXCEPT !.flushAt = now, !.flushed = TRUE, !.progress = FALSE, !.cooling = {}]
                   ELSE past

AfterFlushOrSleep ==
  /\ Resumes("flush") \/ Resumes("sleep")
  /\ Await("isSyncing")
  /\ UNCHANGED <<loop, past>>
-----------------------------------------------------------------------------
(***************************************************************************)
(* The native side: answers, cycles, the queue, the network, time.         *)
(***************************************************************************)
\* Retry deadlines still ahead; only they matter to soonestCooldownEnd.
Cooling == {rows[i].nextRetryAt : i \in {j \in Pending(rows) : rows[j].nextRetryAt > now}}

\* What the network is at the moment of the answer is open.
Answer ==
  /\ at \in Calls \ {"flush"} /\ wait = "waiting"
  /\ \E up \in BOOLEAN :
       reply' = CASE at = "isSyncing"  -> [NoReply EXCEPT !.syncing = syncing]
                  [] at = "recheck"    -> [NoReply EXCEPT !.syncing = syncing, !.held = claimed]
                  [] at = "size"       -> [NoReply EXCEPT !.size = Cardinality(Pending(rows))]
                  [] at = "pending"    -> [NoReply EXCEPT !.cooling = Cooling]
                  [] at = "connection" -> [NoReply EXCEPT !.online = up]
  /\ wait' = "value"
  /\ UNCHANGED <<nativeVars, now, cancelled, at, loop, past>>

\* Any call may reject, a flush whose storage fails included.
CallFails ==
  /\ at \in Calls /\ wait = "waiting"
  /\ wait' = "ERROR"
  /\ answers' = FALSE
  /\ UNCHANGED <<rows, syncing, cycle, claimed, now, cancelled, at, reply, loop, past>>

\* A flush that runs no cycle of its own: paused or without headers, or, on iOS,
\* made while a cycle runs.
FlushSkips ==
  /\ at = "flush" /\ wait = "waiting" /\ ~answers
  /\ wait' = "value"
  /\ UNCHANGED <<nativeVars, now, cancelled, at, reply, loop, past>>

\* The loop's own flush, or another caller's, gets to run a cycle.
CycleStarts ==
  /\ cycle = "idle"
  /\ cycle' = "begun" /\ syncing' = TRUE
  /\ \/ at = "flush" /\ wait = "waiting" /\ answers' = TRUE
     \/ answers' = FALSE
  /\ UNCHANGED <<rows, claimed, now, loopVars, past>>

CycleClaims ==
  /\ cycle = "begun"
  /\ cycle' = "sending"
  /\ \E ids \in Claims(rows, now, BatchSize) : claimed' = ids /\ rows' = MarkInFlight(rows, ids)
  /\ UNCHANGED <<syncing, answers, now, loopVars, past>>

\* Delivered, failed for good, or cooling.
CycleSettles(i) ==
  /\ i \in claimed
  /\ claimed' = claimed \ {i}
  /\ \/ rows' = MarkSucceeded(rows, i)
     \/ rows' = MarkFailed(rows, i, 0)
     \/ \E d \in Cooldowns : rows' = MarkRetry(rows, i, 0, now + d)
  /\ UNCHANGED <<syncing, cycle, answers, now, loopVars, past>>

CycleEnds ==
  /\ cycle = "sending" /\ claimed = {}
  /\ cycle' = "idle" /\ syncing' = FALSE /\ answers' = FALSE
  /\ wait' = IF answers THEN "value" ELSE wait
  /\ past' = [past EXCEPT !.empty = @ \/ (at # "off" /\ EmptyAndIdle(rows, FALSE))]
  /\ UNCHANGED <<rows, claimed, now, cancelled, at, reply, loop>>

Enqueue(i) ==
  /\ rows[i].status = "NEW"
  /\ rows' = Insert(rows, {i}, 0)
  /\ UNCHANGED <<syncing, cycle, claimed, answers, now, loopVars, past>>

Remove(i) ==
  /\ i \in Stored(rows)
  /\ rows' = Delete(rows, {i})
  /\ past' = [past EXCEPT !.empty = @ \/ (at # "off" /\ EmptyAndIdle(rows', syncing))]
  /\ UNCHANGED <<syncing, cycle, claimed, answers, now, loopVars>>

Tick ==
  /\ now < MaxTime
  /\ now' = now + 1
  /\ UNCHANGED <<nativeVars, loopVars, past>>
-----------------------------------------------------------------------------
LoopStep ==
  \/ AfterIsSyncing \/ SizeZero \/ OutOfIterations \/ AfterCycle \/ NoCycleYet
  \/ AfterRecheck \/ AfterPending \/ AfterConnection \/ AfterFlushOrSleep
  \/ Stopped

TimerStep == DeadlinePasses \/ SleepEnds

NativeStep ==
  \/ Answer \/ CallFails \/ FlushSkips \/ CycleStarts \/ CycleClaims \/ CycleEnds
  \/ \E i \in Item : CycleSettles(i) \/ Enqueue(i) \/ Remove(i)

Next == StartDrain \/ CancelActiveDrain \/ LoopStep \/ TimerStep \/ NativeStep \/ Tick

Spec == Init /\ [][Next]_vars

(***************************************************************************)
(* The JS event loop turns, its deadline timer fires and time passes.      *)
(* Nothing is asked of the native side: a call may never be answered.      *)
(***************************************************************************)
Fairness == WF_vars(LoopStep \/ DeadlinePasses) /\ WF_vars(Tick)

FairSpec == Spec /\ Fairness
-----------------------------------------------------------------------------
\* The variables of the drain and of the engine around it have their types, and a drain
\* that is not active keeps no cancel request and no await.
TypeOK ==
  /\ rows \in [Item -> Row]
  /\ now \in 0..MaxTime
  /\ syncing \in BOOLEAN
  /\ cycle \in {"idle", "begun", "sending"} /\ claimed \subseteq Item /\ answers \in BOOLEAN
  /\ cancelled \in BOOLEAN
  /\ at \in Calls \cup {"off", "sleep"}
  /\ wait \in {"none", "waiting", "value", "ERROR"} \cup Stops
  /\ reply \in Reply /\ loop \in Loop /\ past \in Past
  /\ at = "off" => wait = "none" /\ ~cancelled /\ ~answers

\* EMPTY is never reported on the strength of a moment when a cycle held rows: when the
\* call that decided it was answered, none was in flight (the second isSyncing of runDrain).
EmptyWasQuiet == past.ended = "EMPTY" => past.held = {}

\* Since the last flush the idle wait passed, or a cooldown the loop looked at ran out.
Rested == \/ now >= past.flushAt + IdleWait
          \/ \E t \in past.cooling : past.flushAt < t /\ t <= now

\* The loop cannot spin: between two flushes of a drain, the size was seen to fall, or the
\* idle wait passed, or a cooldown the loop slept through ended - however cycles of other
\* callers, enqueues, removals and the network interleave (cycleJustRan, waitAfterNoProgress).
NoSpin ==
  [][(past.flushed /\ past'.flushed /\ at = "connection" /\ at' = "flush" /\ wait' = "waiting")
       => past.progress \/ Rested]_vars

\* Every drain ends: whatever hangs, whatever is enqueued, the deadline ends every await.
DrainSettles == at # "off" ~> at = "off"

\* "EMPTY" means that the queue was empty and no cycle was running, at one moment at least.
EmptyMeansEmpty == past.ended = "EMPTY" => past.empty

\* The inductive invariant behind EmptyWasQuiet: isSyncing covers every row in flight, and
\* an answer keeps what was true when it was given.
QuietInv ==
  /\ syncing <=> cycle # "idle"
  /\ claimed # {} => cycle = "sending"
  /\ (at = "recheck" /\ wait = "value" /\ ~reply.syncing) => reply.held = {}
  /\ EmptyWasQuiet

\* The sleep the loop is in lasts until it has rested.
RestingSleep ==
  /\ at = "sleep"
  /\ \/ loop.wakeAt >= past.flushAt + IdleWait
     \/ \E t \in past.cooling : past.flushAt < t /\ t <= loop.wakeAt

\* The inductive invariant behind NoSpin: while the loop has neither seen progress nor rested
\* since its last flush, cycleJustRan is still set, or it is in waitAfterNoProgress.
SpinInv ==
  /\ answers => at = "flush" /\ wait = "waiting"
  /\ (at = "sleep" /\ wait = "value") => now >= loop.wakeAt
  /\ past.flushAt <= now
  /\ at = "connection" => ~loop.ran
  /\ (past.flushed /\ ~past.progress /\ ~Rested) => loop.ran \/ at = "pending" \/ RestingSleep
=============================================================================
