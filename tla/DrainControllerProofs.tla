----------------------- MODULE DrainControllerProofs -----------------------
(***************************************************************************)
(* Proofs about DrainController, for any finite set of items, any options  *)
(* and any bound on the clock.                                             *)
(***************************************************************************)
EXTENDS DrainController, FiniteSetTheorems, TLAPS

\* Every statement of the queue maps a table to a table.
LEMMA TableTypes ==
  ASSUME NEW q \in [Item -> Row], NEW ids, NEW id \in Item, NEW m \in Nat
  PROVE  /\ Insert(q, ids, 0) \in [Item -> Row]
         /\ Delete(q, ids) \in [Item -> Row]
         /\ MarkRetry(q, id, 0, m) \in [Item -> Row]
         /\ MarkFailed(q, id, 0) \in [Item -> Row]
         /\ MarkSucceeded(q, id) \in [Item -> Row]
         /\ MarkInFlight(q, ids) \in [Item -> Row]
<1>1. Insert(q, ids, 0) \in [Item -> Row]
  BY DEF Insert, Row, StoredStatus
<1>2. \A S : Delete(q, S) \in [Item -> Row]
  BY DEF Delete, GoneRow, Row, StoredStatus
<1>3. MarkRetry(q, id, 0, m) \in [Item -> Row] /\ MarkFailed(q, id, 0) \in [Item -> Row]
  BY DEF MarkRetry, MarkFailed, UpdateStatus, Row, StoredStatus
<1>4. MarkInFlight(q, ids) \in [Item -> Row]
  BY DEF MarkInFlight, Row, StoredStatus
<1> QED BY <1>1, <1>2, <1>3, <1>4 DEF MarkSucceeded

\* size() answers with a number, and the cooldowns getPendingItems shows are times.
LEMMA AnswerTypes ==
  ASSUME rows \in [Item -> Row]
  PROVE  Cardinality(Pending(rows)) \in Nat /\ Cooling \in SUBSET Nat
<1>1. IsFiniteSet(Pending(rows))
  BY DrainAssumption, FS_Subset DEF Pending
<1>2. Cooling \subseteq Nat
  BY DEF Cooling, Pending, Row
<1> QED BY <1>1, <1>2, FS_CardinalityType
-----------------------------------------------------------------------------
(***************************************************************************)
(* Type correctness.  A drain leaves only from an await that has settled,  *)
(* and a cycle answers the loop's flush only while the loop awaits it.     *)
(***************************************************************************)
AnswersFlush == answers => at = "flush" /\ wait = "waiting"

TypeInv == TypeOK /\ AnswersFlush

\* The types of the clock, the native engine and of the loop apart.
NativeTyped == /\ rows \in [Item -> Row] /\ now \in 0..MaxTime
               /\ syncing \in BOOLEAN /\ cycle \in {"idle", "begun", "sending"} /\ claimed \subseteq Item
LoopTyped   == /\ answers \in BOOLEAN /\ cancelled \in BOOLEAN
               /\ at \in Calls \cup {"off", "sleep"}
               /\ wait \in {"none", "waiting", "value", "ERROR"} \cup Stops
               /\ at = "off" => wait = "none" /\ ~cancelled
               /\ AnswersFlush
DataTyped   == reply \in Reply /\ loop \in Loop /\ past \in Past

\* The parts together are the invariant, in this state and in the next.
LEMMA TypeParts ==
  /\ TypeInv <=> NativeTyped /\ LoopTyped /\ DataTyped
  /\ TypeInv' <=> NativeTyped' /\ LoopTyped' /\ DataTyped'
BY DEF TypeInv, TypeOK, NativeTyped, LoopTyped, DataTyped, AnswersFlush, Calls, Stops

\* The values the loop and its history start from.
LEMMA StartValues ==
  NoReply \in Reply /\ NoLoop \in Loop /\ NoPast \in Past
BY DEF NoReply, Reply, NoLoop, Loop, NoPast, Past

\* The initial state is well typed.
LEMMA InitTypes == Init => TypeInv
<1> SUFFICES ASSUME Init PROVE NativeTyped /\ LoopTyped /\ DataTyped
  BY TypeParts
<1>1. rows \in [Item -> Row]
  BY DEF Init, NewRow, Row, StoredStatus
<1>2. now \in 0..MaxTime
  BY DrainAssumption DEF Init
<1> QED BY <1>1, <1>2, StartValues DEF Init, NativeTyped, LoopTyped, DataTyped, AnswersFlush

\* A drain that ends leaves nothing behind (finally).
LEMMA LeaveTypes ==
  ASSUME TypeInv, NEW reason \in {"EMPTY", "MAX_ITERATIONS", "ERROR"} \cup Stops, wait # "waiting", Leave(reason)
  PROVE  TypeInv'
<1> USE TypeParts
<1>1. NativeTyped' /\ answers' = FALSE
  BY DEF Leave, nativeVars, NativeTyped, LoopTyped, AnswersFlush
<1>2. LoopTyped'
  BY <1>1 DEF Leave, LoopTyped, AnswersFlush
<1>3. DataTyped'
  <2>1. past' \in Past
    BY DEF Leave, DataTyped, Past, NoPast, Reply, Stops
  <2> QED BY <2>1, StartValues DEF Leave, DataTyped
<1> QED BY <1>1, <1>2, <1>3

\* The loop goes from a settled await to the next one (raceWithStop).
LEMMA AwaitTypes ==
  ASSUME TypeInv, NEW step \in Calls \cup {"sleep"}, wait # "waiting", Await(step),
         loop' \in Loop, past' \in Past
  PROVE  TypeInv'
<1> USE TypeParts
<1>1. NativeTyped' /\ answers' = FALSE
  BY DEF Await, nativeVars, NativeTyped, LoopTyped, AnswersFlush
<1>2. LoopTyped'
  <2>1. wait' \in {"waiting"} \cup Stops
    BY DEF Await, RaceWithStop, Stops
  <2>2. at' = step /\ step # "off" /\ cancelled' = cancelled
    BY DEF Await, RaceWithStop, Calls
  <2> QED BY <1>1, <2>1, <2>2 DEF LoopTyped, AnswersFlush
<1>3. DataTyped'
  BY StartValues DEF Await, RaceWithStop, DataTyped
<1> QED BY <1>1, <1>2, <1>3

\* A turn of the loop (runDrain, from one await to the next).
LEMMA LoopTypes == TypeInv /\ LoopStep => TypeInv'
<1> SUFFICES ASSUME TypeInv, LoopStep PROVE TypeInv'
  OBVIOUS
<1>t. /\ loop \in Loop /\ past \in Past /\ reply \in Reply /\ now \in Nat
      /\ reply.size \in Nat /\ reply.cooling \subseteq Nat /\ loop.delay \in Nat /\ past.cooling \subseteq Nat
      /\ loop.iterations \in Nat /\ loop.deadline \in Nat
  BY DrainAssumption DEF TypeInv, TypeOK, Loop, Past, Reply
<1>a. \A n \in Nat : [loop EXCEPT !.wakeAt = n] \in Loop
  BY <1>t DEF Loop
<1>b. \A ran \in BOOLEAN : [loop EXCEPT !.lastSize = reply.size, !.ran = ran] \in Loop
  BY <1>t DEF Loop
<1>c. [past EXCEPT !.progress = past.progress \/ Removed] \in Past
  <2>1. \A b \in BOOLEAN : [past EXCEPT !.progress = b] \in Past
    BY <1>t DEF Past
  <2>2. (past.progress \/ Removed) \in BOOLEAN
    OBVIOUS
  <2> QED BY <2>1, <2>2
<1>i. IdleWait \in Nat
  BY DrainAssumption
<1>j. now + IdleWait \in Nat /\ now + loop.delay \in Nat
  BY <1>t, <1>i
<1>l. now + Longest(loop.delay, IdleWait) \in Nat
  BY <1>j, <1>t, <1>i DEF Longest
<1>1. CASE AfterIsSyncing
  BY <1>1, <1>a, <1>j, <1>t, AwaitTypes DEF AfterIsSyncing, Resumes, Sleep, Calls
<1>2. CASE SizeZero
  <2>1. loop' \in Loop
    <3>1. loop.ran \in BOOLEAN
      BY <1>t DEF Loop
    <3> QED BY <1>2, <1>b, <3>1 DEF SizeZero, SeeSize
  <2>2. past' \in Past
    BY <1>2, <1>c DEF SizeZero
  <2> QED BY <1>2, <2>1, <2>2, AwaitTypes DEF SizeZero, Resumes, Calls
<1>3. CASE OutOfIterations
  BY <1>3, LeaveTypes DEF OutOfIterations, Resumes
<1>4. CASE AfterCycle
  <2>1. past' \in Past /\ wait = "value"
    BY <1>4, <1>c DEF AfterCycle, Resumes
  <2>2. [loop EXCEPT !.lastSize = reply.size, !.ran = FALSE, !.wakeAt = now + loop.delay] \in Loop
    BY <1>t, <1>j DEF Loop
  <2>3. loop' \in Loop
    BY <1>4, <1>b, <2>2 DEF AfterCycle, SeeSize
  <2> QED BY <1>4, <2>1, <2>3, AwaitTypes DEF AfterCycle, Calls
<1>5. CASE NoCycleYet
  BY <1>5, <1>b, <1>c, AwaitTypes DEF NoCycleYet, SeeSize, Resumes, Calls
<1>6. CASE AfterRecheck
  BY <1>6, <1>a, <1>j, <1>t, AwaitTypes, LeaveTypes DEF AfterRecheck, Resumes, Sleep
<1>7. CASE AfterPending
  <2>1. wait # "waiting"
    BY <1>7 DEF AfterPending, Resumes
  <2>2. CASE Sleep(Longest(loop.delay, IdleWait)) /\ UNCHANGED past
    BY <2>1, <2>2, <1>a, <1>l, <1>t, AwaitTypes DEF Sleep
  <2>3. CASE Leave("TIMEOUT")
    BY <2>1, <2>3, LeaveTypes DEF Stops
  <2>4. ASSUME NEW end \in reply.cooling, end > now, Sleep(Longest(loop.delay, end - now)),
               past' = [past EXCEPT !.cooling = past.cooling \cup {end}]
        PROVE  TypeInv'
    <3>1. end \in Nat
      BY <1>t
    <3>2. end - now \in Nat
      BY <3>1, <2>4, <1>t
    <3>3. Longest(loop.delay, end - now) \in Nat
      BY <3>2, <1>t DEF Longest
    <3>4. now + Longest(loop.delay, end - now) \in Nat
      BY <3>3, <1>t
    <3>5. loop' \in Loop
      BY <2>4, <3>4, <1>a DEF Sleep
    <3>6. past.cooling \cup {end} \in SUBSET Nat
      BY <3>1, <1>t
    <3>7. past' \in Past
      BY <2>4, <3>6, <1>t DEF Past
    <3> QED BY <2>1, <2>4, <3>5, <3>7, AwaitTypes DEF Sleep
  <2> QED BY <1>7, <2>2, <2>3, <2>4 DEF AfterPending
<1>8. CASE AfterConnection
  <2>1. wait # "waiting"
    BY <1>8 DEF AfterConnection, Resumes
  <2>2. CASE Sleep(Longest(loop.delay, IdleWait)) /\ UNCHANGED past
    BY <2>1, <2>2, <1>a, <1>l, <1>t, AwaitTypes DEF Sleep
  <2>3. CASE reply.online /\ Await("flush")
    <3>1. loop' \in Loop
      <4>1. loop' = [loop EXCEPT !.iterations = loop.iterations + 1, !.ran = TRUE]
        BY <1>8, <2>3 DEF AfterConnection
      <4>2. loop.iterations + 1 \in Nat
        BY <1>t
      <4> QED BY <4>1, <4>2, <1>t DEF Loop
    <3>2. [past EXCEPT !.flushAt = now, !.flushed = TRUE, !.progress = FALSE, !.cooling = {}] \in Past
      BY <1>t DEF Past
    <3>3. past' \in Past
      BY <1>8, <2>3, <3>2, <1>t DEF AfterConnection
    <3> QED BY <2>1, <2>3, <3>1, <3>3, AwaitTypes DEF Calls
  <2> QED BY <1>8, <2>2, <2>3 DEF AfterConnection
<1>9. CASE AfterFlushOrSleep
  BY <1>9, <1>t, AwaitTypes DEF AfterFlushOrSleep, Resumes, Calls
<1>10. CASE Stopped
  BY <1>10, LeaveTypes DEF Stopped, Stops
<1> QED BY <1>1, <1>2, <1>3, <1>4, <1>5, <1>6, <1>7, <1>8, <1>9, <1>10 DEF LoopStep

\* A step of the native engine, of the clock, or of a stop.
LEMMA NativeTypes ==
  ASSUME TypeInv, StartDrain \/ CancelActiveDrain \/ TimerStep \/ NativeStep \/ Tick
  PROVE  TypeInv'
<1> USE TypeParts
<1>t. NativeTyped /\ LoopTyped /\ DataTyped
  OBVIOUS
<1>n. now \in Nat /\ MaxTime \in Nat
  BY DrainAssumption DEF NativeTyped
<1>r. rows \in [Item -> Row]
  BY DEF NativeTyped
<1>q. ASSUME UNCHANGED now, UNCHANGED syncing, UNCHANGED cycle, UNCHANGED claimed, rows' \in [Item -> Row]
      PROVE  NativeTyped'
  BY <1>q, <1>t DEF NativeTyped
<1>l. UNCHANGED <<answers, cancelled, at, wait>> => LoopTyped'
  BY <1>t DEF LoopTyped, AnswersFlush
<1>d. UNCHANGED <<reply, loop, past>> => DataTyped'
  BY <1>t DEF DataTyped
<1>e. ASSUME NEW b \in BOOLEAN, past' = [past EXCEPT !.empty = b], UNCHANGED <<reply, loop>> PROVE DataTyped'
  BY <1>e, <1>t DEF DataTyped, Past
<1>1. CASE StartDrain
  <2>1. PICK t \in Timeouts, m \in MaxIterations, d \in Delays :
          /\ loop' = [NoLoop EXCEPT !.deadline = now + t, !.max = m, !.delay = d]
          /\ at' = "isSyncing"
          /\ wait' = IF t = 0 THEN "TIMEOUT" ELSE "waiting"
    BY <1>1 DEF StartDrain
  <2>2. now + t \in Nat /\ m \in Nat /\ d \in Nat
    BY <1>n, DrainAssumption
  <2>3. loop' \in Loop
    BY <2>1, <2>2 DEF Loop, NoLoop
  <2>4. past' \in Past
    BY <1>1 DEF StartDrain, Past, NoPast, EmptyAndIdle
  <2>5. DataTyped'
    BY <1>1, <2>3, <2>4, StartValues DEF StartDrain, DataTyped
  <2>6. NativeTyped'
    BY <1>1, <1>q, <1>r DEF StartDrain, nativeVars
  <2>7. LoopTyped'
    <3>1. answers' = FALSE /\ cancelled' = FALSE
      BY <1>1, <1>t DEF StartDrain, nativeVars, LoopTyped, AnswersFlush
    <3> QED BY <2>1, <3>1 DEF LoopTyped, AnswersFlush, Calls, Stops
  <2> QED BY <2>5, <2>6, <2>7
<1>2. CASE CancelActiveDrain
  <2>1. NativeTyped' /\ DataTyped'
    BY <1>2, <1>q, <1>r, <1>d DEF CancelActiveDrain
  <2>2. LoopTyped'
    BY <1>2, <1>t DEF CancelActiveDrain, LoopTyped, AnswersFlush, Stops
  <2> QED BY <2>1, <2>2
<1>3. CASE DeadlinePasses \/ CallFails
  <2>1. NativeTyped' /\ DataTyped'
    BY <1>3, <1>q, <1>r, <1>d DEF DeadlinePasses, CallFails
  <2>2. wait' \in {"TIMEOUT", "ERROR"} /\ answers' = FALSE /\ UNCHANGED <<at, cancelled>> /\ at # "off"
    BY <1>3, <1>t DEF DeadlinePasses, CallFails, Calls, LoopTyped
  <2>3. LoopTyped'
    BY <2>2, <1>t DEF LoopTyped, AnswersFlush, Stops
  <2> QED BY <2>1, <2>3
<1>4. CASE SleepEnds \/ FlushSkips
  <2>1. NativeTyped' /\ DataTyped'
    BY <1>4, <1>q, <1>r, <1>d DEF SleepEnds, FlushSkips, nativeVars
  <2>2. wait' = "value" /\ UNCHANGED <<at, cancelled, answers>> /\ at # "off" /\ ~answers
    BY <1>4, <1>t DEF SleepEnds, FlushSkips, nativeVars, LoopTyped, AnswersFlush
  <2>3. LoopTyped'
    BY <2>2, <1>t DEF LoopTyped, AnswersFlush, Stops
  <2> QED BY <2>1, <2>3
<1>5. CASE Answer
  <2>1. PICK up \in BOOLEAN :
          reply' = CASE at = "isSyncing"  -> [NoReply EXCEPT !.syncing = syncing]
                     [] at = "recheck"    -> [NoReply EXCEPT !.syncing = syncing, !.held = claimed]
                     [] at = "size"       -> [NoReply EXCEPT !.size = Cardinality(Pending(rows))]
                     [] at = "pending"    -> [NoReply EXCEPT !.cooling = Cooling]
                     [] at = "connection" -> [NoReply EXCEPT !.online = up]
    BY <1>5 DEF Answer
  <2>2. /\ [NoReply EXCEPT !.syncing = syncing] \in Reply
        /\ [NoReply EXCEPT !.syncing = syncing, !.held = claimed] \in Reply
        /\ [NoReply EXCEPT !.online = up] \in Reply
    BY <1>t DEF NoReply, Reply, NativeTyped
  <2>3. /\ [NoReply EXCEPT !.size = Cardinality(Pending(rows))] \in Reply
        /\ [NoReply EXCEPT !.cooling = Cooling] \in Reply
    BY <1>r, AnswerTypes DEF NoReply, Reply
  <2>4. at \in {"isSyncing", "size", "recheck", "pending", "connection"}
    BY <1>5 DEF Answer, Calls
  <2>5. reply' \in Reply
    BY <2>1, <2>2, <2>3, <2>4
  <2>6. DataTyped'
    BY <1>5, <2>5, <1>t DEF Answer, DataTyped
  <2>7. NativeTyped'
    BY <1>5, <1>q, <1>r DEF Answer, nativeVars
  <2>8. LoopTyped'
    <3>1. wait' = "value" /\ UNCHANGED <<at, cancelled, answers>> /\ at # "off" /\ ~answers
      BY <1>5, <2>4, <1>t DEF Answer, nativeVars, LoopTyped, AnswersFlush
    <3> QED BY <3>1, <1>t DEF LoopTyped, AnswersFlush
  <2> QED BY <2>6, <2>7, <2>8
<1>6. CASE CycleStarts
  <2>1. NativeTyped'
    BY <1>6, <1>t DEF CycleStarts, NativeTyped
  <2>2. LoopTyped'
    BY <1>6, <1>t DEF CycleStarts, loopVars, LoopTyped, AnswersFlush
  <2> QED BY <1>6, <2>1, <2>2, <1>d DEF CycleStarts, loopVars
<1>7. CASE CycleClaims
  <2>1. PICK ids \in Claims(rows, now, BatchSize) : claimed' = ids /\ rows' = MarkInFlight(rows, ids)
    BY <1>7 DEF CycleClaims
  <2>2. ids \subseteq Item
    BY <2>1 DEF Claims, Claimable, Pending
  <2>3. rows' \in [Item -> Row]
    BY <2>1, <1>r DEF MarkInFlight, Row, StoredStatus
  <2>4. NativeTyped'
    BY <1>7, <2>1, <2>2, <2>3, <1>t DEF CycleClaims, NativeTyped
  <2> QED BY <1>7, <2>4, <1>l, <1>d DEF CycleClaims, loopVars
<1>8. ASSUME NEW i \in Item, CycleSettles(i) PROVE TypeInv'
  <2>1. rows' \in [Item -> Row]
    <3>1. CASE rows' = MarkSucceeded(rows, i) \/ rows' = MarkFailed(rows, i, 0)
      BY <3>1, <1>r, TableTypes
    <3>2. ASSUME NEW d \in Cooldowns, rows' = MarkRetry(rows, i, 0, now + d) PROVE rows' \in [Item -> Row]
      <4>1. now + d \in Nat
        BY <1>n, DrainAssumption
      <4> QED BY <3>2, <4>1, <1>r, TableTypes
    <3> QED BY <1>8, <3>1, <3>2 DEF CycleSettles
  <2>2. NativeTyped'
    BY <1>8, <2>1, <1>t DEF CycleSettles, NativeTyped
  <2> QED BY <1>8, <2>2, <1>l, <1>d DEF CycleSettles, loopVars
<1>9. CASE CycleEnds
  <2>1. NativeTyped'
    BY <1>9, <1>t DEF CycleEnds, NativeTyped
  <2>2. LoopTyped'
    BY <1>9, <1>t DEF CycleEnds, LoopTyped, AnswersFlush
  <2>3. DataTyped'
    <3>1. (past.empty \/ (at # "off" /\ EmptyAndIdle(rows, FALSE))) \in BOOLEAN
      OBVIOUS
    <3> QED BY <1>9, <3>1, <1>e DEF CycleEnds
  <2> QED BY <2>1, <2>2, <2>3
<1>10. ASSUME NEW i \in Item, Enqueue(i) PROVE TypeInv'
  <2>1. rows' \in [Item -> Row]
    BY <1>10, <1>r DEF Enqueue, Insert, Row, StoredStatus
  <2> QED BY <1>10, <2>1, <1>q, <1>l, <1>d DEF Enqueue, loopVars
<1>11. ASSUME NEW i \in Item, Remove(i) PROVE TypeInv'
  <2>1. rows' \in [Item -> Row]
    BY <1>11, <1>r DEF Remove, Delete, GoneRow, Row, StoredStatus
  <2>2. (past.empty \/ (at # "off" /\ EmptyAndIdle(rows', syncing))) \in BOOLEAN
    OBVIOUS
  <2>3. DataTyped'
    BY <1>11, <2>2, <1>e DEF Remove, loopVars
  <2> QED BY <1>11, <2>1, <2>3, <1>q, <1>l DEF Remove, loopVars
<1>12. CASE Tick
  <2>1. now' \in 0..MaxTime
    BY <1>12, <1>n DEF Tick
  <2>2. NativeTyped'
    BY <1>12, <2>1, <1>t DEF Tick, nativeVars, NativeTyped
  <2> QED BY <1>12, <2>2, <1>l, <1>d DEF Tick, nativeVars, loopVars
<1> QED
  BY <1>1, <1>2, <1>3, <1>4, <1>5, <1>6, <1>7, <1>8, <1>9, <1>10, <1>11, <1>12 DEF TimerStep, NativeStep

\* Every step keeps the state well typed.
LEMMA StepTypes == TypeInv /\ [Next]_vars => TypeInv'
<1>1. TypeInv /\ UNCHANGED vars => TypeInv'
  BY TypeParts DEF vars, nativeVars, loopVars, NativeTyped, LoopTyped, DataTyped, AnswersFlush
<1> QED BY <1>1, LoopTypes, NativeTypes DEF Next

\* The types of the drain and of the engine around it, and that a drain that is not active
\* keeps no cancel request, no await and no flush that would answer it (TypeOK).
THEOREM TypeCorrect == Spec => []TypeOK
<1>1. TypeInv => TypeOK
  BY DEF TypeInv
<1> QED BY <1>1, InitTypes, StepTypes, PTL DEF Spec
-----------------------------------------------------------------------------
(***************************************************************************)
(* EMPTY rests on an answer that was given while no row was in flight.     *)
(***************************************************************************)

\* A turn of the loop calls and forgets the last answer, or leaves; EMPTY is left with only
\* after the re-read.
LEMMA LoopQuiet == TypeInv /\ QuietInv /\ LoopStep => QuietInv'
<1> SUFFICES ASSUME TypeInv, QuietInv, LoopStep PROVE QuietInv'
  OBVIOUS
<1>t. past \in Past
  BY DEF TypeInv, TypeOK
<1>1. ASSUME NEW step, Await(step), past'.ended = past.ended, past'.held = past.held PROVE QuietInv'
  <2>1. wait' # "value" /\ UNCHANGED <<syncing, cycle, claimed>>
    BY <1>1 DEF Await, RaceWithStop, nativeVars
  <2> QED BY <1>1, <2>1 DEF QuietInv, EmptyWasQuiet
<1>2. ASSUME NEW reason, reason # "EMPTY" \/ reply.held = {}, Leave(reason) PROVE QuietInv'
  <2>1. past'.ended = reason /\ past'.held = reply.held
    BY <1>2 DEF Leave, NoPast
  <2>2. wait' # "value" /\ UNCHANGED <<syncing, cycle, claimed>>
    BY <1>2 DEF Leave, nativeVars
  <2> QED BY <1>2, <2>1, <2>2 DEF QuietInv, EmptyWasQuiet
<1>3. CASE AfterIsSyncing \/ AfterFlushOrSleep
  BY <1>3, <1>1 DEF AfterIsSyncing, AfterFlushOrSleep, Sleep
<1>4. CASE SizeZero \/ NoCycleYet \/ AfterCycle
  <2>1. past'.ended = past.ended /\ past'.held = past.held
    BY <1>4, <1>t DEF SizeZero, NoCycleYet, AfterCycle, Past
  <2> QED BY <1>4, <2>1, <1>1 DEF SizeZero, NoCycleYet, AfterCycle
<1>5. CASE OutOfIterations
  BY <1>5, <1>2 DEF OutOfIterations
<1>6. CASE AfterRecheck
  <2>1. CASE Sleep(IdleWait) /\ UNCHANGED past
    BY <2>1, <1>1 DEF Sleep
  <2>2. CASE ~reply.syncing /\ Leave("EMPTY")
    <3>1. reply.held = {}
      BY <1>6, <2>2 DEF AfterRecheck, Resumes, QuietInv
    <3> QED BY <2>2, <3>1, <1>2
  <2> QED BY <1>6, <2>1, <2>2 DEF AfterRecheck
<1>7. CASE AfterPending
  <2>1. CASE Leave("TIMEOUT")
    BY <2>1, <1>2
  <2>2. ASSUME NEW ms, NEW s, Sleep(ms), past' = past \/ past' = [past EXCEPT !.cooling = s] PROVE QuietInv'
    <3>1. past'.ended = past.ended /\ past'.held = past.held
      BY <2>2, <1>t DEF Past
    <3> QED BY <2>2, <3>1, <1>1 DEF Sleep
  <2> QED BY <1>7, <2>1, <2>2 DEF AfterPending
<1>8. CASE AfterConnection
  <2>1. past'.ended = past.ended /\ past'.held = past.held
    BY <1>8, <1>t DEF AfterConnection, Past
  <2> QED BY <1>8, <2>1, <1>1 DEF AfterConnection, Sleep
<1>9. CASE Stopped
  BY <1>9, <1>2 DEF Stopped, Stops
<1> QED BY <1>3, <1>4, <1>5, <1>6, <1>7, <1>8, <1>9 DEF LoopStep

\* isSyncing is true from before a cycle claims until after it settled its last row, so an
\* answer that denies it was given while no row was in flight.
LEMMA NativeQuiet ==
  ASSUME TypeInv, QuietInv, StartDrain \/ CancelActiveDrain \/ TimerStep \/ NativeStep \/ Tick
  PROVE  QuietInv'
<1>t. past \in Past /\ (answers => at = "flush")
  BY DEF TypeInv, TypeOK, AnswersFlush
<1>f. ASSUME UNCHANGED <<syncing, cycle, claimed, past, reply>>,
             (at' = "recheck" /\ wait' = "value") => (at = "recheck" /\ wait = "value")
      PROVE  QuietInv'
  BY <1>f DEF QuietInv, EmptyWasQuiet
<1>1. CASE StartDrain
  <2>1. past'.ended = "none" /\ at' # "recheck" /\ UNCHANGED <<syncing, cycle, claimed>>
    BY <1>1 DEF StartDrain, NoPast, nativeVars
  <2> QED BY <2>1 DEF QuietInv, EmptyWasQuiet
<1>2. CASE CancelActiveDrain \/ DeadlinePasses \/ CallFails \/ SleepEnds \/ FlushSkips \/ Tick
  BY <1>2, <1>f DEF CancelActiveDrain, DeadlinePasses, CallFails, SleepEnds, FlushSkips, Tick, nativeVars, loopVars
<1>3. CASE Answer
  <2>1. UNCHANGED <<syncing, cycle, claimed, past, at>>
    BY <1>3 DEF Answer, nativeVars
  <2>2. at = "recheck" => reply'.syncing = syncing /\ reply'.held = claimed
    BY <1>3 DEF Answer, NoReply
  <2> QED BY <2>1, <2>2 DEF QuietInv, EmptyWasQuiet
<1>4. CASE CycleStarts
  BY <1>4 DEF CycleStarts, loopVars, QuietInv, EmptyWasQuiet
<1>5. CASE CycleClaims
  BY <1>5 DEF CycleClaims, loopVars, QuietInv, EmptyWasQuiet
<1>6. ASSUME NEW i \in Item, CycleSettles(i) PROVE QuietInv'
  BY <1>6 DEF CycleSettles, loopVars, QuietInv, EmptyWasQuiet
<1>7. CASE CycleEnds
  <2>1. past'.ended = past.ended /\ past'.held = past.held
    BY <1>7, <1>t DEF CycleEnds, Past
  <2>2. at = "recheck" => wait' = wait
    BY <1>7, <1>t DEF CycleEnds
  <2> QED BY <1>7, <2>1, <2>2 DEF CycleEnds, QuietInv, EmptyWasQuiet
<1>8. ASSUME NEW i \in Item, Enqueue(i) PROVE QuietInv'
  BY <1>8, <1>f DEF Enqueue, loopVars
<1>9. ASSUME NEW i \in Item, Remove(i) PROVE QuietInv'
  <2>1. past'.ended = past.ended /\ past'.held = past.held
    BY <1>9, <1>t DEF Remove, Past
  <2> QED BY <1>9, <2>1 DEF Remove, loopVars, QuietInv, EmptyWasQuiet
<1> QED
  BY <1>1, <1>2, <1>3, <1>4, <1>5, <1>6, <1>7, <1>8, <1>9 DEF TimerStep, NativeStep

\* EMPTY is never reported on the strength of a moment when a cycle held rows, whoever runs
\* cycles and whenever they begin and end (the second isSyncing of runDrain).
THEOREM EmptyWasQuietHolds == Spec => []EmptyWasQuiet
<1>1. Init => QuietInv
  BY DEF Init, QuietInv, EmptyWasQuiet, NoPast
<1>2. TypeInv /\ QuietInv /\ [Next]_vars => QuietInv'
  <2>1. QuietInv /\ UNCHANGED vars => QuietInv'
    BY DEF vars, nativeVars, loopVars, QuietInv, EmptyWasQuiet
  <2> QED BY <2>1, LoopQuiet, NativeQuiet DEF Next
<1>3. QuietInv => EmptyWasQuiet
  BY DEF QuietInv
<1> QED BY <1>1, <1>2, <1>3, InitTypes, StepTypes, PTL DEF Spec
-----------------------------------------------------------------------------
(***************************************************************************)
(* The loop cannot spin.                                                   *)
(***************************************************************************)

\* Numbers the arguments below calculate with.
LEMMA LoopNumbers ==
  ASSUME TypeInv
  PROVE  /\ now \in Nat /\ IdleWait \in Nat /\ loop.delay \in Nat /\ loop.wakeAt \in Nat
         /\ past.flushAt \in Nat /\ past.cooling \subseteq Nat /\ reply.cooling \subseteq Nat
         /\ loop \in Loop /\ past \in Past
<1>1. now \in Nat
  BY DrainAssumption DEF TypeInv, TypeOK
<1>2. loop \in Loop /\ past \in Past /\ reply \in Reply
  BY DEF TypeInv, TypeOK
<1> QED BY <1>1, <1>2, DrainAssumption DEF Loop, Past, Reply

\* An await that is not a sleep, in a drain that has rested or has just run a cycle.
LEMMA AwaitSpin ==
  ASSUME TypeInv, SpinInv, wait # "waiting",
         NEW step \in Calls, Await(step),
         past'.flushAt <= now,
         step = "connection" => ~loop'.ran,
         (past'.flushed /\ ~past'.progress /\ ~Rested') => loop'.ran \/ step = "pending"
  PROVE  SpinInv'
<1>1. at' = step /\ wait' # "value" /\ ~answers' /\ now' = now /\ step # "sleep"
  BY DEF Await, RaceWithStop, nativeVars, SpinInv, Calls
<1> QED BY <1>1 DEF SpinInv

\* A sleep of at least the idle wait, or until a cooldown that is still ahead.
LEMMA SleepSpin ==
  ASSUME TypeInv, SpinInv, wait # "waiting", NEW ms \in Nat, Sleep(ms),
         past'.flushAt = past.flushAt,
         ms >= IdleWait \/ \E t \in past'.cooling : t \in Nat /\ now < t /\ t <= now + ms
  PROVE  SpinInv'
<1>n. now \in Nat /\ IdleWait \in Nat /\ past.flushAt \in Nat /\ loop \in Loop
  BY LoopNumbers
<1>1. at' = "sleep" /\ wait' # "value" /\ ~answers' /\ now' = now
  BY DEF Sleep, Await, RaceWithStop, nativeVars, SpinInv
<1>2. loop'.wakeAt = now + ms
  BY <1>n DEF Sleep, Loop
<1>3. past.flushAt <= now
  BY DEF SpinInv
<1>4. RestingSleep'
  <2>1. CASE ms >= IdleWait
    <3>1. loop'.wakeAt >= past'.flushAt + IdleWait
      BY <2>1, <1>2, <1>3, <1>n
    <3> QED BY <1>1, <3>1 DEF RestingSleep
  <2>2. ASSUME NEW t \in past'.cooling, t \in Nat, now < t, t <= now + ms PROVE RestingSleep'
    <3>1. past'.flushAt < t /\ t <= loop'.wakeAt
      BY <2>2, <1>2, <1>3, <1>n
    <3> QED BY <1>1, <2>2, <3>1 DEF RestingSleep
  <2> QED BY <2>1, <2>2
<1> QED BY <1>1, <1>3, <1>4 DEF SpinInv

\* A turn of the loop goes to a flush only with progress or rest, and to everything else with
\* what it will need to know by then.
LEMMA LoopSpin == TypeInv /\ SpinInv /\ LoopStep => SpinInv'
<1> SUFFICES ASSUME TypeInv, SpinInv, LoopStep PROVE SpinInv'
  OBVIOUS
<1>n. /\ now \in Nat /\ IdleWait \in Nat /\ loop.delay \in Nat /\ loop.wakeAt \in Nat
      /\ past.flushAt \in Nat /\ past.cooling \subseteq Nat /\ reply.cooling \subseteq Nat
      /\ loop \in Loop /\ past \in Past
  BY LoopNumbers
<1>m. past.flushAt <= now
  BY DEF SpinInv
<1>l. ASSUME NEW n \in Nat PROVE Longest(n, IdleWait) \in Nat /\ Longest(n, IdleWait) >= IdleWait
  BY <1>n DEF Longest
<1>k. Longest(loop.delay, IdleWait) \in Nat /\ Longest(loop.delay, IdleWait) >= IdleWait
  BY <1>n, <1>l
<1>0. ASSUME NEW reason, Leave(reason) PROVE SpinInv'
  <2>1. past'.flushAt = 0 /\ past'.flushed = FALSE
    BY <1>0 DEF Leave, NoPast
  <2>2. at' = "off" /\ wait' = "none" /\ now' = now /\ answers' = answers
    BY <1>0 DEF Leave, nativeVars
  <2>3. ~answers
    <3>1. wait # "waiting"
      BY DEF LoopStep, AfterIsSyncing, SizeZero, OutOfIterations, AfterCycle, NoCycleYet, AfterRecheck,
           AfterPending, AfterConnection, AfterFlushOrSleep, Stopped, Stops, Resumes
    <3> QED BY <3>1 DEF SpinInv
  <2>4. past'.flushAt <= now'
    BY <2>1, <2>2, <1>n
  <2> QED BY <2>1, <2>2, <2>3, <2>4 DEF SpinInv
<1>1. CASE AfterIsSyncing
  <2>1. CASE Sleep(IdleWait)
    <3>1. past'.flushAt = past.flushAt /\ wait # "waiting" /\ IdleWait >= IdleWait
      BY <1>1, <1>n DEF AfterIsSyncing, Resumes
    <3> QED BY <2>1, <3>1, <1>n, SleepSpin
  <2>2. CASE Await("size") /\ UNCHANGED loop
    <3>1. UNCHANGED <<past, now>> /\ wait # "waiting" /\ at = "isSyncing"
      BY <1>1, <2>2 DEF AfterIsSyncing, Resumes, Await
    <3>2. (past'.flushed /\ ~past'.progress /\ ~Rested') => loop'.ran
      BY <2>2, <3>1 DEF SpinInv, Rested, RestingSleep
    <3> QED BY <2>2, <3>1, <3>2, <1>m, AwaitSpin DEF Calls
  <2> QED BY <1>1, <2>1, <2>2 DEF AfterIsSyncing
<1>2. ASSUME at = "size", wait = "value", now' = now, past' = [past EXCEPT !.progress = past.progress \/ Removed]
      PROVE  /\ past'.flushAt <= now
             /\ (past'.flushed /\ ~past'.progress /\ ~Rested') => loop.ran /\ ~Removed
  <2>1. /\ past'.flushAt = past.flushAt /\ past'.flushed = past.flushed /\ past'.cooling = past.cooling
        /\ past'.progress = (past.progress \/ Removed)
    BY <1>2, <1>n DEF Past
  <2>2. (past.flushed /\ ~past.progress /\ ~Rested) => loop.ran
    BY <1>2 DEF SpinInv, RestingSleep
  <2>3. Rested' <=> Rested
    BY <1>2, <2>1 DEF Rested
  <2> QED BY <2>1, <2>2, <2>3, <1>m
<1>3. CASE SizeZero
  <2>1. loop'.ran = loop.ran
    BY <1>3, <1>n DEF SizeZero, SeeSize, Loop
  <2>2. Await("recheck") /\ wait # "waiting" /\ at = "size" /\ wait = "value" /\ now' = now
    BY <1>3 DEF SizeZero, Resumes, Await
  <2>3. past' = [past EXCEPT !.progress = past.progress \/ Removed]
    BY <1>3 DEF SizeZero
  <2> QED BY <2>1, <2>2, <2>3, <1>2, AwaitSpin DEF Calls
<1>4. CASE OutOfIterations
  BY <1>4, <1>0 DEF OutOfIterations
<1>5. CASE AfterCycle
  <2>1. wait # "waiting" /\ at = "size" /\ wait = "value"
    BY <1>5 DEF AfterCycle, Resumes
  <2>2. past' = [past EXCEPT !.progress = past.progress \/ Removed]
    BY <1>5 DEF AfterCycle
  <2>3. ASSUME Removed, Await("sleep") PROVE SpinInv'
    <3>1. now' = now /\ at' = "sleep" /\ wait' # "value" /\ answers' = answers
      BY <2>3 DEF Await, RaceWithStop, nativeVars
    <3>2. past'.progress \/ ~past'.flushed \/ Rested'
      BY <1>2, <2>1, <2>2, <2>3, <3>1
    <3>3. past'.flushAt <= now' /\ ~answers'
      BY <1>2, <2>1, <2>2, <3>1 DEF SpinInv
    <3> QED BY <3>1, <3>2, <3>3 DEF SpinInv
  <2>4. CASE /\ SeeSize(FALSE)
             /\ \/ Removed /\ Await("connection")
                \/ ~Removed /\ Await("pending")
    <3>1. now' = now /\ loop'.ran = FALSE
      BY <2>4, <1>n DEF Await, SeeSize, Loop
    <3>2. past'.flushAt <= now
      BY <3>1, <2>1, <2>2, <1>2
    <3>3. CASE Removed /\ Await("connection")
      BY <3>1, <3>2, <3>3, <2>1, <2>2, <1>2, AwaitSpin DEF Calls
    <3>4. CASE Await("pending")
      BY <3>1, <3>2, <3>4, <2>1, AwaitSpin DEF Calls
    <3> QED BY <2>4, <3>3, <3>4
  <2> QED BY <1>5, <2>3, <2>4 DEF AfterCycle
<1>6. CASE NoCycleYet
  <2>1. wait # "waiting" /\ at = "size" /\ wait = "value" /\ Await("connection") /\ now' = now /\ ~loop.ran
    BY <1>6 DEF NoCycleYet, Resumes, Await
  <2>2. past' = [past EXCEPT !.progress = past.progress \/ Removed]
    BY <1>6 DEF NoCycleYet
  <2>3. loop'.ran = FALSE
    BY <1>6, <1>n DEF NoCycleYet, SeeSize, Loop
  <2> QED BY <2>1, <2>2, <2>3, <1>2, AwaitSpin DEF Calls
<1>7. CASE AfterRecheck
  <2>1. CASE Sleep(IdleWait) /\ UNCHANGED past
    <3>1. wait # "waiting" /\ IdleWait >= IdleWait
      BY <1>7, <1>n DEF AfterRecheck, Resumes
    <3> QED BY <2>1, <3>1, <1>n, SleepSpin
  <2> QED BY <1>7, <2>1, <1>0 DEF AfterRecheck
<1>8. CASE AfterPending
  <2>1. wait # "waiting"
    BY <1>8 DEF AfterPending, Resumes
  <2>2. CASE Sleep(Longest(loop.delay, IdleWait)) /\ UNCHANGED past
    BY <2>1, <2>2, <1>k, SleepSpin
  <2>3. ASSUME NEW end \in reply.cooling, end > now, Sleep(Longest(loop.delay, end - now)),
               past' = [past EXCEPT !.cooling = past.cooling \cup {end}]
        PROVE  SpinInv'
    <3>1. end \in Nat /\ end - now \in Nat
      BY <1>n, <2>3
    <3>2. PICK ms : ms = Longest(loop.delay, end - now)
      OBVIOUS
    <3>3. ms \in Nat /\ ms >= end - now
      BY <3>1, <3>2, <1>n DEF Longest
    <3>4. now < end /\ end <= now + ms
      BY <3>1, <3>3, <2>3, <1>n
    <3>5. past'.flushAt = past.flushAt /\ end \in past'.cooling
      BY <2>3, <1>n DEF Past
    <3> QED BY <2>1, <2>3, <3>1, <3>2, <3>3, <3>4, <3>5, SleepSpin
  <2> QED BY <1>8, <2>2, <2>3, <1>0 DEF AfterPending
<1>9. CASE AfterConnection
  <2>1. wait # "waiting"
    BY <1>9 DEF AfterConnection, Resumes
  <2>2. CASE Sleep(Longest(loop.delay, IdleWait)) /\ UNCHANGED past
    BY <2>1, <2>2, <1>k, SleepSpin
  <2>3. CASE reply.online /\ Await("flush")
    <3>1. loop' = [loop EXCEPT !.iterations = loop.iterations + 1, !.ran = TRUE]
      BY <1>9, <2>3 DEF AfterConnection
    <3>2. loop'.ran
      BY <3>1, <1>n DEF Loop
    <3>3. past'.flushAt \in {now, past.flushAt}
      BY <1>9, <2>3, <1>n DEF AfterConnection, Past
    <3>4. past'.flushAt <= now
      BY <3>3, <1>m, <1>n
    <3> QED BY <2>1, <2>3, <3>2, <3>4, AwaitSpin DEF Calls
  <2> QED BY <1>9, <2>2, <2>3 DEF AfterConnection
<1>10. CASE AfterFlushOrSleep
  <2>1. wait = "value" /\ at \in {"flush", "sleep"} /\ Await("isSyncing") /\ UNCHANGED <<loop, past, now>>
    BY <1>10 DEF AfterFlushOrSleep, Resumes, Await
  <2>2. RestingSleep => Rested
    <3>1. ASSUME at = "sleep" PROVE loop.wakeAt <= now
      BY <2>1, <3>1, <1>n DEF SpinInv
    <3> QED BY <3>1, <1>n DEF RestingSleep, Rested
  <2>3. (past'.flushed /\ ~past'.progress /\ ~Rested') => loop'.ran
    BY <2>1, <2>2 DEF SpinInv, Rested
  <2> QED BY <2>1, <2>3, <1>m, AwaitSpin DEF Calls
<1>11. CASE Stopped
  BY <1>11, <1>0 DEF Stopped
<1> QED BY <1>1, <1>3, <1>4, <1>5, <1>6, <1>7, <1>8, <1>9, <1>10, <1>11 DEF LoopStep

\* The native engine, the clock and the stops only let time pass.
LEMMA NativeSpin ==
  ASSUME TypeInv, SpinInv, StartDrain \/ CancelActiveDrain \/ TimerStep \/ NativeStep \/ Tick
  PROVE  SpinInv'
<1>n. /\ now \in Nat /\ IdleWait \in Nat /\ loop.wakeAt \in Nat /\ past.flushAt \in Nat
      /\ past.cooling \subseteq Nat /\ past \in Past
  BY LoopNumbers
<1>t. answers => at = "flush" /\ wait = "waiting"
  BY DEF SpinInv
<1>f. ASSUME UNCHANGED <<at, loop>>, now' \in {now, now + 1},
             past'.flushAt = past.flushAt, past'.flushed = past.flushed,
             past'.progress = past.progress, past'.cooling = past.cooling,
             answers' => at = "flush" /\ wait' = "waiting",
             (at = "sleep" /\ wait' = "value") => wait = "value" \/ now >= loop.wakeAt
      PROVE  SpinInv'
  <2>1. now' \in Nat /\ now <= now'
    BY <1>f, <1>n
  <2>2. past'.flushAt <= now'
    BY <1>f, <1>n, <2>1 DEF SpinInv
  <2>3. Rested => Rested'
    BY <1>f, <1>n, <2>1 DEF Rested
  <2>4. RestingSleep <=> RestingSleep'
    BY <1>f DEF RestingSleep
  <2>5. (at' = "sleep" /\ wait' = "value") => now' >= loop'.wakeAt
    BY <1>f, <1>n, <2>1 DEF SpinInv
  <2> QED BY <1>f, <2>2, <2>3, <2>4, <2>5 DEF SpinInv
<1>g. UNCHANGED past => /\ past'.flushAt = past.flushAt /\ past'.flushed = past.flushed
                        /\ past'.progress = past.progress /\ past'.cooling = past.cooling
  OBVIOUS
<1>e. ASSUME NEW b, past' = [past EXCEPT !.empty = b]
      PROVE  /\ past'.flushAt = past.flushAt /\ past'.flushed = past.flushed
             /\ past'.progress = past.progress /\ past'.cooling = past.cooling
  BY <1>e, <1>n DEF Past
<1>1. CASE StartDrain
  <2>1. past'.flushAt = 0 /\ past'.flushed = FALSE /\ at' = "isSyncing" /\ now' = now
    BY <1>1 DEF StartDrain, NoPast
  <2>2. ~answers'
    BY <1>1, <1>t DEF StartDrain, nativeVars
  <2>3. past'.flushAt <= now'
    BY <2>1, <1>n
  <2> QED BY <2>1, <2>2, <2>3 DEF SpinInv
<1>2. CASE CancelActiveDrain \/ DeadlinePasses \/ CallFails
  BY <1>2, <1>f, <1>g, <1>t DEF CancelActiveDrain, DeadlinePasses, CallFails
<1>3. CASE SleepEnds
  BY <1>3, <1>f, <1>g, <1>t DEF SleepEnds, nativeVars
<1>4. CASE Answer \/ FlushSkips
  BY <1>4, <1>f, <1>g, <1>t DEF Answer, FlushSkips, Calls, nativeVars
<1>5. CASE CycleStarts \/ CycleClaims
  BY <1>5, <1>f, <1>g, <1>t DEF CycleStarts, CycleClaims, loopVars
<1>6. ASSUME NEW i \in Item, CycleSettles(i) \/ Enqueue(i) PROVE SpinInv'
  BY <1>6, <1>f, <1>g, <1>t DEF CycleSettles, Enqueue, loopVars
<1>7. CASE CycleEnds
  <2>1. /\ past'.flushAt = past.flushAt /\ past'.flushed = past.flushed
        /\ past'.progress = past.progress /\ past'.cooling = past.cooling
    BY <1>7, <1>e DEF CycleEnds
  <2>2. at = "sleep" => wait' = wait
    BY <1>7, <1>t DEF CycleEnds
  <2> QED BY <1>7, <2>1, <2>2, <1>f DEF CycleEnds
<1>8. ASSUME NEW i \in Item, Remove(i) PROVE SpinInv'
  <2>1. /\ past'.flushAt = past.flushAt /\ past'.flushed = past.flushed
        /\ past'.progress = past.progress /\ past'.cooling = past.cooling
    BY <1>8, <1>e DEF Remove
  <2> QED BY <1>8, <2>1, <1>f, <1>t DEF Remove, loopVars
<1>9. CASE Tick
  BY <1>9, <1>f, <1>g, <1>t DEF Tick, loopVars, nativeVars
<1> QED
  BY <1>1, <1>2, <1>3, <1>4, <1>5, <1>6, <1>7, <1>8, <1>9 DEF TimerStep, NativeStep

\* Between two flushes of a drain the size was seen to fall, or the idle wait passed, or a
\* cooldown ended: no interleaving with other callers makes the loop spin (cycleJustRan,
\* waitAfterNoProgress).
THEOREM NoSpinHolds == Spec => NoSpin
<1>1. Init => SpinInv
  <2>1. Init => 0 <= now /\ NoPast.flushAt = 0 /\ NoPast.flushed = FALSE
    BY DEF Init, NoPast
  <2> QED BY <2>1 DEF Init, SpinInv
<1>2. TypeInv /\ SpinInv /\ [Next]_vars => SpinInv'
  <2>1. TypeInv /\ SpinInv /\ UNCHANGED vars => SpinInv'
    BY DEF vars, nativeVars, loopVars, SpinInv, Rested, RestingSleep
  <2> QED BY <2>1, LoopSpin, NativeSpin DEF Next
<1>3. SpinInv => (past.flushed /\ at = "connection" => past.progress \/ Rested)
  BY DEF SpinInv, RestingSleep
<1>4. SpinInv /\ [Next]_vars
        => [(past.flushed /\ past'.flushed /\ at = "connection" /\ at' = "flush" /\ wait' = "waiting")
             => past.progress \/ Rested]_vars
  BY <1>3
<1> QED BY <1>1, <1>2, <1>4, InitTypes, StepTypes, PTL DEF Spec, NoSpin
=============================================================================
