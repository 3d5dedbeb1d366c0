-------------------------- MODULE RetryWakeProofs --------------------------
(***************************************************************************)
(* Proofs about RetryWake, for any set of items and any bounds on engines, *)
(* connectivity collectors and coroutines that arm.                        *)
(***************************************************************************)
EXTENDS RetryWake, TLAPS

\* Every statement of the queue maps a table to a table.
LEMMA TableTypes ==
  ASSUME NEW q \in [Item -> Row], NEW ids, NEW id \in Item, NEW n \in Nat, NEW m \in Nat
  PROVE  /\ Insert(q, ids, n) \in [Item -> Row]
         /\ Delete(q, ids) \in [Item -> Row]
         /\ MarkRetry(q, id, n, m) \in [Item -> Row]
         /\ MarkFailed(q, id, n) \in [Item -> Row]
         /\ MarkSucceeded(q, id) \in [Item -> Row]
         /\ ResetInFlight(q) \in [Item -> Row]
         /\ MarkInFlight(q, ids) \in [Item -> Row]
<1>1. Insert(q, ids, n) \in [Item -> Row]
  BY DEF Insert, Row, StoredStatus
<1>2. \A S : Delete(q, S) \in [Item -> Row]
  BY DEF Delete, GoneRow, Row, StoredStatus
<1>3. MarkRetry(q, id, n, m) \in [Item -> Row] /\ MarkFailed(q, id, n) \in [Item -> Row]
  BY DEF MarkRetry, MarkFailed, UpdateStatus, Row, StoredStatus
<1>4. ResetInFlight(q) \in [Item -> Row]
  BY DEF ResetInFlight, Row, StoredStatus
<1>5. MarkInFlight(q, ids) \in [Item -> Row]
  BY DEF MarkInFlight, Row, StoredStatus
<1> QED BY <1>1, <1>2, <1>3, <1>4, <1>5 DEF MarkSucceeded

\* Steps that only take rows out of the queue, or put in rows that were never tried, leave
\* no more rows waiting for a retry.
LEMMA FewerRetries ==
  ASSUME NEW q \in [Item -> Row], NEW ids, NEW id \in Item, NEW n \in Nat
  PROVE  /\ RetryRows(Delete(q, ids)) \subseteq RetryRows(q)
         /\ RetryRows(MarkFailed(q, id, n)) \subseteq RetryRows(q)
         /\ RetryRows(MarkSucceeded(q, id)) \subseteq RetryRows(q)
         /\ RetryRows(MarkInFlight(q, ids)) \subseteq RetryRows(q)
         /\ RetryRows(Insert(q, ids, n)) \subseteq RetryRows(q)
<1>1. \A S : RetryRows(Delete(q, S)) \subseteq RetryRows(q)
  BY DEF RetryRows, Pending, Delete, GoneRow
<1>2. RetryRows(MarkFailed(q, id, n)) \subseteq RetryRows(q)
  BY DEF RetryRows, Pending, MarkFailed, UpdateStatus
<1>3. RetryRows(MarkInFlight(q, ids)) \subseteq RetryRows(q)
  BY DEF RetryRows, Pending, MarkInFlight, Row
<1>4. RetryRows(Insert(q, ids, n)) \subseteq RetryRows(q)
  BY DEF RetryRows, Pending, Insert
<1> QED BY <1>1, <1>2, <1>3, <1>4 DEF MarkSucceeded
-----------------------------------------------------------------------------
(***************************************************************************)
(* Type correctness.  DetachStops gives back a collector only while        *)
(* connectivityWatch is set, which the count of collectors then includes.  *)
(***************************************************************************)
WatchCounted == watchRef => watches > 0

TypeInv == TypeOK /\ WatchCounted

\* The bounds a behaviour runs under are natural numbers.
LEMMA BoundTypes ==
  ASSUME TypeOK
  PROVE  /\ bounds.engines \in Nat \ {0} /\ bounds.watches \in Nat \ {0} /\ bounds.outages \in BOOLEAN
         /\ engines \in Nat /\ watches \in Nat /\ engines <= bounds.engines /\ watches <= bounds.watches
BY WakeAssumption DEF TypeOK

\* The initial state is well typed.
LEMMA InitTypes == Init => TypeInv
<1> SUFFICES ASSUME Init PROVE TypeInv
  OBVIOUS
<1>1. bounds \in [outages : BOOLEAN, engines : Nat \ {0}, watches : Nat \ {0}, arming : Nat \ {0}]
  BY WakeAssumption DEF Init
<1>2. rows \in [Item -> Row]
  BY DEF Init, NewRow, Row, StoredStatus
<1>3. engines \in 0..bounds.engines /\ watches \in 0..bounds.watches
  BY <1>1 DEF Init
<1>4. online \in BOOLEAN /\ flow \in {"UP", "DOWN"}
  BY <1>1 DEF Init
<1>5. apc \in [Armers -> Stages]
  BY DEF Init, Stages
<1> QED BY <1>2, <1>3, <1>4, <1>5 DEF Init, TypeInv, TypeOK, WatchCounted

\* TypeInv, by the groups of variables an action leaves unchanged together.
QueueTyped  == rows \in [Item -> Row] /\ launched \in BOOLEAN /\ cycle \in {"idle", "sending", "arming"}
               /\ claimed \subseteq Item
ConfigTyped == paused \in BOOLEAN /\ config \in Configs /\ pausing \in BOOLEAN
EngineTyped == engines \in 0..bounds.engines /\ watches \in 0..bounds.watches
               /\ watchRef \in BOOLEAN /\ detaching \in BOOLEAN /\ WatchCounted
NetTyped    == bounds \in Bounds /\ online \in BOOLEAN /\ flow \in {"UP", "DOWN"}
               /\ delivered \in {"UP", "DOWN", "none"}
TimerTyped  == timer \in BOOLEAN /\ fire \in {"none", "offline", "owed"} /\ wakeOwed \in BOOLEAN
ArmTyped    == apc \in [Armers -> Stages] /\ recovery \in {"none", "queued", "running"}
               /\ overtaken \subseteq Armers /\ missed \in BOOLEAN

\* The groups together are the invariant, in this state and in the next.
LEMMA TypeParts ==
  /\ TypeInv <=> QueueTyped /\ ConfigTyped /\ EngineTyped /\ NetTyped /\ TimerTyped /\ ArmTyped
  /\ TypeInv' <=> QueueTyped' /\ ConfigTyped' /\ EngineTyped' /\ NetTyped' /\ TimerTyped' /\ ArmTyped'
BY DEF TypeInv, TypeOK, QueueTyped, ConfigTyped, EngineTyped, NetTyped, TimerTyped, ArmTyped, WatchCounted

\* A group keeps its types when its variables keep their values.
LEMMA TypeFrame ==
  ASSUME TypeInv
  PROVE  /\ UNCHANGED queueVars => QueueTyped'
         /\ UNCHANGED configVars => ConfigTyped'
         /\ UNCHANGED engineVars /\ UNCHANGED bounds => EngineTyped'
         /\ UNCHANGED netVars => NetTyped' /\ UNCHANGED bounds
         /\ UNCHANGED timerVars => TimerTyped'
         /\ UNCHANGED armVars => ArmTyped'
<1> USE TypeParts
<1>1. UNCHANGED queueVars => QueueTyped'
  BY DEF queueVars, QueueTyped
<1>2. UNCHANGED configVars => ConfigTyped'
  BY DEF configVars, ConfigTyped
<1>3. UNCHANGED engineVars /\ UNCHANGED bounds => EngineTyped'
  BY DEF engineVars, EngineTyped, WatchCounted
<1>4. UNCHANGED netVars => NetTyped' /\ UNCHANGED bounds
  BY DEF netVars, NetTyped
<1>5. UNCHANGED timerVars => TimerTyped'
  BY DEF timerVars, TimerTyped
<1>6. UNCHANGED armVars => ArmTyped'
  BY DEF armVars, ArmTyped
<1> QED BY <1>1, <1>2, <1>3, <1>4, <1>5, <1>6

\* Every step keeps the state well typed.
LEMMA StepTypes == TypeInv /\ [Next]_vars => TypeInv'
<1> SUFFICES ASSUME TypeInv, [Next]_vars
             PROVE  QueueTyped' /\ ConfigTyped' /\ EngineTyped' /\ NetTyped' /\ TimerTyped' /\ ArmTyped'
  BY TypeParts
<1>t. QueueTyped /\ ConfigTyped /\ EngineTyped /\ NetTyped /\ TimerTyped /\ ArmTyped
  BY TypeParts
<1>n. /\ bounds.engines \in Nat /\ bounds.watches \in Nat /\ engines \in Nat /\ watches \in Nat
      /\ engines <= bounds.engines /\ watches <= bounds.watches
  BY BoundTypes DEF TypeInv
<1>r. rows \in [Item -> Row] /\ overtaken \subseteq Armers /\ Stale \subseteq Armers
  BY <1>t DEF QueueTyped, ArmTyped, Stale
<1>s. ASSUME NEW a \in Armers, NEW l \in Stages, apc' = [apc EXCEPT ![a] = l] PROVE apc' \in [Armers -> Stages]
  BY <1>s, <1>t DEF ArmTyped
<1>c. Recovered \subseteq Configs
  BY <1>t DEF Recovered, ConfigTyped, Configs
<1>z. ResetInFlight(rows) \in [Item -> Row]
  BY <1>r DEF ResetInFlight, Row, StoredStatus
<1>1. CASE UNCHANGED vars
  BY <1>1, TypeFrame DEF vars, netVars
<1>2. CASE Fire \/ FireOwe \/ FireRecheck
  <2>1. QueueTyped'
    BY <1>2, <1>t DEF Fire, FireOwe, FireRecheck, Deliver, QueueTyped, queueVars
  <2>2. TimerTyped'
    BY <1>2, <1>t DEF Fire, FireOwe, FireRecheck, Deliver, TimerTyped
  <2> QED BY <1>2, <2>1, <2>2, TypeFrame DEF Fire, FireOwe, FireRecheck
<1>3. CASE NetworkDown \/ OneNetworkLost \/ NetworkUp
  <2>1. NetTyped' /\ UNCHANGED bounds
    BY <1>3, <1>t DEF NetworkDown, OneNetworkLost, NetworkUp, NetTyped
  <2>2. ArmTyped'
    BY <1>3, <1>t DEF NetworkDown, OneNetworkLost, NetworkUp, ArmTyped, armVars
  <2> QED BY <1>3, <2>1, <2>2, TypeFrame DEF NetworkDown, OneNetworkLost, NetworkUp
<1>19. CASE Collect
  <2>1. NetTyped' /\ UNCHANGED bounds
    BY <1>19, <1>t DEF Collect, NetTyped
  <2>2. QueueTyped'
    BY <1>19, <1>t DEF Collect, Deliver, QueueTyped
  <2>3. TimerTyped'
    BY <1>19, <1>t DEF Collect, Deliver, TimerTyped
  <2> QED BY <1>19, <2>1, <2>2, <2>3, TypeFrame DEF Collect
<1>4. CASE CallFlush \/ SkipCycle
  <2>1. QueueTyped'
    BY <1>4, <1>t DEF CallFlush, SkipCycle, QueueTyped
  <2> QED BY <1>4, <2>1, TypeFrame DEF CallFlush, SkipCycle
<1>5. CASE BeginCycle
  <2>1. PICK ids \in SUBSET Pending(rows) : claimed' = ids /\ rows' = MarkInFlight(rows, ids)
    BY <1>5 DEF BeginCycle
  <2>5. rows' \in [Item -> Row]
    BY <2>1, <1>r DEF MarkInFlight, Row, StoredStatus
  <2>2. QueueTyped'
    BY <1>5, <2>1, <2>5, <1>r, <1>t DEF BeginCycle, QueueTyped, Pending
  <2>3. ConfigTyped'
    BY <1>5, <1>c, <1>t DEF BeginCycle, ConfigTyped
  <2>4. ArmTyped'
    BY <1>5, <1>r, <1>t DEF BeginCycle, ArmTyped
  <2> QED BY <1>5, <2>2, <2>3, <2>4, TypeFrame DEF BeginCycle
<1>6. ASSUME NEW i \in Item, Settle(i)
      PROVE  QueueTyped' /\ ConfigTyped' /\ EngineTyped' /\ NetTyped' /\ TimerTyped' /\ ArmTyped'
  <2>1. rows' \in [Item -> Row]
    BY <1>6, <1>r, TableTypes DEF Settle
  <2>2. QueueTyped'
    BY <1>6, <1>t, <2>1 DEF Settle, QueueTyped
  <2>3. ArmTyped'
    BY <1>6, <1>r, <1>t DEF Settle, Overtake, ArmTyped
  <2> QED BY <1>6, <2>2, <2>3, TypeFrame DEF Settle
<1>7. CASE EndCycle
  <2>1. QueueTyped'
    BY <1>7, <1>t, <1>z DEF EndCycle, QueueTyped
  <2>2. apc' \in [Armers -> Stages]
    BY <1>7, <1>s DEF EndCycle, Start, Armers, Stages
  <2>3. ArmTyped'
    BY <1>7, <1>t, <1>r, <2>2 DEF EndCycle, Overtake, ArmTyped
  <2> QED BY <1>7, <2>1, <2>3, TypeFrame DEF EndCycle
<1>8. ASSUME NEW a \in Armers, ArmStep(a)
      PROVE  QueueTyped' /\ ConfigTyped' /\ EngineTyped' /\ NetTyped' /\ TimerTyped' /\ ArmTyped'
  <2> USE DEF ReadNothing, ReadWork, ReadNoEngine, ReadThrows, CancelTimer, SetTimer
  <2>1. ConfigTyped'
    <3>1. UNCHANGED configVars \/ (UNCHANGED <<paused, pausing>> /\ config' \in {config, "AUTOMATIC"})
      BY <1>8 DEF ArmStep, NotHalted
    <3> QED BY <3>1, <1>t, TypeFrame DEF ConfigTyped, Configs
  <2>2. apc' \in [Armers -> Stages]
    BY <1>8, <1>s DEF ArmStep, Decide, Return, Stages
  <2>3. overtaken' \subseteq Armers
    BY <1>8, <1>r DEF ArmStep, Decide, Return
  <2>4. recovery' \in {recovery, "queued"} /\ missed' \in BOOLEAN
    BY <1>8, <1>t DEF ArmStep, ArmTyped
  <2>5. ArmTyped'
    BY <1>t, <2>2, <2>3, <2>4 DEF ArmTyped
  <2>6. QueueTyped'
    <3>1. UNCHANGED <<rows, launched, claimed>> /\ cycle' \in {cycle, "idle"}
      BY <1>8 DEF ArmStep, Return, queueVars
    <3> QED BY <3>1, <1>t DEF QueueTyped
  <2>7. TimerTyped'
    BY <1>8, <1>t DEF ArmStep, TimerCancel, TimerTyped, timerVars
  <2> QED BY <1>8, <2>1, <2>5, <2>6, <2>7, TypeFrame DEF ArmStep
<1>9. ASSUME NEW i \in Item, Enqueue(i) \/ Remove(i)
      PROVE  QueueTyped' /\ ConfigTyped' /\ EngineTyped' /\ NetTyped' /\ TimerTyped' /\ ArmTyped'
  <2>1. rows' \in [Item -> Row]
    <3>1. Insert(rows, {i}, 0) \in [Item -> Row]
      BY <1>r DEF Insert, Row, StoredStatus
    <3>2. Delete(rows, {i}) \in [Item -> Row]
      BY <1>r DEF Delete, GoneRow, Row, StoredStatus
    <3> QED BY <1>9, <3>1, <3>2 DEF Enqueue, Remove
  <2>2. QueueTyped'
    BY <1>9, <1>t, <2>1 DEF Enqueue, Remove, QueueTyped
  <2> QED BY <1>9, <2>2, TypeFrame DEF Enqueue, Remove
<1>10. CASE Configure \/ Resume
  <2>1. apc' \in [Armers -> Stages] /\ overtaken' \subseteq Armers
    BY <1>10, <1>r, <1>s DEF Configure, Resume, Overtake, Start, Armers, Stages
  <2>2. ArmTyped'
    BY <1>10, <1>t, <2>1 DEF Configure, Resume, ArmTyped
  <2>3. ConfigTyped'
    BY <1>10, <1>t DEF Configure, Resume, ConfigTyped, Configs
  <2> QED BY <1>10, <2>2, <2>3, TypeFrame DEF Configure, Resume
<1>11. CASE Pause \/ PauseCancels
  <2>1. ConfigTyped'
    BY <1>11, <1>t DEF Pause, PauseCancels, ConfigTyped
  <2>2. ArmTyped'
    BY <1>11, <1>t, <1>r DEF Pause, PauseCancels, Overtake, ArmTyped
  <2>3. TimerTyped'
    BY <1>11, <1>t DEF Pause, PauseCancels, TimerCancel, TimerTyped, timerVars
  <2> QED BY <1>11, <2>1, <2>2, <2>3, TypeFrame DEF Pause, PauseCancels
<1>12. CASE AttachEngine
  <2>1. engines' \in 0..bounds'.engines /\ watches' \in 0..bounds'.watches /\ WatchCounted'
    BY <1>12, <1>t, <1>n DEF AttachEngine, EngineTyped, WatchCounted
  <2>2. EngineTyped'
    BY <1>12, <1>t, <2>1 DEF AttachEngine, EngineTyped
  <2>3. NetTyped'
    BY <1>12, <1>t DEF AttachEngine, NetTyped
  <2>4. ConfigTyped' /\ ArmTyped'
    BY <1>12, <1>t, <1>r DEF AttachEngine, ScheduleRecovery, Overtake, ConfigTyped, ArmTyped
  <2> QED BY <1>12, <2>2, <2>3, <2>4, TypeFrame DEF AttachEngine
<1>13. CASE DetachEngine
  <2>1. engines' \in 0..bounds'.engines /\ UNCHANGED bounds
    BY <1>13, <1>t, <1>n DEF DetachEngine, netVars
  <2>2. EngineTyped'
    BY <1>13, <1>t, <2>1 DEF DetachEngine, EngineTyped, WatchCounted
  <2>3. ArmTyped'
    BY <1>13, <1>t, <1>r DEF DetachEngine, Overtake, ArmTyped
  <2> QED BY <1>13, <2>2, <2>3, TypeFrame DEF DetachEngine
<1>14. CASE DetachStops
  <2>1. watches' \in 0..bounds'.watches /\ UNCHANGED bounds
    BY <1>14, <1>t, <1>n DEF DetachStops, EngineTyped, WatchCounted, netVars
  <2>2. EngineTyped'
    BY <1>14, <1>t, <2>1 DEF DetachStops, EngineTyped, WatchCounted
  <2>3. ArmTyped'
    BY <1>14, <1>t DEF DetachStops, ArmTyped
  <2>4. TimerTyped'
    BY <1>14, <1>t DEF DetachStops, TimerCancel, TimerTyped
  <2> QED BY <1>14, <2>2, <2>3, <2>4, TypeFrame DEF DetachStops
<1>15. CASE Boot \/ RecoveryEnds
  <2>1. ArmTyped'
    BY <1>15, <1>t DEF Boot, RecoveryEnds, ScheduleRecovery, ArmTyped
  <2> QED BY <1>15, <2>1, TypeFrame DEF Boot, RecoveryEnds
<1>16. CASE RecoveryWorker
  <2>1. apc' \in [Armers -> Stages]
    BY <1>16, <1>s DEF RecoveryWorker, Start, Armers, Stages
  <2>2. ArmTyped'
    BY <1>16, <1>t, <1>r, <2>1 DEF RecoveryWorker, Overtake, ArmTyped
  <2>3. QueueTyped'
    BY <1>16, <1>t, <1>z DEF RecoveryWorker, QueueTyped
  <2> QED BY <1>16, <2>2, <2>3, TypeFrame DEF RecoveryWorker
<1>17. CASE SyncWorker
  <2>1. QueueTyped'
    BY <1>17, <1>t, <1>z DEF SyncWorker, QueueTyped
  <2>2. ArmTyped'
    BY <1>17, <1>t, <1>r DEF SyncWorker, Overtake, ArmTyped
  <2> QED BY <1>17, <2>1, <2>2, TypeFrame DEF SyncWorker
<1>18. CASE Crash
  <2>1. apc' \in [Armers -> Stages]
    BY <1>18 DEF Crash, Stages
  <2>2. ArmTyped'
    BY <1>18, <1>t, <2>1 DEF Crash, ArmTyped
  <2>3. EngineTyped'
    <3>1. 0 \in 0..bounds.engines /\ 0 \in 0..bounds.watches
      BY <1>n
    <3>2. engines' = 0 /\ watches' = 0 /\ watchRef' = FALSE /\ detaching' = FALSE /\ bounds' = bounds
      BY <1>18 DEF Crash
    <3> QED BY <3>1, <3>2 DEF EngineTyped, WatchCounted
  <2>4. QueueTyped' /\ ConfigTyped' /\ NetTyped' /\ TimerTyped'
    BY <1>18, <1>t DEF Crash, QueueTyped, ConfigTyped, NetTyped, TimerTyped
  <2> QED BY <2>2, <2>3, <2>4
<1> QED
  BY <1>1, <1>2, <1>3, <1>4, <1>5, <1>6, <1>7, <1>8, <1>9, <1>10, <1>11, <1>12, <1>13, <1>14,
     <1>15, <1>16, <1>17, <1>18, <1>19
     DEF Next, JsStep, WorkStep, WakeStep, CycleStep

\* Types, and the collectors that DetachStops may count down (TypeOK).
THEOREM TypeCorrect == Spec => []TypeOK
<1>1. TypeInv => TypeOK
  BY DEF TypeInv
<1> QED BY <1>1, InitTypes, StepTypes, PTL DEF Spec
-----------------------------------------------------------------------------
(***************************************************************************)
(* No wake is lost.                                                        *)
(***************************************************************************)

\* A connectivity callback never leaves the flow at UP while the system reports no network.
FlowHonest == ~online => flow = "DOWN"

\* A step takes the flow down together with the network.
LEMMA StepFlow == TypeInv /\ FlowHonest /\ [Next]_vars => FlowHonest'
<1> SUFFICES ASSUME TypeInv, FlowHonest, [Next]_vars PROVE FlowHonest'
  OBVIOUS
<1>1. CASE UNCHANGED <<online, flow>>
  BY <1>1 DEF FlowHonest
<1>2. CASE NetworkDown \/ OneNetworkLost \/ NetworkUp
  BY <1>2 DEF NetworkDown, OneNetworkLost, NetworkUp, FlowHonest
<1>3. ASSUME NEW a \in Armers, ArmStep(a) PROVE UNCHANGED <<online, flow>>
  BY <1>3 DEF ArmStep, ReadNothing, ReadWork, ReadNoEngine, ReadThrows, CancelTimer, SetTimer, netVars
<1>4. ASSUME JsStep \/ WorkStep \/ Fire \/ FireOwe \/ FireRecheck \/ Collect \/ CycleStep \/ Crash
      PROVE  UNCHANGED <<online, flow>>
  BY <1>4 DEF netVars, JsStep, WorkStep, CycleStep, Fire, FireOwe, FireRecheck, Collect, Enqueue, Remove,
       CallFlush, Configure, Pause, PauseCancels, Resume, AttachEngine, DetachEngine, DetachStops, Boot,
       RecoveryWorker, RecoveryEnds, SyncWorker, SkipCycle, BeginCycle, EndCycle, Settle, Crash
<1> QED BY <1>1, <1>2, <1>3, <1>4 DEF Next, WakeStep, vars, netVars

\* The armer of a cycle works under flushMutex: it starts when the cycle has nothing left to
\* settle, and the mutex is free only after it returned.
LEMMA StepCycleArms == TypeInv /\ CycleArms /\ [Next]_vars => CycleArms'
<1> SUFFICES ASSUME TypeInv, CycleArms, [Next]_vars PROVE CycleArms'
  OBVIOUS
<1>t. apc \in [Armers -> Stages] /\ "cycle" \in Armers
  BY DEF TypeInv, TypeOK, Armers
<1>1. CASE UNCHANGED <<claimed, cycle>> /\ (apc'["cycle"] # "off" => apc["cycle"] # "off")
  BY <1>1 DEF CycleArms
<1>2. CASE BeginCycle
  BY <1>2 DEF BeginCycle, CycleArms
<1>3. ASSUME NEW i \in Item, Settle(i) PROVE CycleArms'
  BY <1>3 DEF Settle, CycleArms
<1>4. CASE EndCycle
  BY <1>4, <1>t DEF EndCycle, CycleArms
<1>5. ASSUME NEW a \in Armers, ArmStep(a) PROVE CycleArms'
  <2> USE DEF ReadNothing, ReadWork, ReadNoEngine, ReadThrows, CancelTimer, SetTimer
  <2>1. UNCHANGED claimed /\ apc[a] # "off"
    BY <1>5 DEF ArmStep, queueVars
  <2>2. CASE Return(a)
    <3>1. CASE a = "cycle"
      <4>1. apc'["cycle"] = "off" /\ cycle = "arming"
        BY <2>1, <2>2, <3>1, <1>t DEF Return, CycleArms
      <4> QED BY <4>1, <2>1 DEF CycleArms
    <3>2. CASE a # "cycle"
      <4>1. apc'["cycle"] = apc["cycle"] /\ cycle' = cycle
        BY <2>2, <3>2, <1>t DEF Return
      <4> QED BY <4>1, <2>1, <1>1
    <3> QED BY <3>1, <3>2
  <2>3. CASE UNCHANGED cycle /\ \E l \in Stages : Decide(a, l)
    <3>1. PICK l \in Stages : Decide(a, l)
      BY <2>3
    <3>2. apc'["cycle"] # "off" => apc["cycle"] # "off"
      BY <3>1, <2>1, <1>t DEF Decide
    <3> QED BY <3>2, <2>1, <2>3, <1>1
  <2> QED BY <1>5, <2>2, <2>3 DEF ArmStep, Stages, queueVars
<1>6. CASE Crash
  BY <1>6, <1>t DEF Crash, CycleArms
<1>7. CASE RecoveryWorker
  BY <1>7, <1>t, <1>1 DEF RecoveryWorker, Start
<1>8. CASE Configure \/ Resume
  BY <1>8, <1>t, <1>1 DEF Configure, Resume, Start, queueVars
<1>9. ASSUME NEW i \in Item, Enqueue(i) \/ Remove(i) PROVE CycleArms'
  BY <1>9, <1>1 DEF Enqueue, Remove, armVars
<1>10. CASE CallFlush \/ Pause \/ PauseCancels \/ AttachEngine \/ DetachEngine \/ DetachStops
            \/ Boot \/ RecoveryEnds \/ SyncWorker \/ SkipCycle
  BY <1>10, <1>1 DEF CallFlush, Pause, PauseCancels, AttachEngine, DetachEngine, DetachStops,
       Boot, RecoveryEnds, SyncWorker, SkipCycle, armVars, queueVars
<1>11. CASE Fire \/ FireOwe \/ FireRecheck \/ NetworkDown \/ OneNetworkLost \/ NetworkUp \/ Collect
  BY <1>11, <1>1 DEF Fire, FireOwe, FireRecheck, NetworkDown, OneNetworkLost, NetworkUp, Collect, armVars,
       queueVars
<1>12. CASE UNCHANGED vars
  BY <1>12, <1>1 DEF vars, queueVars, armVars
<1> QED
  BY <1>2, <1>3, <1>4, <1>5, <1>6, <1>7, <1>8, <1>9, <1>10, <1>11, <1>12
     DEF Next, JsStep, WorkStep, WakeStep, CycleStep

\* A decision to cancel stays right over a step that neither resumes nor reconfigures and
\* leaves no more rows waiting, or is marked overtaken by any other step.
LEMMA FreshFrame ==
  ASSUME FreshCancels, TypeInv,
         \A a \in Armers : apc'[a] = "cancel" => apc[a] = "cancel",
         \/ overtaken' = Stale
         \/ /\ \A a \in Armers : apc'[a] = "cancel" => (a \in overtaken => a \in overtaken')
            /\ paused => paused'
            /\ config' = config
            /\ RetryRows(rows') \subseteq RetryRows(rows)
  PROVE  FreshCancels'
<1> SUFFICES ASSUME NEW a \in Armers \ overtaken', apc'[a] = "cancel"
             PROVE  paused' \/ config' # "AUTOMATIC" \/ RetryRows(rows') = {}
  BY DEF FreshCancels
<1>1. apc[a] = "cancel"
  OBVIOUS
<1>2. overtaken' # Stale
  BY <1>1 DEF Stale
<1>3. a \notin overtaken
  BY <1>2
<1>4. paused \/ config # "AUTOMATIC" \/ RetryRows(rows) = {}
  BY <1>1, <1>3 DEF FreshCancels
<1> QED BY <1>2, <1>4

\* Whatever makes a row wait again overtakes the armers that are about to cancel.
LEMMA StepFreshCancels == TypeInv /\ FreshCancels /\ [Next]_vars => FreshCancels'
<1> SUFFICES ASSUME TypeInv, FreshCancels, [Next]_vars PROVE FreshCancels'
  OBVIOUS
<1>t. apc \in [Armers -> Stages] /\ rows \in [Item -> Row]
  BY DEF TypeInv, TypeOK
<1>s. ASSUME NEW a \in Armers, NEW l \in {"off", "read", "set"}, apc' = [apc EXCEPT ![a] = l]
      PROVE  \A b \in Armers : apc'[b] = "cancel" => apc[b] = "cancel"
  BY <1>s, <1>t
<1>1. ASSUME UNCHANGED <<apc, overtaken, paused, config, rows>> PROVE FreshCancels'
  BY <1>1, FreshFrame
<1>2. ASSUME UNCHANGED apc, overtaken' = Stale PROVE FreshCancels'
  BY <1>2, FreshFrame
<1>3. CASE BeginCycle
  <2>1. RetryRows(rows') \subseteq RetryRows(rows)
    BY <1>3, <1>t DEF BeginCycle, RetryRows, Pending, MarkInFlight
  <2>2. UNCHANGED <<paused, apc>> /\ (overtaken' = Stale \/ UNCHANGED <<overtaken, config>>)
    BY <1>3 DEF BeginCycle
  <2> QED BY <2>1, <2>2, FreshFrame
<1>4. ASSUME NEW i \in Item, Settle(i) PROVE FreshCancels'
  <2>1. UNCHANGED <<apc, paused, config>>
    BY <1>4 DEF Settle, configVars
  <2>2. CASE overtaken' = Stale
    BY <2>1, <2>2, FreshFrame
  <2>3. CASE /\ rows' = MarkSucceeded(rows, i) \/ rows' = MarkFailed(rows, i, 0)
             /\ UNCHANGED overtaken
    <3>1. RetryRows(rows') \subseteq RetryRows(rows)
      BY <1>t, <2>3, FewerRetries
    <3> QED BY <2>1, <2>3, <3>1, FreshFrame
  <2> QED BY <1>4, <2>2, <2>3 DEF Settle, Overtake
<1>5. CASE EndCycle
  <2>1. \A b \in Armers : apc'[b] = "cancel" => apc[b] = "cancel"
    BY <1>5, <1>s DEF EndCycle, Start, Armers
  <2>2. UNCHANGED <<paused, config>> /\ (overtaken' = Stale \/ UNCHANGED <<overtaken, rows>>)
    BY <1>5 DEF EndCycle, Overtake, configVars
  <2> QED BY <2>1, <2>2, FreshFrame
<1>6. ASSUME NEW a \in Armers, ArmStep(a) PROVE FreshCancels'
  <2> USE DEF ReadNothing, ReadWork, ReadNoEngine, ReadThrows, CancelTimer, SetTimer
  <2>1. UNCHANGED <<rows, paused>>
    BY <1>6 DEF ArmStep, queueVars, configVars
  <2>2. CASE ReadNothing(a)
    <3>1. SUFFICES ASSUME NEW b \in Armers \ overtaken', apc'[b] = "cancel"
                   PROVE  paused' \/ config' # "AUTOMATIC" \/ RetryRows(rows') = {}
      BY DEF FreshCancels
    <3>2. CASE b = a
      <4>1. paused \/ config' # "AUTOMATIC" \/ ~Wakes(a)
        BY <2>2
      <4>2. ~Wakes(a) => RetryRows(rows) = {}
        BY DEF Wakes, RetryRows
      <4> QED BY <2>1, <4>1, <4>2
    <3>3. CASE b # a
      <4>1. apc[b] = "cancel"
        BY <2>2, <3>1, <3>3, <1>t DEF Decide
      <4>2. overtaken' # Stale
        BY <4>1, <3>1 DEF Stale
      <4>3. UNCHANGED <<config, overtaken>>
        BY <2>2, <4>2 DEF Decide
      <4>4. b \notin overtaken
        BY <4>3, <3>1
      <4> QED BY <2>1, <4>1, <4>3, <4>4 DEF FreshCancels
    <3> QED BY <3>2, <3>3
  <2>3. CASE ReadWork(a)
    <3>1. \A b \in Armers : apc'[b] = "cancel" => apc[b] = "cancel"
      BY <2>3, <1>s DEF Decide
    <3>2. overtaken' = Stale \/ UNCHANGED <<overtaken, config>>
      BY <2>3 DEF Decide
    <3> QED BY <2>1, <3>1, <3>2, FreshFrame
  <2>4. CASE Return(a)
    <3>1. \A b \in Armers : apc'[b] = "cancel" => apc[b] = "cancel" /\ b # a
      BY <2>4, <1>t DEF Return
    <3>2. SUFFICES ASSUME NEW b \in Armers \ overtaken', apc'[b] = "cancel"
                   PROVE  paused' \/ config' # "AUTOMATIC" \/ RetryRows(rows') = {}
      BY DEF FreshCancels
    <3>3. apc[b] = "cancel" /\ b # a
      BY <3>1, <3>2
    <3>4. UNCHANGED config /\ b \notin overtaken
      BY <2>4, <3>2, <3>3 DEF Return, Stale
    <3> QED BY <2>1, <3>3, <3>4 DEF FreshCancels
  <2> QED BY <1>6, <2>2, <2>3, <2>4 DEF ArmStep
<1>7. ASSUME NEW i \in Item, Enqueue(i) \/ Remove(i) PROVE FreshCancels'
  <2>1. RetryRows(rows') \subseteq RetryRows(rows)
    <3>1. RetryRows(Insert(rows, {i}, 0)) \subseteq RetryRows(rows)
      BY <1>t DEF RetryRows, Pending, Insert
    <3>2. RetryRows(Delete(rows, {i})) \subseteq RetryRows(rows)
      BY <1>t DEF RetryRows, Pending, Delete, GoneRow
    <3> QED BY <1>7, <3>1, <3>2 DEF Enqueue, Remove
  <2> QED BY <1>7, <2>1, FreshFrame DEF Enqueue, Remove, armVars, configVars
<1>8. CASE Configure \/ Resume
  <2>1. \A b \in Armers : apc'[b] = "cancel" => apc[b] = "cancel"
    BY <1>8, <1>s DEF Configure, Resume, Start, Armers
  <2> QED BY <1>8, <2>1, FreshFrame DEF Configure, Resume, Overtake
<1>9. CASE Pause \/ AttachEngine \/ DetachEngine
  BY <1>9, <1>2 DEF Pause, AttachEngine, DetachEngine, Overtake
<1>10. CASE SyncWorker
  BY <1>10, <1>1, <1>2 DEF SyncWorker, Overtake, configVars
<1>11. CASE RecoveryWorker
  <2>1. \A b \in Armers : apc'[b] = "cancel" => apc[b] = "cancel"
    BY <1>11, <1>s DEF RecoveryWorker, Start, Armers
  <2> QED BY <1>11, <2>1, FreshFrame DEF RecoveryWorker, Overtake
<1>12. CASE Crash
  BY <1>12 DEF Crash, FreshCancels
<1>13. CASE CallFlush \/ PauseCancels \/ DetachStops \/ Boot \/ RecoveryEnds \/ SkipCycle
  BY <1>13, <1>1 DEF CallFlush, PauseCancels, DetachStops, Boot, RecoveryEnds, SkipCycle,
       armVars, queueVars, configVars
<1>14. CASE Fire \/ FireOwe \/ FireRecheck \/ NetworkDown \/ OneNetworkLost \/ NetworkUp \/ Collect
  BY <1>14, <1>1 DEF Fire, FireOwe, FireRecheck, NetworkDown, OneNetworkLost, NetworkUp, Collect, armVars,
       queueVars, configVars
<1>15. CASE UNCHANGED vars
  BY <1>15, <1>1 DEF vars, queueVars, armVars, configVars
<1> QED
  BY <1>3, <1>4, <1>5, <1>6, <1>7, <1>8, <1>9, <1>10, <1>11, <1>12, <1>13, <1>14, <1>15
     DEF Next, JsStep, WorkStep, WakeStep, CycleStep

\* Kept: a retry that waits has a wake on its way, unless the last arm went wrong.
Kept == Waiting /\ ~missed => Promised

\* A step that gives no retry a reason to wait keeps the promise where it keeps its ways.
LEMMA KeptFrame ==
  ASSUME Kept, TypeInv,
         engines' > 0 => engines > 0, UNCHANGED <<watches, paused, config>>, missed => missed',
         RetryRows(rows') \subseteq RetryRows(rows),
         Promised => Promised' \/ missed'
  PROVE  Kept'
<1> SUFFICES ASSUME Waiting', ~missed' PROVE Promised'
  BY DEF Kept
<1>1. engines > 0
  BY DEF Waiting
<1>2. Waiting
  BY <1>1 DEF Waiting
<1> QED BY <1>2 DEF Kept

\* The timer, a network that comes and goes, and the collector hand a wake on.
LEMMA TimerKept ==
  ASSUME Kept, TypeInv, FlowHonest,
         Fire \/ FireOwe \/ FireRecheck \/ NetworkDown \/ OneNetworkLost \/ NetworkUp \/ Collect
  PROVE  Kept'
<1>t. missed \in BOOLEAN
  BY DEF TypeInv, TypeOK
<1>f. ASSUME UNCHANGED <<engines, watches, paused, config, rows>>, missed => missed',
             Promised => Promised' \/ missed'
      PROVE  Kept'
  BY <1>f, KeptFrame
<1>1. CASE Fire
  <2>1. Promised'
    BY <1>1 DEF Fire, Promised
  <2> QED BY <2>1 DEF Kept
<1>2. CASE FireOwe
  <2>1. Promised'
    BY <1>2 DEF FireOwe, Promised
  <2> QED BY <2>1 DEF Kept
<1>3. CASE FireRecheck
  <2>1. Promised => Promised'
    BY <1>3 DEF FireRecheck, Deliver, Promised, armVars, netVars
  <2> QED BY <1>3, <2>1, <1>f DEF FireRecheck, configVars, engineVars, armVars
<1>4. CASE NetworkDown
  <2>1. Promised => Promised'
    BY <1>4 DEF NetworkDown, Promised, armVars, queueVars, timerVars
  <2> QED BY <1>4, <2>1, <1>f DEF NetworkDown, configVars, engineVars, armVars, queueVars
<1>5. CASE OneNetworkLost
  <2>1. Promised => Promised' \/ missed'
    BY <1>5 DEF OneNetworkLost, Promised, queueVars, timerVars
  <2> QED BY <1>5, <2>1, <1>f, <1>t DEF OneNetworkLost, configVars, engineVars, queueVars
<1>6. CASE NetworkUp
  <2>1. Promised => Promised' \/ missed'
    BY <1>6 DEF NetworkUp, Promised, queueVars, timerVars
  <2> QED BY <1>6, <2>1, <1>f, <1>t DEF NetworkUp, configVars, engineVars, queueVars
<1>7. CASE Collect
  <2>1. Promised => Promised'
    BY <1>7 DEF Collect, Deliver, Promised, armVars, FlowHonest
  <2> QED BY <1>7, <2>1, <1>f DEF Collect, configVars, engineVars, armVars
<1> QED BY <1>1, <1>2, <1>3, <1>4, <1>5, <1>6, <1>7

\* An armer either sets the timer, or was right to cancel it, or its failure is noted.
LEMMA ArmerKept ==
  ASSUME Kept, TypeInv, FreshCancels, NEW a \in Armers, ArmStep(a)
  PROVE  Kept'
<1>t. apc \in [Armers -> Stages] /\ missed \in BOOLEAN
  BY DEF TypeInv, TypeOK
<1>1. CASE ReadNothing(a)
  <2>1. paused' \/ config' # "AUTOMATIC" \/ ~Wakes(a)
    BY <1>1 DEF ReadNothing
  <2>2. ~Wakes(a) => RetryRows(rows) = {}
    BY DEF Wakes, RetryRows
  <2>3. ~Waiting'
    BY <1>1, <2>1, <2>2 DEF ReadNothing, Waiting, queueVars
  <2> QED BY <2>3 DEF Kept
<1>2. CASE ReadWork(a)
  <2>1. apc'[a] = "set"
    BY <1>2, <1>t DEF ReadWork, Decide
  <2>2. Promised'
    BY <2>1 DEF Promised
  <2> QED BY <2>2 DEF Kept
<1>3. CASE ReadNoEngine(a)
  <2>1. ~(engines' > 0)
    BY <1>3 DEF ReadNoEngine, engineVars
  <2> QED BY <2>1 DEF Kept, Waiting
<1>4. CASE ReadThrows(a)
  BY <1>4 DEF ReadThrows, Kept
<1>5. CASE CancelTimer(a)
  <2>1. CASE a \in overtaken
    BY <1>5, <2>1 DEF CancelTimer, Kept
  <2>2. CASE a \notin overtaken
    <3>1. paused \/ config # "AUTOMATIC" \/ RetryRows(rows) = {}
      BY <1>5, <2>2 DEF CancelTimer, FreshCancels
    <3>2. ~Waiting'
      BY <1>5, <3>1 DEF CancelTimer, Waiting, configVars
    <3> QED BY <3>2 DEF Kept
  <2> QED BY <2>1, <2>2
<1>6. CASE SetTimer(a)
  BY <1>6 DEF SetTimer, Kept, Promised
<1> QED BY <1>1, <1>2, <1>3, <1>4, <1>5, <1>6 DEF ArmStep

\* Every other step leaves the wake on its way, makes one, or stops the retry from waiting.
LEMMA StepKept == TypeInv /\ FlowHonest /\ CycleArms /\ FreshCancels /\ Kept /\ [Next]_vars => Kept'
<1> SUFFICES ASSUME TypeInv, FlowHonest, CycleArms, FreshCancels, Kept, [Next]_vars PROVE Kept'
  OBVIOUS
<1>t. apc \in [Armers -> Stages] /\ rows \in [Item -> Row] /\ missed \in BOOLEAN
  BY DEF TypeInv, TypeOK
<1>p. ASSUME Promised' PROVE Kept'
  BY <1>p DEF Kept
<1>w. ASSUME ~Waiting' PROVE Kept'
  BY <1>w DEF Kept
<1>r. ASSUME NEW a \in Armers, apc'[a] = "read" PROVE Kept'
  BY <1>r DEF Kept, Promised
<1>1. CASE UNCHANGED vars
  <2>1. Promised => Promised'
    BY <1>1 DEF vars, Promised, queueVars, timerVars, netVars, armVars
  <2>2. UNCHANGED <<engines, watches, paused, config, rows, missed>>
    BY <1>1 DEF vars, queueVars, engineVars, configVars, armVars
  <2> QED BY <2>1, <2>2, KeptFrame
<1>2. CASE CallFlush \/ SyncWorker
  BY <1>2, <1>p DEF CallFlush, SyncWorker, Promised
<1>3. CASE SkipCycle
  <2>1. paused' \/ config' # "AUTOMATIC"
    BY <1>3 DEF SkipCycle, configVars
  <2> QED BY <2>1, <1>w DEF Waiting
<1>4. CASE BeginCycle
  BY <1>4, <1>p DEF BeginCycle, Promised
<1>5. ASSUME NEW i \in Item, Settle(i) PROVE Kept'
  BY <1>5, <1>p DEF Settle, CycleArms, Promised
<1>6. CASE EndCycle \/ Configure \/ Resume \/ RecoveryWorker
  <2>1. ASSUME NEW a \in Armers, Start(a, "read") PROVE Kept'
    BY <2>1, <1>t, <1>r DEF Start
  <2> QED BY <1>6, <2>1 DEF EndCycle, Configure, Resume, RecoveryWorker, Armers
<1>7. ASSUME NEW i \in Item, Enqueue(i) \/ Remove(i) PROVE Kept'
  <2>1. RetryRows(rows') \subseteq RetryRows(rows)
    <3>1. RetryRows(Insert(rows, {i}, 0)) \subseteq RetryRows(rows)
      BY <1>t DEF RetryRows, Pending, Insert
    <3>2. RetryRows(Delete(rows, {i})) \subseteq RetryRows(rows)
      BY <1>t DEF RetryRows, Pending, Delete, GoneRow
    <3> QED BY <1>7, <3>1, <3>2 DEF Enqueue, Remove
  <2>2. Promised => Promised'
    BY <1>7 DEF Enqueue, Remove, Promised, timerVars, netVars, armVars
  <2>3. UNCHANGED <<engines, watches, paused, config, missed>>
    BY <1>7 DEF Enqueue, Remove, engineVars, configVars, armVars
  <2> QED BY <2>1, <2>2, <2>3, KeptFrame
<1>8. CASE Pause
  BY <1>8, <1>w DEF Pause, Waiting
<1>9. CASE PauseCancels
  BY <1>9 DEF PauseCancels, Kept, Waiting
<1>10. CASE AttachEngine
  <2>1. recovery' = "queued" \/ missed'
    <3>1. recovery \in {"none", "queued", "running"}
      BY DEF TypeInv, TypeOK
    <3> QED BY <1>10, <3>1 DEF AttachEngine, ScheduleRecovery
  <2> QED BY <2>1 DEF Kept, Promised
<1>11. CASE DetachEngine
  <2>1. Promised => Promised'
    BY <1>11 DEF DetachEngine, Promised, timerVars, netVars, queueVars
  <2>2. UNCHANGED <<watches, paused, config, rows, missed>> /\ engines > 0
    BY <1>11 DEF DetachEngine, configVars, queueVars
  <2> QED BY <2>1, <2>2, KeptFrame
<1>12. CASE DetachStops
  BY <1>12 DEF DetachStops, Kept, Waiting
<1>13. CASE Boot
  BY <1>13, <1>p DEF Boot, ScheduleRecovery, Promised
<1>14. CASE RecoveryEnds
  <2>1. Promised => Promised'
    BY <1>14 DEF RecoveryEnds, Promised, timerVars, netVars, queueVars
  <2>2. UNCHANGED <<engines, watches, paused, config, rows, missed>>
    BY <1>14 DEF RecoveryEnds, engineVars, configVars, queueVars
  <2> QED BY <2>1, <2>2, KeptFrame
<1>15. CASE Crash
  BY <1>15, <1>w DEF Crash, Waiting
<1> QED
  BY <1>1, <1>2, <1>3, <1>4, <1>5, <1>6, <1>7, <1>8, <1>9, <1>10, <1>11, <1>12, <1>13, <1>14, <1>15,
     TimerKept, ArmerKept DEF Next, JsStep, WorkStep, WakeStep, CycleStep

\* A wake that is on its way in a quiet system is the timer, or owed to a network that is down.
LEMMA WakeInvSuffices == TypeInv /\ WakeInv => WakeKept
<1> SUFFICES ASSUME TypeInv, WakeInv, Quiet, Waiting, ~missed PROVE Woken
  BY DEF WakeKept
<1>1. Promised
  BY DEF WakeInv
<1>2. \A a \in Armers : apc[a] = "off"
  BY DEF Quiet, Arming
<1>3. fire = "none" /\ ~launched /\ cycle = "idle" /\ recovery = "none" /\ delivered = flow
  BY DEF Quiet
<1> QED BY <1>1, <1>2, <1>3 DEF Promised, Woken

\* A retry that waits is always going to be woken, whatever the interleaving of the four
\* armers, the timer, the network, pause, reload and crash - the exceptions of WakeKept aside
\* (RetryWake.arm, RetryTimer.onFire, SyncDispatcher's onCycleFinished).
THEOREM WakeKeptHolds == Spec => []WakeKept
<1>1. Init => WakeInv
  <2>1. Init => FreshCancels /\ CycleArms
    BY DEF Init, FreshCancels, CycleArms, Armers
  <2>2. Init => ~Waiting
    BY DEF Init, Waiting
  <2>3. Init => (~online => flow = "DOWN") /\ (watchRef => watches > 0)
    BY DEF Init
  <2> QED BY <2>1, <2>2, <2>3 DEF WakeInv
<1>2. TypeInv /\ WakeInv /\ [Next]_vars => WakeInv'
  <2> SUFFICES ASSUME TypeInv, WakeInv, [Next]_vars PROVE WakeInv'
    OBVIOUS
  <2>1. FlowHonest /\ CycleArms /\ FreshCancels /\ Kept
    BY DEF WakeInv, FlowHonest, Kept
  <2>2. FlowHonest' /\ CycleArms' /\ FreshCancels' /\ Kept'
    BY <2>1, StepFlow, StepCycleArms, StepFreshCancels, StepKept
  <2>3. WatchCounted'
    BY StepTypes DEF TypeInv
  <2> QED BY <2>2, <2>3 DEF WakeInv, FlowHonest, Kept, WatchCounted
<1> QED BY <1>1, <1>2, InitTypes, StepTypes, WakeInvSuffices, PTL DEF Spec
=============================================================================
