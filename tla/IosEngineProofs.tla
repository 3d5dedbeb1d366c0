--------------------------- MODULE IosEngineProofs ---------------------------
(***************************************************************************)
(* Theorems of IosEngine.  The dispatcher's theorems carry over to the     *)
(* engine: whatever the engine does, the dispatcher sees one of its own    *)
(* steps, or a query of the engine that throws.                            *)
(***************************************************************************)
EXTENDS IosEngine, IosDispatcherProofs

\* A statement the dispatcher did not ask for fails, as the query of the timer may.
Elsewhere ==
  /\ faults' \in Nat
  /\ UNCHANGED <<rows, now, config, paused, startup, running, pc, cyc, ledger>>

\* What the dispatcher sees of a step of the engine (SyncEngine calls SyncDispatcher).
LEMMA DispatcherSees ==
  ASSUME TypeOK, [EngineNext]_<<vars, engineVars>>
  PROVE  [Next]_vars \/ Elsewhere
<1>1. ASSUME NEW c \in Caller, CallFlush(c) \/ EngineCycle(c) \/ FinishAndRearm(c) \/ ReturnRearmed(c)
      PROVE  Next
  BY <1>1 DEF CallFlush, EngineCycle, FinishAndRearm, ReturnRearmed, Next
<1>2. ASSUME NEW a \in Armers, RearmStep(a) PROVE UNCHANGED vars \/ Elsewhere
  <2>1. CASE RearmThrows(a)
    <3>1. faults' \in Nat
      BY <2>1 DEF RearmThrows, Fault, TypeOK
    <3> QED BY <2>1, <3>1 DEF RearmThrows, Elsewhere
  <2>2. CASE RearmBegin(a) \/ RearmRead(a) \/ RearmAct(a)
    BY <2>2 DEF RearmBegin, RearmRead, RearmAct
  <2> QED BY <1>2, <2>1, <2>2 DEF RearmStep
<1>3. ASSUME NEW c \in Caller, WakeFlush(c) PROVE Next
  BY <1>3 DEF WakeFlush, Next
<1>4. CASE TimerFires \/ WakeCheck \/ WakeOffline \/ WakeSkipped \/ PathUpdate \/ ConnectivityChanged
  BY <1>4 DEF TimerFires, WakeCheck, WakeOffline, WakeSkipped, PathUpdate, ConnectivityChanged
<1>5. CASE DetachHybrid \/ DetachDisarms \/ PauseDisarms \/ Configure
  BY <1>5 DEF DetachHybrid, DetachDisarms, PauseDisarms, Configure
<1>6. ASSUME AttachHybrid \/ Pause \/ Resume PROVE Next
  BY <1>6 DEF AttachHybrid, Pause, Resume, Next
<1>7. ASSUME ConfigureDispatcher \/ QueueCall \/ EngineRecover \/ EngineKill \/ EngineTick PROVE Next
  BY <1>7 DEF ConfigureDispatcher, QueueCall, EngineRecover, EngineKill, EngineTick, Next
<1>8. CASE UNCHANGED <<vars, engineVars>>
  BY <1>8
<1> QED BY <1>1, <1>2, <1>3, <1>4, <1>5, <1>6, <1>7, <1>8 DEF EngineNext, WakeStep, JsStep

\* What the dispatcher keeps, the engine keeps.
LEMMA EngineSafe == EngineSpec => []SafeInv
<1>1. EngineInit => SafeInv
  BY InitSafe DEF EngineInit
<1>2. ASSUME SafeInv, Elsewhere PROVE SafeInv'
  <2>1. TypeOK'
    BY <1>2 DEF SafeInv, TypeOK, Elsewhere
  <2>2. IInv'
    BY <1>2 DEF SafeInv, IInv, OneCycle, Elsewhere
  <2>3. HistoryInv' /\ CycleInv'
    BY <1>2 DEF SafeInv, HistoryInv, CycleInv, CycleOf, Stored, Elsewhere
  <2>4. AttemptLeft'
    BY <1>2 DEF SafeInv, AttemptLeft, Affords, BeingSent, Sending, Stored, Elsewhere
  <2>5. CredentialVerdict'
    BY <1>2 DEF SafeInv, CredentialVerdict, Stored, Elsewhere
  <2> QED BY <2>1, <2>2, <2>3, <2>4, <2>5 DEF SafeInv
<1>3. SafeInv /\ [EngineNext]_<<vars, engineVars>> => SafeInv'
  <2> SUFFICES ASSUME SafeInv, [EngineNext]_<<vars, engineVars>> PROVE SafeInv'
    OBVIOUS
  <2>1. [Next]_vars \/ Elsewhere
    BY DispatcherSees DEF SafeInv
  <2> QED BY <2>1, <1>2, StepSafe
<1> QED BY <1>1, <1>3, PTL DEF EngineSpec

\* Under the whole engine no two cycles overlap, the table counts the dispatches within a
\* budget, and a 401 is judged by the headers that were sent (SyncDispatcher as SyncEngine
\* drives it).
THEOREM EngineKeeps == EngineSpec => [](OneCycle /\ BudgetKept /\ CredentialVerdict)
<1>1. SafeInv => OneCycle /\ CredentialVerdict
  BY DEF SafeInv, IInv
<1> QED BY <1>1, SafeBudget, EngineSafe, PTL

\* Whatever starts it, a timer, the network, a background task or the app, no dispatch
\* starts before the cooldown of the item's last failure is over (fetchPending).
THEOREM EngineCooldownKept == EngineSpec => CooldownKept
<1>1. ASSUME SafeInv, SafeInv', [EngineNext]_<<vars, engineVars>>
      PROVE  [\A i \in Item : ledger'[i].tries > ledger[i].tries => now >= ledger[i].due]_vars
  <2>1. CASE [Next]_vars
    BY <2>1, <1>1, StepCooldown
  <2>2. CASE Elsewhere
    <3>1. ASSUME NEW i \in Item PROVE ~(ledger'[i].tries > ledger[i].tries)
      <4>1. ledger'[i].tries = ledger[i].tries /\ ledger[i].tries \in Nat
        BY <2>2, <1>1 DEF Elsewhere, SafeInv, TypeOK, Entry
      <4> QED BY <4>1
    <3> QED BY <3>1
  <2> QED BY <2>1, <2>2, <1>1, DispatcherSees DEF SafeInv
<1>2. SafeInv /\ SafeInv' /\ [EngineNext]_<<vars, engineVars>>
        => [\A i \in Item : ledger'[i].tries > ledger[i].tries => now >= ledger[i].due]_vars
  BY <1>1
<1> QED BY <1>2, EngineSafe, PTL DEF EngineSpec, CooldownKept

\* The engine implements the at-least-once delivery queue (ImplementsDelivery).
THEOREM EngineImplementsDelivery == EngineSpec => ImplementsDelivery
<1>1. ASSUME SafeInv, SafeInv', [EngineNext]_<<vars, engineVars>>
      PROVE  [Delivery!Next]_(Delivery!dqVars)
  <2>1. CASE [Next]_vars
    BY <2>1, <1>1, StepDelivery
  <2>2. CASE Elsewhere
    <3>1. \A i \in Item : Lifecycle(i)' = Lifecycle(i) /\ Charged(i)' = Charged(i)
      BY <2>2 DEF Elsewhere, Lifecycle, Charged, BeingSent, Sending, Stored
    <3> QED BY <3>1, NothingSeen
  <2> QED BY <2>1, <2>2, <1>1, DispatcherSees DEF SafeInv
<1>2. SafeInv /\ SafeInv' /\ [EngineNext]_<<vars, engineVars>> => [Delivery!Next]_(Delivery!dqVars)
  BY <1>1
<1>3. EngineInit => Delivery!Init
  BY InitDelivery DEF EngineInit
<1> QED BY <1>2, <1>3, EngineSafe, PTL DEF EngineSpec, ImplementsDelivery, Delivery!Spec
-----------------------------------------------------------------------------
(***************************************************************************)
(* Type correctness of the engine.                                         *)
(***************************************************************************)

\* A re-arm that starts is well typed.
LEMMA StartTypes ==
  ASSUME EngineTypeOK, NEW a \in Armers, Start(a)
  PROVE  arm' \in [Armers -> Rearm]
<1>1. arm \in [Armers -> Rearm] /\ [arm[a] EXCEPT !.stage = "begin"] \in Rearm
  BY DEF EngineTypeOK, Rearm, ArmStages
<1> QED BY <1>1 DEF Start

\* So is every step of one: its ticket, the hold it takes over and the wake it found
\* (rearmRetryTimer).
LEMMA RearmTypes ==
  ASSUME EngineTypeOK, SafeInv, NEW a \in Armers, RearmStep(a)
  PROVE  /\ hold' \in Nat /\ newest' \in Armers \cup {"none"} /\ arm' \in [Armers -> Rearm]
         /\ timer' \in Nat \cup {Never} /\ awaiting' \in BOOLEAN /\ missed' \in BOOLEAN
<1>t. /\ hold \in Nat /\ newest \in Armers \cup {"none"} /\ arm \in [Armers -> Rearm]
      /\ timer \in Nat \cup {Never} /\ awaiting \in BOOLEAN /\ missed \in BOOLEAN /\ manual \in BOOLEAN
  BY DEF EngineTypeOK
<1>r. arm[a] \in Rearm /\ arm[a].until \in Nat /\ arm[a].wake \in Nat \cup {Never} /\ now \in Nat
  BY <1>t DEF Rearm, EngineTypeOK, TypeOK
<1>n. NoRearm \in Rearm
  BY DEF NoRearm, Rearm, ArmStages
<1>1. CASE RearmBegin(a)
  <2>1. NotBefore(a) \in Nat
    BY LocalTypes DEF NotBefore, EngineTypeOK
  <2>2. Larger(hold, NotBefore(a)) \in Nat
    BY <2>1, <1>t DEF Larger
  <2>3. \A b \in BOOLEAN : [stage |-> "read", can |-> b, until |-> Larger(hold, NotBefore(a)), wake |-> Never] \in Rearm
    BY <2>2 DEF Rearm, ArmStages
  <2>4. (attached > 0 /\ ~manual) \in BOOLEAN
    OBVIOUS
  <2>5. [stage |-> "read", can |-> (attached > 0 /\ ~manual), until |-> Larger(hold, NotBefore(a)), wake |-> Never]
          \in Rearm
    BY <2>3, <2>4
  <2>6. hold' \in Nat /\ newest' \in Armers /\ arm' \in [Armers -> Rearm]
    BY <1>1, <1>t, <2>2, <2>5 DEF RearmBegin
  <2> QED BY <1>1, <1>t, <2>6 DEF RearmBegin, timerVars
<1>2. CASE RearmRead(a)
  <2>1. PICK t \in IF arm[a].can /\ ~paused THEN EarliestWake(a) ELSE {Never} :
          arm' = [arm EXCEPT ![a] = [arm[a] EXCEPT !.stage = "act", !.wake = t]]
    BY <1>2 DEF RearmRead
  <2>2. t \in Nat \cup {Never}
    <3>1. \A i \in Item : rows[i].nextRetryAt \in Nat
      BY DEF EngineTypeOK, TypeOK, Row
    <3>2. WakeRows(a) \subseteq Item
      BY DEF WakeRows, Pending
    <3>3. {rows[i].nextRetryAt : i \in WakeRows(a)} \subseteq Nat
      BY <3>1, <3>2
    <3>4. EarliestWake(a) \subseteq Nat \cup {Never}
      BY <3>3 DEF EarliestWake
    <3> QED BY <2>1, <3>4
  <2>3. [arm[a] EXCEPT !.stage = "act", !.wake = t] \in Rearm
    BY <1>r, <2>2 DEF Rearm, ArmStages
  <2> QED BY <1>2, <1>t, <2>1, <2>3 DEF RearmRead, timerVars
<1>3. CASE RearmThrows(a)
  <2>1. arm' \in [Armers -> Rearm]
    BY <1>3, <1>t, <1>n DEF RearmThrows
  <2>2. missed' \in BOOLEAN
    BY <1>3 DEF RearmThrows
  <2> QED BY <1>3, <1>t, <2>1, <2>2 DEF RearmThrows, timerVars
<1>4. CASE RearmAct(a)
  <2>1. arm' \in [Armers -> Rearm]
    BY <1>4, <1>t, <1>n DEF RearmAct
  <2>2. missed' \in BOOLEAN
    BY <1>4 DEF RearmAct
  <2>3. arm[a].wake # Never => Larger(now, Larger(arm[a].wake, arm[a].until)) \in Nat
    BY <1>r DEF Larger
  <2>4. timer' \in Nat \cup {Never} /\ awaiting' \in BOOLEAN
    BY <1>4, <1>t, <2>3 DEF RearmAct
  <2> QED BY <1>4, <1>t, <2>1, <2>2, <2>4 DEF RearmAct
<1> QED BY <1>1, <1>2, <1>3, <1>4 DEF RearmStep

\* The process starts, and starts again after a death, well typed (SyncEngine.init).
LEMMA EngineInitTypes == EngineInit => EngineTypeOK
<1> SUFFICES ASSUME EngineInit PROVE EngineTypeOK
  OBVIOUS
<1>1. TypeOK
  BY InitTypes DEF EngineInit
<1>2. NoRearm \in Rearm
  BY DEF NoRearm, Rearm, ArmStages
<1>3. attached \in 0..MaxAttached
  BY IosEngineAssumption DEF EngineInit
<1>4. arm \in [Armers -> Rearm]
  BY <1>2 DEF EngineInit
<1> QED BY <1>1, <1>3, <1>4 DEF EngineInit, EngineTypeOK

\* Every step keeps the engine's own variables well typed (the bridge, the timer, the
\* monitor, configure).
LEMMA EngineStepTypes ==
  ASSUME EngineTypeOK, SafeInv, SafeInv', [EngineNext]_<<vars, engineVars>>
  PROVE  EngineTypeOK'
<1>o. TypeOK /\ TypeOK'
  BY DEF SafeInv
<1>a. attached \in 0..MaxAttached /\ MaxAttached \in Nat
  BY IosEngineAssumption DEF EngineTypeOK
<1>b. /\ detaching \in BOOLEAN /\ pausing \in BOOLEAN /\ manual \in BOOLEAN /\ configure \in BOOLEAN
      /\ awaiting \in BOOLEAN /\ online \in BOOLEAN /\ notice \in BOOLEAN /\ missed \in BOOLEAN
  BY DEF EngineTypeOK
<1>c. /\ mustHold \in Nat /\ hold \in Nat /\ newest \in Armers \cup {"none"} /\ arm \in [Armers -> Rearm]
      /\ timer \in Nat \cup {Never} /\ fire \in {"none", "check", "offline", "flush"}
  BY DEF EngineTypeOK
<1>d. "configure" \in Armers /\ "attach" \in Armers /\ "resume" \in Armers /\ Caller \subseteq Armers
  BY DEF Armers
<1>u. ASSUME UNCHANGED engineVars PROVE EngineTypeOK'
  BY <1>u, <1>o, <1>a, <1>b, <1>c
     DEF engineVars, lifeVars, optVars, armVars, timerVars, netVars, EngineTypeOK
<1>1. ASSUME NEW c \in Caller, CallFlush(c) \/ ReturnRearmed(c) PROVE EngineTypeOK'
  BY <1>1, <1>u DEF CallFlush, ReturnRearmed
<1>2. ASSUME NEW c \in Caller, EngineCycle(c) PROVE EngineTypeOK'
  <2>1. cyc'[c].held \in Nat
    BY <1>o DEF TypeOK, CycleVars
  <2>2. mustHold' \in Nat
    BY <1>2, <2>1, <1>c DEF EngineCycle
  <2> QED BY <1>2, <2>2, <1>o, <1>a, <1>b, <1>c DEF EngineCycle, lifeVars, armVars, timerVars, netVars, EngineTypeOK
<1>3. ASSUME NEW c \in Caller, FinishAndRearm(c) PROVE EngineTypeOK'
  <2>1. arm' \in [Armers -> Rearm]
    BY <1>3, <1>d, StartTypes DEF FinishAndRearm
  <2> QED BY <1>3, <2>1, <1>o, <1>a, <1>b, <1>c DEF FinishAndRearm, lifeVars, optVars, timerVars, netVars, EngineTypeOK
<1>4. ASSUME NEW a \in Armers, RearmStep(a) PROVE EngineTypeOK'
  <2>1. /\ hold' \in Nat /\ newest' \in Armers \cup {"none"} /\ arm' \in [Armers -> Rearm]
        /\ timer' \in Nat \cup {Never} /\ awaiting' \in BOOLEAN /\ missed' \in BOOLEAN
    BY <1>4, RearmTypes
  <2>2. UNCHANGED <<lifeVars, optVars, fire, netVars>>
    BY <1>4 DEF RearmStep, RearmBegin, RearmRead, RearmThrows, RearmAct, timerVars
  <2> QED BY <2>1, <2>2, <1>o, <1>a, <1>b, <1>c DEF lifeVars, optVars, netVars, EngineTypeOK
<1>5. ASSUME UNCHANGED <<lifeVars, optVars, armVars>>,
             timer' \in Nat \cup {Never}, fire' \in {"none", "check", "offline", "flush"},
             awaiting' \in BOOLEAN, online' \in BOOLEAN, notice' \in BOOLEAN, missed' \in BOOLEAN
      PROVE  EngineTypeOK'
  BY <1>5, <1>o, <1>a, <1>b, <1>c DEF lifeVars, optVars, armVars, EngineTypeOK
<1>6. CASE TimerFires \/ WakeCheck
  BY <1>6, <1>5, <1>b, <1>c DEF TimerFires, WakeCheck, netVars
<1>7. ASSUME WakeOffline \/ WakeSkipped \/ \E c \in Caller : WakeFlush(c) PROVE EngineTypeOK'
  <2>1. missed' \in BOOLEAN
    BY <1>7, <1>b DEF WakeOffline, WakeSkipped, WakeFlush
  <2> QED BY <1>7, <2>1, <1>5, <1>b, <1>c DEF WakeOffline, WakeSkipped, WakeFlush, netVars
<1>8. CASE PathUpdate
  BY <1>8, <1>5, <1>b, <1>c DEF PathUpdate, timerVars
<1>9. CASE ConnectivityChanged
  BY <1>9, <1>5, <1>b, <1>c DEF ConnectivityChanged
<1>10. ASSUME attached' \in 0..MaxAttached, detaching' \in BOOLEAN, pausing' \in BOOLEAN,
              newest' \in Armers \cup {"none"}, arm' \in [Armers -> Rearm], timer' \in Nat \cup {Never},
              awaiting' \in BOOLEAN, missed' \in BOOLEAN, UNCHANGED <<optVars, hold, fire, netVars>>
       PROVE  EngineTypeOK'
  BY <1>10, <1>o, <1>b, <1>c DEF optVars, netVars, EngineTypeOK
<1>11. CASE AttachHybrid
  <2>1. arm' \in [Armers -> Rearm]
    BY <1>11, <1>d, StartTypes DEF AttachHybrid
  <2>2. attached' \in 0..MaxAttached
    BY <1>11, <1>a DEF AttachHybrid
  <2> QED BY <1>11, <2>1, <2>2, <1>10, <1>b, <1>c DEF AttachHybrid, timerVars
<1>12. CASE DetachHybrid
  <2>1. attached' \in 0..MaxAttached
    BY <1>12, <1>a DEF DetachHybrid
  <2>2. detaching' \in BOOLEAN
    BY <1>12 DEF DetachHybrid
  <2> QED BY <1>12, <2>1, <2>2, <1>10, <1>b, <1>c DEF DetachHybrid, armVars, timerVars
<1>13. CASE DetachDisarms \/ PauseDisarms
  <2>1. missed' \in BOOLEAN
    BY <1>13, <1>b DEF DetachDisarms, PauseDisarms
  <2> QED BY <1>13, <2>1, <1>10, <1>a, <1>b, <1>c DEF DetachDisarms, PauseDisarms, Disarm
<1>14. CASE Pause
  BY <1>14, <1>10, <1>a, <1>b, <1>c DEF Pause, armVars, timerVars
<1>15. CASE Resume
  <2>1. arm' \in [Armers -> Rearm]
    BY <1>15, <1>d, StartTypes DEF Resume
  <2> QED BY <1>15, <2>1, <1>10, <1>a, <1>b, <1>c DEF Resume, lifeVars, timerVars
<1>16. CASE Configure
  BY <1>16, <1>o, <1>a, <1>b, <1>c DEF Configure, lifeVars, timerVars, netVars, EngineTypeOK
<1>17. CASE ConfigureDispatcher
  <2>1. arm' \in [Armers -> Rearm]
    BY <1>17, <1>d, StartTypes DEF ConfigureDispatcher
  <2>2. /\ hold' \in Nat /\ mustHold' \in Nat /\ configure' \in BOOLEAN
        /\ UNCHANGED <<lifeVars, manual, newest, timerVars, netVars, missed>>
    BY <1>17, <1>a, <1>b, <1>c DEF ConfigureDispatcher
  <2> QED BY <2>1, <2>2, <1>o, <1>a, <1>b, <1>c DEF lifeVars, timerVars, netVars, EngineTypeOK
<1>18. CASE QueueCall \/ EngineRecover \/ EngineTick
  BY <1>18, <1>u DEF QueueCall, EngineRecover, EngineTick
<1>19. CASE EngineKill
  <2>1. NoRearm \in Rearm
    BY DEF NoRearm, Rearm, ArmStages
  <2>2. arm' \in [Armers -> Rearm]
    BY <1>19, <2>1 DEF EngineKill, Launch
  <2>3. attached' \in 0..MaxAttached
    BY <1>19, <1>a DEF EngineKill, Launch
  <2>4. manual' \in BOOLEAN /\ mustHold' \in Nat /\ hold' \in Nat
    BY <1>19 DEF EngineKill, Launch
  <2> QED BY <1>19, <2>2, <2>3, <2>4, <1>o DEF EngineKill, Launch, EngineTypeOK
<1>20. CASE UNCHANGED <<vars, engineVars>>
  BY <1>20, <1>u
<1> QED BY <1>1, <1>2, <1>3, <1>4, <1>6, <1>7, <1>8, <1>9, <1>11, <1>12, <1>13, <1>14, <1>15, <1>16, <1>17, <1>18,
           <1>19, <1>20 DEF EngineNext, WakeStep, JsStep

\* The engine's variables have their types: no hybrid is detached that was not attached, and
\* every hold and deadline is a time (attachHybrid, detachHybrid, rearmRetryTimer).
THEOREM EngineTypeCorrect == EngineSpec => []EngineTypeOK
<1>1. EngineTypeOK /\ SafeInv /\ SafeInv' /\ [EngineNext]_<<vars, engineVars>> => EngineTypeOK'
  BY EngineStepTypes
<1> QED BY <1>1, EngineInitTypes, EngineSafe, PTL DEF EngineSpec
-----------------------------------------------------------------------------
(***************************************************************************)
(* Who still re-arms.                                                      *)
(***************************************************************************)

\* A step of a cycle stays in it, touches no other caller, and changes the hold only when an
\* answer rejects a credential (runCycle, markCredentialRejected).
LEMMA CycleMoves ==
  ASSUME TypeOK, NEW c \in Caller, CycleStep(c)
  PROVE  /\ pc[c] \in InCycle /\ pc'[c] \in InCycle /\ running' = running /\ startup' = startup
         /\ \A d \in Caller \ {c} : pc'[d] = pc[d] /\ cyc'[d] = cyc[d]
         /\ \/ cyc'[c].held = cyc[c].held
            \/ pc[c] = "wire" /\ pc'[c] = "record" /\ cyc'[c].held > 0
         /\ pc'[c] \in {"fetch", "item", "wire"} => pc[c] \in {"fetch", "item", "wire"}
<1>t. pc \in [Caller -> PC] /\ cyc \in [Caller -> CycleVars] /\ cyc[c] \in CycleVars
  BY DEF TypeOK
<1>p. \A l : Goto(c, l) => pc'[c] = l /\ \A d \in Caller \ {c} : pc'[d] = pc[d]
  BY <1>t DEF Goto
<1>c. \A r : Locals(c, r) => cyc'[c] = r /\ \A d \in Caller \ {c} : cyc'[d] = cyc[d]
  BY <1>t DEF Locals
<1>1. CASE Fetch(c)
  <2>1. PICK ids \in Claims(rows, now, BatchSize) :
          /\ Locals(c, [cyc[c] EXCEPT !.snap = [i \in Item |-> IF i \in ids THEN rows[i] ELSE NewRow],
                                      !.todo = ids])
          /\ Goto(c, IF ids = {} THEN "record" ELSE "item")
    BY <1>1 DEF Fetch
  <2>2. pc'[c] \in {"record", "item"}
    BY <2>1, <1>p
  <2>3. cyc'[c].held = cyc[c].held
    <3>1. \A f : [cyc[c] EXCEPT !.snap = f, !.todo = ids].held = cyc[c].held
      BY <1>t DEF CycleVars
    <3>2. PICK f : Locals(c, [cyc[c] EXCEPT !.snap = f, !.todo = ids])
      BY <2>1
    <3>3. cyc'[c] = [cyc[c] EXCEPT !.snap = f, !.todo = ids]
      BY <3>2, <1>c
    <3> QED BY <3>1, <3>3
  <2> QED BY <1>1, <2>1, <2>2, <2>3, <1>p, <1>c DEF Fetch, InCycle, envVars
<1>2. CASE StartItem(c)
  <2>1. PICK i : Locals(c, [cyc[c] EXCEPT !.todo = cyc[c].todo \ {i}, !.item = i, !.sentWith = config.source])
    BY <1>2 DEF StartItem
  <2>2. cyc'[c].held = cyc[c].held
    <3>1. \A t, s : [cyc[c] EXCEPT !.todo = t, !.item = i, !.sentWith = s].held = cyc[c].held
      BY <1>t DEF CycleVars
    <3>2. cyc'[c] = [cyc[c] EXCEPT !.todo = cyc[c].todo \ {i}, !.item = i, !.sentWith = config.source]
      BY <2>1, <1>c
    <3> QED BY <3>1, <3>2
  <2> QED BY <1>2, <2>1, <2>2, <1>p, <1>c DEF StartItem, InCycle, envVars
<1>3. CASE LeaveLoop(c)
  BY <1>3, <1>p DEF LeaveLoop, InCycle, envVars
<1>4. CASE Succeed(c) \/ Reschedule(c) \/ FailTerminally(c)
  BY <1>4, <1>p DEF Succeed, Reschedule, FailTerminally, Answered, InCycle, envVars
<1>5. CASE RejectCredential(c)
  <2>1. PICK wait \in HoldDelays : Locals(c, [cyc[c] EXCEPT !.held = now + wait])
    BY <1>5 DEF RejectCredential
  <2>2. wait \in Nat /\ now \in Nat \ {0}
    BY IosDispatcherAssumption DEF HoldDelays, TypeOK
  <2>3. cyc'[c].held = now + wait
    BY <2>1, <1>c, <1>t DEF CycleVars
  <2>4. cyc'[c].held > 0
    BY <2>2, <2>3
  <2>5. pc[c] = "wire" /\ pc'[c] = "record" /\ UNCHANGED <<running, startup>>
    BY <1>5, <1>p DEF RejectCredential, Answered, envVars
  <2>6. \A d \in Caller \ {c} : pc'[d] = pc[d]
    BY <1>5, <1>p DEF RejectCredential, Answered
  <2> QED BY <2>1, <2>4, <2>5, <2>6, <1>c DEF InCycle
<1>6. CASE RecordResult(c) \/ Throws(c)
  <2>1. Goto(c, "finish") /\ Locals(c, [NoCycle EXCEPT !.held = cyc[c].held])
    BY <1>6 DEF RecordResult, Throws, LeaveCycle
  <2>2. cyc'[c].held = cyc[c].held
    BY <2>1, <1>c DEF NoCycle
  <2>3. pc[c] \in InCycle /\ UNCHANGED <<running, startup>>
    BY <1>6 DEF RecordResult, Throws, InCycle, envVars
  <2> QED BY <2>1, <2>2, <2>3, <1>p, <1>c DEF InCycle
<1> QED BY <1>1, <1>2, <1>3, <1>4, <1>5, <1>6 DEF CycleStep, ItemStep

\* A re-arm starts or moves alone.
LEMMA ArmMoves ==
  ASSUME EngineTypeOK, NEW a \in Armers
  PROVE  /\ Start(a) => /\ arm[a].stage = "off" /\ arm'[a].stage = "begin"
                        /\ \A b \in Armers \ {a} : arm'[b] = arm[b]
         /\ RearmStep(a) => /\ arm[a].stage # "off" /\ \A b \in Armers \ {a} : arm'[b] = arm[b]
                            /\ arm[a].stage = "begin" => RearmBegin(a)
                            /\ UNCHANGED <<running, pc, cyc, startup, attached>>
<1>1. arm \in [Armers -> Rearm] /\ arm[a] \in Rearm
  BY DEF EngineTypeOK
<1>2. ASSUME Start(a) PROVE /\ arm[a].stage = "off" /\ arm'[a].stage = "begin"
                            /\ \A b \in Armers \ {a} : arm'[b] = arm[b]
  BY <1>1, <1>2 DEF Start, Rearm
<1>3. ASSUME RearmStep(a) PROVE arm[a].stage # "off" /\ \A b \in Armers \ {a} : arm'[b] = arm[b]
  BY <1>1, <1>3 DEF RearmStep, RearmBegin, RearmRead, RearmThrows, RearmAct
<1>4. ASSUME RearmStep(a) PROVE /\ arm[a].stage = "begin" => RearmBegin(a)
                                /\ UNCHANGED <<running, pc, cyc, startup, attached>>
  BY <1>4 DEF RearmStep, RearmBegin, RearmRead, RearmThrows, RearmAct, vars, envVars, lifeVars
<1> QED BY <1>2, <1>3, <1>4

\* The callers are callers, and the bridge's tasks are not.
LEMMA ArmersApart ==
  /\ "configure" \in Armers /\ "attach" \in Armers /\ "resume" \in Armers /\ Caller \subseteq Armers
  /\ \A c \in Caller : c # "configure" /\ c # "attach" /\ c # "resume" /\ c # "none"
  /\ "configure" # "attach" /\ "resume" # "attach" /\ "none" \notin Armers
  BY IosEngineAssumption DEF Armers

\* Nobody is under way at launch.
LEMMA InitArmers == EngineInit => ArmersInv
<1> SUFFICES ASSUME EngineInit PROVE ArmersInv
  OBVIOUS
<1>1. running = FALSE /\ attached = 0
  BY DEF EngineInit, Init
<1>2. ASSUME NEW c \in Caller
      PROVE  /\ arm[c].stage # "off" => pc[c] = "rearm"
             /\ pc[c] \in {"idle", "fetch", "item", "wire"} => cyc[c].held = 0
  <2>1. arm[c].stage = "off"
    BY ArmersApart DEF EngineInit, NoRearm
  <2>2. cyc[c].held = 0
    BY DEF EngineInit, Init, NoCycle
  <2> QED BY <2>1, <2>2
<1> QED BY <1>1, <1>2 DEF ArmersInv

\* A step that moves no cycle and only lets re-arms go on keeps it.
LEMMA ArmersFrame ==
  ASSUME ArmersInv, UNCHANGED <<running, pc, cyc>>,
         \A c \in Caller : arm'[c].stage # "off" => arm[c].stage # "off",
         startup' = "pending" /\ attached' > 0 => arm'["attach"].stage = "begin"
  PROVE  ArmersInv'
<1>1. running' => \E c \in Caller : pc'[c] \in InCycle
  BY DEF ArmersInv
<1>2. \A c \in Caller : /\ arm'[c].stage # "off" => pc'[c] = "rearm"
                        /\ pc'[c] \in {"idle", "fetch", "item", "wire"} => cyc'[c].held = 0
  BY DEF ArmersInv
<1> QED BY <1>1, <1>2 DEF ArmersInv

\* flush takes an idle caller into a cycle and touches nobody else.
LEMMA FlushMoves ==
  ASSUME TypeOK, NEW c \in Caller, Flush(c)
  PROVE  /\ pc[c] = "idle" /\ pc'[c] = "fetch" /\ pc'[c] \in InCycle
         /\ \A d \in Caller \ {c} : pc'[d] = pc[d]
         /\ UNCHANGED <<rows, now, paused, startup, cyc>> /\ ~paused
<1>1. pc \in [Caller -> PC]
  BY DEF TypeOK
<1> QED BY <1>1 DEF Flush, BeginCycle, Goto, InCycle

\* Nobody loses the re-arm at the end of a cycle, and a wake-up of an attachment waits until
\* launch recovery has run (finishCycle, attachHybrid, flush).
LEMMA StepArmers ==
  ASSUME EngineTypeOK, ArmersInv, [EngineNext]_<<vars, engineVars>>
  PROVE  ArmersInv'
<1>t. TypeOK /\ pc \in [Caller -> PC] /\ cyc \in [Caller -> CycleVars] /\ arm \in [Armers -> Rearm]
  BY DEF EngineTypeOK, TypeOK
<1>a. attached \in Nat
  BY DEF EngineTypeOK
<1>m. startup = "pending" /\ attached > 0 => arm["attach"].stage = "begin"
  BY DEF ArmersInv
<1>1. ASSUME NEW c \in Caller, CallFlush(c) \/ WakeFlush(c) PROVE ArmersInv'
  <2>1. Flush(c) /\ UNCHANGED <<arm, attached>>
    BY <1>1 DEF CallFlush, WakeFlush, engineVars, armVars, lifeVars
  <2>2. \A d \in Caller : /\ arm'[d].stage # "off" => pc'[d] = "rearm"
                          /\ pc'[d] \in {"idle", "fetch", "item", "wire"} => cyc'[d].held = 0
    BY <2>1, <1>t, FlushMoves DEF ArmersInv
  <2> QED BY <2>1, <2>2, <1>m, <1>t, FlushMoves DEF ArmersInv
<1>2. ASSUME NEW c \in Caller, EngineCycle(c) PROVE ArmersInv'
  <2>1. CycleStep(c) /\ UNCHANGED <<arm, attached>>
    BY <1>2 DEF EngineCycle, armVars, lifeVars
  <2>2. /\ arm'[c].stage # "off" => pc'[c] = "rearm"
        /\ pc'[c] \in {"idle", "fetch", "item", "wire"} => cyc'[c].held = 0
    BY <2>1, <1>t, CycleMoves DEF ArmersInv, InCycle
  <2>3. \A d \in Caller \ {c} :
          /\ arm'[d].stage # "off" => pc'[d] = "rearm"
          /\ pc'[d] \in {"idle", "fetch", "item", "wire"} => cyc'[d].held = 0
    BY <2>1, <1>t, CycleMoves DEF ArmersInv
  <2> QED BY <2>1, <2>2, <2>3, <1>m, <1>t, CycleMoves DEF ArmersInv
<1>3. ASSUME NEW c \in Caller, FinishAndRearm(c) PROVE ArmersInv'
  <2>1. pc'[c] = "rearm" /\ \A d \in Caller \ {c} : pc'[d] = pc[d] /\ arm'[d] = arm[d]
    BY <1>3, <1>t, ArmersApart, ArmMoves DEF FinishAndRearm, Finish, Goto
  <2>2. running' = FALSE /\ UNCHANGED <<cyc, startup, attached>>
    BY <1>3 DEF FinishAndRearm, Finish, envVars, lifeVars
  <2>3. arm'["attach"] = arm["attach"]
    BY <1>3, ArmersApart, ArmMoves DEF FinishAndRearm
  <2> QED BY <2>1, <2>2, <2>3, <1>m DEF ArmersInv
<1>4. ASSUME NEW c \in Caller, ReturnRearmed(c) PROVE ArmersInv'
  <2>1. /\ pc[c] = "rearm" /\ pc'[c] = "idle" /\ cyc'[c].held = 0
        /\ \A d \in Caller \ {c} : pc'[d] = pc[d] /\ cyc'[d] = cyc[d]
    BY <1>4, <1>t DEF ReturnRearmed, Return, Goto, Locals, NoCycle
  <2>2. UNCHANGED <<running, startup, attached, arm>> /\ arm[c].stage = "off"
    BY <1>4 DEF ReturnRearmed, Return, envVars, engineVars, armVars, lifeVars
  <2>3. running' => \E d \in Caller : pc'[d] \in InCycle
    BY <2>1, <2>2 DEF ArmersInv, InCycle
  <2> QED BY <2>1, <2>2, <2>3, <1>m DEF ArmersInv
<1>5. ASSUME NEW a \in Armers, RearmStep(a) PROVE ArmersInv'
  <2>1. UNCHANGED <<running, pc, cyc, startup, attached>>
    BY <1>5, ArmMoves
  <2>2. \A c \in Caller : arm'[c].stage # "off" => arm[c].stage # "off"
    BY <1>5, ArmersApart, ArmMoves
  <2>3. a = "attach" /\ arm[a].stage = "begin" => startup # "pending"
    BY <1>5, ArmMoves DEF RearmBegin
  <2>4. startup' = "pending" /\ attached' > 0 => arm'["attach"].stage = "begin"
    BY <1>5, <2>1, <2>3, <1>m, ArmersApart, ArmMoves
  <2> QED BY <2>1, <2>2, <2>4, ArmersFrame
<1>6. ASSUME UNCHANGED <<running, pc, cyc, startup, arm>>, attached' > 0 => attached > 0 PROVE ArmersInv'
  BY <1>6, <1>m, ArmersFrame
<1>7. CASE TimerFires \/ WakeCheck \/ WakeOffline \/ WakeSkipped \/ PathUpdate \/ ConnectivityChanged
  BY <1>7, <1>6 DEF TimerFires, WakeCheck, WakeOffline, WakeSkipped, PathUpdate, ConnectivityChanged,
                    vars, envVars, lifeVars, armVars
<1>8. CASE DetachHybrid
  <2>1. UNCHANGED <<running, pc, cyc, startup, arm>> /\ attached > 0
    BY <1>8 DEF DetachHybrid, vars, envVars, armVars
  <2> QED BY <2>1, <1>6
<1>9. CASE DetachDisarms \/ PauseDisarms \/ Pause \/ Configure
  BY <1>9, <1>6 DEF DetachDisarms, PauseDisarms, Pause, Configure, Disarm, SetPaused, vars, envVars, lifeVars, armVars
<1>10. CASE AttachHybrid
  <2>1. UNCHANGED <<running, pc, cyc>> /\ arm'["attach"].stage = "begin"
    BY <1>10, ArmersApart, ArmMoves DEF AttachHybrid, SetPaused
  <2>2. \A c \in Caller : arm'[c].stage # "off" => arm[c].stage # "off"
    BY <1>10, ArmersApart, ArmMoves DEF AttachHybrid
  <2> QED BY <2>1, <2>2, ArmersFrame
<1>11. ASSUME NEW a \in {"resume", "configure"}, Start(a), UNCHANGED <<running, pc, cyc, startup, attached>>
       PROVE  ArmersInv'
  <2>1. \A c \in Caller : arm'[c].stage # "off" => arm[c].stage # "off"
    BY <1>11, ArmersApart, ArmMoves
  <2>2. arm'["attach"] = arm["attach"]
    BY <1>11, ArmersApart, ArmMoves
  <2> QED BY <1>11, <2>1, <2>2, <1>m, ArmersFrame
<1>12. CASE Resume \/ ConfigureDispatcher
  BY <1>12, <1>11 DEF Resume, ConfigureDispatcher, SetPaused, UpdateConfig, lifeVars
<1>13. CASE QueueCall \/ EngineTick
  BY <1>13, <1>6 DEF QueueCall, EngineTick, Enqueue, Remove, Tick, envVars, engineVars, armVars, lifeVars
<1>14. CASE EngineRecover
  <2>1. UNCHANGED <<running, pc, cyc, arm>> /\ startup' = "done"
    BY <1>14 DEF EngineRecover, Recover, engineVars, armVars
  <2> QED BY <2>1, ArmersFrame
<1>15. CASE EngineKill
  <2>1. running' = FALSE /\ attached' = 0
    BY <1>15 DEF EngineKill, Kill, Launch
  <2>2. ASSUME NEW c \in Caller
        PROVE  /\ arm'[c].stage # "off" => pc'[c] = "rearm"
               /\ pc'[c] \in {"idle", "fetch", "item", "wire"} => cyc'[c].held = 0
    <3>1. arm'[c].stage = "off"
      BY <1>15, ArmersApart DEF EngineKill, Launch, NoRearm
    <3>2. cyc'[c].held = 0
      BY <1>15 DEF EngineKill, Kill, NoCycle
    <3> QED BY <3>1, <3>2
  <2> QED BY <2>1, <2>2 DEF ArmersInv
<1>16. CASE UNCHANGED <<vars, engineVars>>
  BY <1>16, <1>6 DEF vars, envVars, engineVars, armVars, lifeVars
<1> QED BY <1>1, <1>2, <1>3, <1>4, <1>5, <1>7, <1>8, <1>9, <1>10, <1>12, <1>13, <1>14, <1>15, <1>16
        DEF EngineNext, WakeStep, JsStep
-----------------------------------------------------------------------------
(***************************************************************************)
(* No retry that waits is forgotten.                                       *)
(***************************************************************************)

\* A retry waits after a step that touches neither the rows' cooldowns nor the pause, the
\* options or the hybrids, only if it waited before.
LEMMA StillWaiting ==
  ASSUME UNCHANGED <<rows, paused, attached, manual>>
  PROVE  Waiting' => Waiting
  BY DEF Waiting, WakeRows, Pending

\* A call of enqueue, removeItem or clear makes no row wait: a new row has no cooldown.
LEMMA QueueWaits ==
  ASSUME TypeOK, Enqueue \/ Remove, UNCHANGED <<paused, attached, manual>>
  PROVE  Waiting' => Waiting
<1>t. rows \in [Item -> Row]
  BY DEF TypeOK
<1>1. ASSUME NEW i \in Item, rows'[i].status = "PENDING", rows'[i].nextRetryAt > 0
      PROVE  rows[i].status = "PENDING" /\ rows[i].nextRetryAt > 0
  <2>1. CASE Enqueue
    <3>1. PICK ids : rows' = Insert(rows, ids, now)
      BY <2>1 DEF Enqueue
    <3>2. CASE i \in ids
      <4>1. rows'[i].nextRetryAt = 0
        BY <3>1, <3>2 DEF Insert
      <4> QED BY <4>1, <1>1
    <3>3. CASE i \notin ids
      BY <3>1, <3>3, <1>1 DEF Insert
    <3> QED BY <3>2, <3>3
  <2>2. CASE Remove
    <3>1. PICK ids : rows' = Delete(rows, ids)
      BY <2>2 DEF Remove
    <3>2. rows'[i] = GoneRow \/ rows'[i] = rows[i]
      BY <3>1 DEF Delete
    <3> QED BY <3>2, <1>1 DEF GoneRow
  <2> QED BY <2>1, <2>2, <1>1
<1>2. WakeRows("attach")' \subseteq WakeRows("attach")
  BY <1>1 DEF WakeRows, Pending
<1> QED BY <1>2 DEF Waiting

\* A step that moves no ticket keeps the wake if it gives up what was armed only for a
\* re-arm to come or for one that was missed.
LEMMA WakeFrame ==
  ASSUME WakeInv, Waiting' => Waiting, RearmDue => RearmDue', UNCHANGED <<newest, arm>>,
         missed \/ Armed => ~Waiting' \/ RearmDue' \/ missed' \/ Armed'
  PROVE  WakeInv'
<1>1. Ticketed' <=> Ticketed
  BY DEF Ticketed
<1>2. WillArm(newest) => WillArm(newest)'
  BY DEF WillArm
<1> QED BY <1>1, <1>2 DEF WakeInv

\* A re-arm to come is still to come after a step that moves no cycle, no re-arm and no
\* configure.
LEMMA StillDue ==
  ASSUME UNCHANGED <<pc, arm, configure>>
  PROVE  RearmDue => RearmDue'
  BY DEF RearmDue

\* Each part of rearmRetryTimer keeps the wake: a ticket taken later knows what an earlier
\* one may miss.
LEMMA RearmWakes ==
  ASSUME EngineTypeOK, WakeInv, NEW a \in Armers, RearmStep(a)
  PROVE  WakeInv'
<1>t. arm \in [Armers -> Rearm] /\ attached \in Nat /\ timer \in Nat \cup {Never}
      /\ rows \in [Item -> Row] /\ newest \in Armers \cup {"none"}
  BY DEF EngineTypeOK, TypeOK
<1>u. UNCHANGED <<rows, paused, attached, manual, configure, pc>>
  BY DEF RearmStep, RearmBegin, RearmRead, RearmThrows, RearmAct, vars, envVars, lifeVars, optVars
<1>w. Waiting' => Waiting
  BY <1>u, StillWaiting
<1>o. \A b \in Armers \ {a} : arm'[b] = arm[b]
  BY ArmMoves
<1>d. arm[a].stage # "begin" => (RearmDue => RearmDue')
  BY <1>o, <1>u DEF RearmDue
<1>1. CASE RearmBegin(a)
  <2>1. newest' = a /\ arm'[a].stage = "read" /\ arm'[a].can = (attached > 0 /\ ~manual)
    BY <1>1, <1>t DEF RearmBegin
  <2>2. Waiting' => arm'[a].can
    BY <2>1, <1>w DEF Waiting
  <2> QED BY <2>1, <2>2 DEF WakeInv, Ticketed, WillArm
<1>2. CASE RearmRead(a)
  <2>1. PICK t \in IF arm[a].can /\ ~paused THEN EarliestWake(a) ELSE {Never} :
          arm' = [arm EXCEPT ![a] = [arm[a] EXCEPT !.stage = "act", !.wake = t]]
    BY <1>2 DEF RearmRead
  <2>2. arm'[a].stage = "act" /\ arm'[a].wake = t /\ arm[a].stage = "read"
    BY <2>1, <1>2, <1>t DEF Rearm, RearmRead
  <2>3. UNCHANGED <<newest, timer, fire, awaiting, online, notice, missed>>
    BY <1>2 DEF RearmRead, timerVars, netVars
  <2>4. CASE newest = a
    <3>1. ASSUME Waiting, arm[a].can PROVE t # Never
      <4>1. PICK i \in WakeRows("attach") : TRUE
        BY <3>1 DEF Waiting
      <4>2. i \in WakeRows(a)
        BY <4>1 DEF WakeRows
      <4>3. ~paused /\ t \in EarliestWake(a)
        BY <2>1, <3>1 DEF Waiting
      <4>4. PICK j \in WakeRows(a) : t = rows[j].nextRetryAt
        BY <4>2, <4>3 DEF EarliestWake
      <4>5. rows[j].nextRetryAt \in Nat
        BY <1>t, <4>4 DEF WakeRows, Pending, Row
      <4> QED BY <4>4, <4>5 DEF Never
    <3>2. Ticketed /\ Ticketed'
      BY <2>2, <2>3, <2>4 DEF Ticketed
    <3>3. Waiting /\ WillArm(newest) => WillArm(newest)'
      BY <3>1, <2>2, <2>3, <2>4 DEF WillArm
    <3> QED BY <3>2, <3>3, <2>2, <1>d, <1>w DEF WakeInv
  <2>5. CASE newest # a
    <3>1. (Ticketed' <=> Ticketed) /\ (Ticketed /\ WillArm(newest) => WillArm(newest)') /\ (Armed' <=> Armed)
      BY <2>3, <2>5, <1>o DEF Ticketed, WillArm, Armed
    <3> QED BY <3>1, <2>2, <2>3, <1>d, <1>w DEF WakeInv
  <2> QED BY <2>4, <2>5
<1>3. CASE RearmThrows(a)
  <2>1. arm[a].stage = "read" /\ arm'[a].stage = "off" /\ (missed' <=> missed \/ newest = a)
    BY <1>3, <1>t DEF RearmThrows, NoRearm
  <2>2. UNCHANGED <<newest, timer, fire, awaiting, online, notice>>
    BY <1>3 DEF RearmThrows, timerVars, netVars
  <2>3. CASE newest = a
    BY <2>1, <2>2, <2>3 DEF WakeInv, Ticketed
  <2>4. CASE newest # a
    <3>1. (Ticketed' <=> Ticketed) /\ (Ticketed /\ WillArm(newest) => WillArm(newest)') /\ (Armed' <=> Armed)
      BY <2>2, <2>4, <1>o DEF Ticketed, WillArm, Armed
    <3> QED BY <3>1, <2>1, <1>d, <1>w DEF WakeInv
  <2> QED BY <2>3, <2>4
<1>4. CASE RearmAct(a)
  <2>1. arm[a].stage = "act" /\ arm'[a].stage = "off" /\ (missed' <=> missed /\ newest # a)
    BY <1>4, <1>t DEF RearmAct, NoRearm
  <2>2. UNCHANGED <<newest, fire, online, notice>>
    BY <1>4 DEF RearmAct, netVars
  <2>3. CASE newest = a
    <3>1. Ticketed /\ ~Ticketed'
      BY <2>1, <2>2, <2>3 DEF Ticketed
    <3>2. ASSUME WillArm(a) PROVE Armed'
      <4>1. arm[a].wake # Never /\ arm[a].wake \in Nat /\ arm[a].until \in Nat /\ now \in Nat
        BY <3>2, <2>1, <1>t DEF WillArm, Rearm, EngineTypeOK, TypeOK
      <4>2. Larger(now, Larger(arm[a].wake, arm[a].until)) \in Nat
        BY <4>1 DEF Larger
      <4>3. timer' \in Nat
        BY <4>1, <4>2, <1>4, <2>3 DEF RearmAct
      <4> QED BY <4>3 DEF Armed, Never
    <3> QED BY <3>1, <3>2, <2>1, <2>3, <1>d, <1>w DEF WakeInv
  <2>4. CASE newest # a
    <3>1. UNCHANGED <<timer, awaiting>>
      BY <1>4, <2>4 DEF RearmAct
    <3>2. (Ticketed' <=> Ticketed) /\ (Ticketed /\ WillArm(newest) => WillArm(newest)') /\ (Armed' <=> Armed)
      BY <3>1, <2>2, <2>4, <1>o DEF Ticketed, WillArm, Armed
    <3> QED BY <3>2, <2>1, <2>4, <1>d, <1>w DEF WakeInv
  <2> QED BY <2>3, <2>4
<1> QED BY <1>1, <1>2, <1>3, <1>4 DEF RearmStep

\* The timer, its task and the listener of the network hand the wake to one another or to a
\* cycle (retryWakeFired, connectivityChanged).
LEMMA WakeWakes ==
  ASSUME EngineTypeOK, ArmersInv, WakeInv, WakeStep
  PROVE  WakeInv'
<1>t. TypeOK
  BY DEF EngineTypeOK
<1>1. ASSUME NEW c \in Caller, WakeFlush(c) PROVE WakeInv'
  <2>1. pc'[c] \in InCycle
    BY <1>1, <1>t, FlushMoves DEF WakeFlush
  <2> QED BY <2>1 DEF WakeInv, RearmDue
<1>2. CASE \/ TimerFires \/ WakeCheck \/ WakeOffline \/ WakeSkipped
           \/ PathUpdate \/ ConnectivityChanged
  <2>1. UNCHANGED <<rows, paused, attached, manual, configure, pc, arm, newest, running>>
    BY <1>2 DEF TimerFires, WakeCheck, WakeOffline, WakeSkipped, PathUpdate, ConnectivityChanged,
                vars, envVars, lifeVars, optVars, armVars
  <2>2. Waiting' => Waiting
    BY <2>1, StillWaiting
  <2>3. RearmDue => RearmDue'
    BY <2>1, StillDue
  <2>4. ASSUME missed \/ Armed PROVE ~Waiting' \/ RearmDue' \/ missed' \/ Armed'
    <3>1. CASE TimerFires
      BY <3>1 DEF TimerFires, Armed
    <3>2. CASE WakeCheck
      <4>1. attached = 0 => ~(attached > 0)
        OBVIOUS
      <4>2. CASE attached = 0 \/ paused
        BY <4>1, <4>2, <2>2 DEF Waiting
      <4>3. CASE ~(attached = 0 \/ paused)
        <5>1. fire' # "none"
          BY <3>2, <4>3 DEF WakeCheck
        <5> QED BY <5>1 DEF Armed
      <4> QED BY <4>2, <4>3
    <3>3. CASE WakeOffline
      <4>1. online /\ ~notice => missed'
        BY <3>3 DEF WakeOffline
      <4>2. awaiting' = TRUE /\ online' = online /\ notice' = notice
        BY <3>3 DEF WakeOffline, netVars
      <4> QED BY <4>1, <4>2 DEF Armed
    <3>4. CASE WakeSkipped
      <4>1. CASE paused
        BY <4>1, <2>2 DEF Waiting
      <4>2. CASE running
        BY <4>2, <2>1 DEF ArmersInv, RearmDue
      <4>3. CASE ~paused /\ ~running
        BY <3>4, <4>3 DEF WakeSkipped
      <4> QED BY <4>1, <4>2, <4>3
    <3>5. CASE PathUpdate
      BY <3>5, <2>4 DEF PathUpdate, Armed, timerVars
    <3>6. CASE ConnectivityChanged
      BY <3>6, <2>4 DEF ConnectivityChanged, Armed
    <3> QED BY <1>2, <3>1, <3>2, <3>3, <3>4, <3>5, <3>6
  <2> QED BY <2>1, <2>2, <2>3, <2>4, WakeFrame
<1> QED BY <1>1, <1>2 DEF WakeStep

\* Every step keeps the wake of a retry that waits.
LEMMA StepWake ==
  ASSUME EngineTypeOK, ArmersInv, WakeInv, [EngineNext]_<<vars, engineVars>>
  PROVE  WakeInv'
<1>t. TypeOK /\ pc \in [Caller -> PC] /\ attached \in Nat
  BY DEF EngineTypeOK, TypeOK
<1>d. RearmDue' => WakeInv'
  BY DEF WakeInv
<1>w. ~Waiting' => WakeInv'
  BY DEF WakeInv
<1>f. ASSUME Waiting' => Waiting, RearmDue => RearmDue', UNCHANGED <<newest, arm, timer, fire, awaiting, online, notice, missed>>
      PROVE  WakeInv'
  BY <1>f, WakeFrame DEF Armed
<1>1. ASSUME NEW c \in Caller, CallFlush(c) PROVE WakeInv'
  BY <1>1, <1>d, <1>t, FlushMoves DEF CallFlush, RearmDue
<1>2. ASSUME NEW c \in Caller, EngineCycle(c) PROVE WakeInv'
  BY <1>2, <1>d, <1>t, CycleMoves DEF EngineCycle, RearmDue
<1>3. ASSUME NEW a \in Armers, Start(a) PROVE WakeInv'
  BY <1>3, <1>d, ArmMoves DEF RearmDue
<1>4. ASSUME NEW c \in Caller, FinishAndRearm(c) PROVE WakeInv'
  BY <1>4, <1>3, ArmersApart DEF FinishAndRearm
<1>5. ASSUME NEW c \in Caller, ReturnRearmed(c) PROVE WakeInv'
  <2>1. UNCHANGED <<rows, paused, engineVars>>
    BY <1>5 DEF ReturnRearmed, Return, envVars
  <2>2. UNCHANGED <<attached, manual, configure, newest, arm, timer, fire, awaiting, online, notice, missed>>
    BY <2>1 DEF engineVars, lifeVars, optVars, armVars, timerVars, netVars
  <2>3. pc[c] = "rearm" /\ \A d \in Caller \ {c} : pc'[d] = pc[d]
    BY <1>5, <1>t DEF ReturnRearmed, Return, Goto
  <2>4. RearmDue => RearmDue'
    BY <2>2, <2>3 DEF RearmDue, InCycle
  <2> QED BY <2>1, <2>2, <2>4, <1>f, StillWaiting
<1>6. ASSUME NEW a \in Armers, RearmStep(a) PROVE WakeInv'
  BY <1>6, RearmWakes
<1>7. CASE WakeStep
  BY <1>7, WakeWakes
<1>8. CASE AttachHybrid \/ Resume \/ ConfigureDispatcher
  BY <1>8, <1>3, ArmersApart DEF AttachHybrid, Resume, ConfigureDispatcher
<1>9. CASE DetachHybrid
  <2>1. UNCHANGED <<rows, paused, manual, configure, pc, newest, arm, timer, fire, awaiting, online, notice, missed>>
    BY <1>9 DEF DetachHybrid, vars, envVars, optVars, armVars, timerVars, netVars
  <2>2. attached > 0
    BY <1>9 DEF DetachHybrid
  <2>3. Waiting' => Waiting
    BY <2>1, <2>2 DEF Waiting, WakeRows, Pending
  <2> QED BY <2>1, <2>3, <1>f, StillDue
<1>10. CASE DetachDisarms \/ PauseDisarms
  <2>1. UNCHANGED <<attached, paused>> /\ newest' = "none"
    BY <1>10 DEF DetachDisarms, PauseDisarms, Disarm, vars, envVars
  <2>2. ~Ticketed'
    BY <2>1, ArmersApart DEF Ticketed
  <2>3. Waiting' => missed'
    BY <1>10, <2>1 DEF Waiting, DetachDisarms, PauseDisarms
  <2> QED BY <2>2, <2>3 DEF WakeInv
<1>11. CASE Pause
  BY <1>11, <1>w DEF Pause, SetPaused, Waiting
<1>12. CASE Configure
  BY <1>12, <1>d DEF Configure, RearmDue
<1>13. CASE QueueCall
  <2>1. UNCHANGED <<paused, pc, engineVars>> /\ (Enqueue \/ Remove)
    BY <1>13 DEF QueueCall, Enqueue, Remove, envVars
  <2>2. UNCHANGED <<attached, manual, configure, newest, arm, timer, fire, awaiting, online, notice, missed>>
    BY <2>1 DEF engineVars, lifeVars, optVars, armVars, timerVars, netVars
  <2> QED BY <2>1, <2>2, <1>t, <1>f, QueueWaits, StillDue
<1>14. CASE EngineRecover
  <2>1. UNCHANGED <<attached, arm>> /\ startup = "pending"
    BY <1>14 DEF EngineRecover, Recover, engineVars, lifeVars, armVars
  <2>2. attached > 0 => RearmDue'
    BY <2>1, ArmersApart DEF ArmersInv, RearmDue
  <2> QED BY <2>1, <2>2, <1>d, <1>w DEF Waiting
<1>15. CASE EngineKill
  <2>1. attached' = 0
    BY <1>15 DEF EngineKill, Launch
  <2>2. ~(attached' > 0)
    BY <2>1
  <2> QED BY <2>2, <1>w DEF Waiting
<1>16. CASE EngineTick \/ UNCHANGED <<vars, engineVars>>
  <2>1. UNCHANGED <<rows, paused, pc, engineVars>>
    BY <1>16 DEF EngineTick, Tick, vars, envVars
  <2>2. UNCHANGED <<attached, manual, configure, newest, arm, timer, fire, awaiting, online, notice, missed>>
    BY <2>1 DEF engineVars, lifeVars, optVars, armVars, timerVars, netVars
  <2> QED BY <2>1, <2>2, <1>f, StillWaiting, StillDue
<1> QED BY <1>1, <1>2, <1>4, <1>5, <1>6, <1>7, <1>8, <1>9, <1>10, <1>11, <1>12, <1>13, <1>14, <1>15, <1>16
        DEF EngineNext, JsStep
-----------------------------------------------------------------------------
(***************************************************************************)
(* No hold on a rejected credential is forgotten.                          *)
(***************************************************************************)

\* A step that moves no ticket and leaves the timer alone, or disarms it, keeps the hold if
\* who carries it still does.
LEMMA HoldFrame ==
  ASSUME HoldInv, HoldCarried => HoldCarried', UNCHANGED <<mustHold, hold, newest, arm>>,
         missed => missed', timer' = timer \/ timer' = Never
  PROVE  HoldInv'
<1>1. Ticketed' <=> Ticketed
  BY DEF Ticketed
<1> QED BY <1>1 DEF HoldInv

\* A hold is carried on by a step that moves no cycle and no re-arm.
LEMMA StillCarried ==
  ASSUME UNCHANGED <<pc, cyc, arm, mustHold>>
  PROVE  HoldCarried => HoldCarried'
  BY DEF HoldCarried

\* A re-arm that starts takes no ticket yet.
LEMMA StartHolds ==
  ASSUME EngineTypeOK, HoldInv, NEW a \in Armers, Start(a), HoldCarried => HoldCarried',
         UNCHANGED <<mustHold, hold, newest, timer, missed>>
  PROVE  HoldInv'
<1>1. (Ticketed' <=> Ticketed) /\ (Ticketed => arm'[newest] = arm[newest])
  BY ArmMoves DEF Ticketed
<1> QED BY <1>1 DEF HoldInv

\* Each part of rearmRetryTimer passes the hold on: from the cycle to the engine and the
\* ticket, and from the ticket to the timer.
LEMMA RearmHolds ==
  ASSUME EngineTypeOK, HoldInv, NEW a \in Armers, RearmStep(a)
  PROVE  HoldInv'
<1>t. /\ arm \in [Armers -> Rearm] /\ arm[a] \in Rearm /\ cyc \in [Caller -> CycleVars] /\ mustHold \in Nat
      /\ hold \in Nat /\ timer \in Nat \cup {Never} /\ now \in Nat
  BY DEF EngineTypeOK, TypeOK
<1>u. UNCHANGED <<pc, cyc, mustHold>>
  BY DEF RearmStep, RearmBegin, RearmRead, RearmThrows, RearmAct, vars, envVars, optVars
<1>o. \A b \in Armers \ {a} : arm'[b] = arm[b]
  BY ArmMoves
<1>c. arm[a].stage # "begin" => (HoldCarried => HoldCarried')
  BY <1>o, <1>u, ArmersApart DEF HoldCarried
<1>n. ASSUME newest # a, UNCHANGED <<newest, hold, timer, missed>>, HoldCarried => HoldCarried'
      PROVE  HoldInv'
  <2>1. (Ticketed' <=> Ticketed) /\ (Ticketed => arm'[newest] = arm[newest])
    BY <1>n, <1>o DEF Ticketed
  <2> QED BY <2>1, <1>n, <1>u DEF HoldInv
<1>1. CASE RearmBegin(a)
  <2>1. newest' = a /\ hold' = Larger(hold, NotBefore(a)) /\ arm'[a].stage = "read" /\ arm'[a].until = hold'
    BY <1>1, <1>t DEF RearmBegin
  <2>2. NotBefore(a) \in Nat
    BY <1>t DEF NotBefore, CycleVars
  <2>3. hold' >= hold /\ hold' >= NotBefore(a) /\ hold' \in Nat
    BY <2>1, <2>2, <1>t DEF Larger
  <2>4. Ticketed'
    BY <2>1 DEF Ticketed
  <2>5. CASE HoldCarried
    <3>1. PICK c \in Caller : (pc[c] \in InCycle \/ arm[c].stage = "begin") /\ cyc[c].held >= mustHold
      BY <2>5 DEF HoldCarried
    <3>2. CASE c = a
      <4>1. NotBefore(a) >= mustHold
        BY <3>1, <3>2 DEF NotBefore
      <4>2. hold' >= mustHold
        BY <4>1, <2>2, <2>3, <1>t
      <4> QED BY <4>2, <2>1, <2>4, <1>u DEF HoldInv
    <3>3. CASE c # a
      <4>1. HoldCarried'
        BY <3>1, <3>3, <1>o, <1>u, ArmersApart DEF HoldCarried
      <4> QED BY <4>1 DEF HoldInv
    <3> QED BY <3>2, <3>3
  <2>6. CASE ~HoldCarried
    <3>1. hold >= mustHold
      BY <2>6 DEF HoldInv
    <3>2. hold' >= mustHold
      BY <3>1, <2>3, <1>t
    <3> QED BY <3>2, <2>1, <2>4, <1>u DEF HoldInv
  <2> QED BY <2>5, <2>6
<1>2. CASE RearmRead(a)
  <2>1. PICK t \in IF arm[a].can /\ ~paused THEN EarliestWake(a) ELSE {Never} :
          arm' = [arm EXCEPT ![a] = [arm[a] EXCEPT !.stage = "act", !.wake = t]]
    BY <1>2 DEF RearmRead
  <2>2. arm'[a].stage = "act" /\ arm'[a].until = arm[a].until /\ arm[a].stage = "read"
    BY <2>1, <1>2, <1>t DEF Rearm, RearmRead
  <2>3. UNCHANGED <<newest, hold, timer, missed>>
    BY <1>2 DEF RearmRead, timerVars
  <2>4. CASE newest = a
    <3>1. Ticketed /\ Ticketed'
      BY <2>2, <2>3, <2>4 DEF Ticketed
    <3> QED BY <3>1, <2>2, <2>3, <2>4, <1>c, <1>u DEF HoldInv
  <2> QED BY <2>4, <2>2, <2>3, <1>c, <1>n
<1>3. CASE RearmThrows(a)
  <2>1. arm[a].stage = "read" /\ arm'[a].stage = "off" /\ (missed' <=> missed \/ newest = a)
    BY <1>3, <1>t DEF RearmThrows, NoRearm
  <2>2. UNCHANGED <<newest, hold, timer>>
    BY <1>3 DEF RearmThrows, timerVars
  <2>3. CASE newest = a
    <3>1. Ticketed /\ ~Ticketed' /\ missed'
      BY <2>1, <2>2, <2>3 DEF Ticketed
    <3> QED BY <3>1, <2>1, <2>2, <1>c, <1>u DEF HoldInv
  <2>4. newest # a => UNCHANGED missed
    BY <1>3, <2>1 DEF RearmThrows, EngineTypeOK
  <2> QED BY <2>1, <2>2, <2>3, <2>4, <1>c, <1>n
<1>4. CASE RearmAct(a)
  <2>1. arm[a].stage = "act" /\ arm'[a].stage = "off" /\ (missed' <=> missed /\ newest # a)
    BY <1>4, <1>t DEF RearmAct, NoRearm
  <2>2. UNCHANGED <<newest, hold>>
    BY <1>4 DEF RearmAct
  <2>3. CASE newest = a
    <3>1. Ticketed /\ ~Ticketed'
      BY <2>1, <2>2, <2>3 DEF Ticketed
    <3>2. timer' = Never \/ timer' = Larger(now, Larger(arm[a].wake, arm[a].until))
      BY <1>4, <2>3 DEF RearmAct
    <3>3. ASSUME arm[a].until >= mustHold, timer' # Never PROVE timer' >= mustHold
      <4>1. arm[a].until \in Nat /\ arm[a].wake \in Int
        BY <1>t DEF Rearm, Never
      <4>2. Larger(arm[a].wake, arm[a].until) >= mustHold /\ Larger(arm[a].wake, arm[a].until) \in Int
        BY <4>1, <3>3, <1>t DEF Larger
      <4> QED BY <4>2, <3>2, <3>3, <1>t DEF Larger
    <3> QED BY <3>1, <3>3, <2>1, <2>2, <2>3, <1>c, <1>u DEF HoldInv
  <2>4. newest # a => UNCHANGED <<missed, timer>>
    BY <1>4, <2>1 DEF RearmAct, EngineTypeOK
  <2> QED BY <2>1, <2>2, <2>3, <2>4, <1>c, <1>n
<1> QED BY <1>1, <1>2, <1>3, <1>4 DEF RearmStep

\* Every step keeps the hold: a cycle that is told to hold carries it, and nothing but
\* configure and the death of the process ends it.
LEMMA StepHold ==
  ASSUME EngineTypeOK, EngineTypeOK', ArmersInv, HoldInv, [EngineNext]_<<vars, engineVars>>
  PROVE  HoldInv'
<1>t. TypeOK /\ TypeOK' /\ pc \in [Caller -> PC] /\ arm \in [Armers -> Rearm] /\ timer' \in Nat \cup {Never}
  BY DEF EngineTypeOK, TypeOK
<1>h. mustHold \in Nat /\ \A c \in Caller : cyc[c].held \in Nat /\ cyc'[c].held \in Nat
  BY DEF EngineTypeOK, TypeOK, CycleVars
<1>f. ASSUME UNCHANGED <<pc, cyc, mustHold, hold, newest, arm>>, missed => missed', timer' = timer \/ timer' = Never
      PROVE  HoldInv'
  BY <1>f, HoldFrame, StillCarried
<1>1. ASSUME NEW c \in Caller, CallFlush(c) \/ WakeFlush(c) PROVE HoldInv'
  <2>1. Flush(c) /\ UNCHANGED <<mustHold, hold, newest, arm, timer, missed>>
    BY <1>1 DEF CallFlush, WakeFlush, engineVars, optVars, armVars, timerVars
  <2>2. HoldCarried => HoldCarried'
    <3>1. arm[c].stage = "off"
      BY <2>1, <1>t, FlushMoves, ArmersApart DEF ArmersInv, Rearm
    <3>2. pc[c] \notin InCycle
      BY <2>1, <1>t, FlushMoves DEF InCycle
    <3> QED BY <3>1, <3>2, <2>1, <1>t, FlushMoves DEF HoldCarried
  <2> QED BY <2>1, <2>2, HoldFrame
<1>2. ASSUME NEW c \in Caller, EngineCycle(c) PROVE HoldInv'
  <2>1. CycleStep(c) /\ UNCHANGED <<hold, newest, arm, timer, missed>>
        /\ mustHold' = IF cyc'[c].held > cyc[c].held THEN cyc'[c].held ELSE mustHold
    BY <1>2 DEF EngineCycle, armVars, timerVars
  <2>2. CASE cyc'[c].held > cyc[c].held
    <3>1. cyc'[c].held >= mustHold'
      BY <2>1, <2>2, <1>h
    <3>2. HoldCarried'
      BY <3>1, <2>1, <1>t, CycleMoves DEF HoldCarried
    <3> QED BY <3>2 DEF HoldInv
  <2>3. CASE ~(cyc'[c].held > cyc[c].held)
    <3>1. cyc'[c].held = cyc[c].held
      <4>1. pc[c] = "wire" => cyc[c].held = 0
        BY DEF ArmersInv
      <4> QED BY <4>1, <2>1, <2>3, <1>t, CycleMoves
    <3>2. HoldCarried => HoldCarried'
      BY <3>1, <2>1, <2>3, <1>t, CycleMoves DEF HoldCarried
    <3> QED BY <3>2, <2>1, <2>3, HoldFrame
  <2> QED BY <2>2, <2>3
<1>3. ASSUME NEW c \in Caller, FinishAndRearm(c) PROVE HoldInv'
  <2>1. Start(c) /\ UNCHANGED <<cyc, mustHold, hold, newest, timer, missed>>
    BY <1>3 DEF FinishAndRearm, Finish, optVars, timerVars
  <2>2. \A d \in Caller \ {c} : pc'[d] = pc[d] /\ arm'[d] = arm[d]
    BY <1>3, <1>t, ArmersApart, ArmMoves DEF FinishAndRearm, Finish, Goto
  <2>3. arm'[c].stage = "begin"
    BY <2>1, ArmersApart, ArmMoves
  <2>4. HoldCarried => HoldCarried'
    BY <2>1, <2>2, <2>3 DEF HoldCarried
  <2> QED BY <2>1, <2>4, ArmersApart, StartHolds
<1>4. ASSUME NEW c \in Caller, ReturnRearmed(c) PROVE HoldInv'
  <2>1. UNCHANGED <<mustHold, hold, newest, arm, timer, missed>> /\ arm[c].stage = "off"
    BY <1>4 DEF ReturnRearmed, engineVars, optVars, armVars, timerVars
  <2>2. pc[c] = "rearm" /\ \A d \in Caller \ {c} : pc'[d] = pc[d] /\ cyc'[d] = cyc[d]
    BY <1>4, <1>t DEF ReturnRearmed, Return, Goto, Locals, TypeOK
  <2>3. HoldCarried => HoldCarried'
    BY <2>1, <2>2 DEF HoldCarried, InCycle
  <2> QED BY <2>1, <2>3, HoldFrame
<1>5. ASSUME NEW a \in Armers, RearmStep(a) PROVE HoldInv'
  BY <1>5, RearmHolds
<1>6. CASE TimerFires \/ WakeCheck \/ WakeOffline \/ WakeSkipped \/ PathUpdate \/ ConnectivityChanged
  <2>1. UNCHANGED <<pc, cyc, mustHold, hold, newest, arm>>
    BY <1>6 DEF TimerFires, WakeCheck, WakeOffline, WakeSkipped, PathUpdate, ConnectivityChanged,
                vars, optVars, armVars
  <2>2. timer' = timer \/ timer' = Never
    BY <1>6 DEF TimerFires, WakeCheck, WakeOffline, WakeSkipped, PathUpdate, ConnectivityChanged, timerVars
  <2>3. missed => missed'
    BY <1>6 DEF TimerFires, WakeCheck, WakeOffline, WakeSkipped, PathUpdate, ConnectivityChanged
  <2> QED BY <2>1, <2>2, <2>3, <1>f
<1>7. ASSUME NEW a \in Armers, Start(a), UNCHANGED <<pc, cyc, mustHold, hold, newest, timer, missed>>
      PROVE  HoldInv'
  <2>1. arm[a].stage = "off" /\ \A b \in Armers \ {a} : arm'[b] = arm[b]
    BY <1>7, ArmMoves
  <2>2. arm'[a].stage = "begin"
    BY <1>7, ArmMoves
  <2>3. HoldCarried => HoldCarried'
    BY <1>7, <2>1, <2>2, ArmersApart DEF HoldCarried
  <2> QED BY <1>7, <2>3, StartHolds
<1>8. CASE AttachHybrid \/ Resume \/ ConfigureDispatcher
  BY <1>8, <1>7, ArmersApart DEF AttachHybrid, Resume, ConfigureDispatcher, SetPaused, UpdateConfig, optVars, timerVars
<1>9. CASE DetachHybrid \/ Pause
  BY <1>9, <1>f DEF DetachHybrid, Pause, SetPaused, vars, optVars, armVars, timerVars
<1>10. CASE DetachDisarms \/ PauseDisarms
  <2>1. UNCHANGED <<pc, cyc, arm, mustHold, hold>> /\ newest' = "none" /\ timer' = Never
    BY <1>10 DEF DetachDisarms, PauseDisarms, Disarm, vars, optVars
  <2>2. ~Ticketed'
    BY <2>1, ArmersApart DEF Ticketed
  <2> QED BY <2>1, <2>2, StillCarried DEF HoldInv
<1>11. ASSUME hold' = 0, mustHold' = 0 PROVE HoldInv'
  <2>1. ASSUME Ticketed' PROVE arm'[newest'].until >= 0
    <3>1. newest' \in Armers /\ arm' \in [Armers -> Rearm]
      BY <2>1 DEF Ticketed, EngineTypeOK
    <3>2. arm'[newest'].until \in Nat
      BY <3>1 DEF Rearm
    <3> QED BY <3>2
  <2>2. timer' = Never \/ timer' >= 0
    BY <1>t
  <2> QED BY <2>1, <2>2, <1>11 DEF HoldInv
<1>12. CASE Configure
  BY <1>12, <1>11 DEF Configure
<1>13. CASE EngineKill
  BY <1>13, <1>11 DEF EngineKill, Launch
<1>14. CASE QueueCall \/ EngineRecover \/ EngineTick \/ UNCHANGED <<vars, engineVars>>
  <2>1. UNCHANGED <<pc, cyc, engineVars>>
    BY <1>14 DEF QueueCall, Enqueue, Remove, EngineRecover, Recover, EngineTick, Tick, vars
  <2> QED BY <2>1, <1>f DEF engineVars, optVars, armVars, timerVars
<1> QED BY <1>1, <1>2, <1>3, <1>4, <1>5, <1>6, <1>8, <1>9, <1>10, <1>12, <1>13, <1>14
        DEF EngineNext, WakeStep, JsStep

\* Nothing waits and nothing is held at launch.
LEMMA InitWake == EngineInit => WakeInv /\ HoldInv
<1> SUFFICES ASSUME EngineInit PROVE WakeInv /\ HoldInv
  OBVIOUS
<1>1. ~Waiting
  <2>1. attached = 0
    BY DEF EngineInit
  <2>2. ~(attached > 0)
    BY <2>1
  <2> QED BY <2>2 DEF Waiting
<1>2. ~Ticketed /\ timer = Never /\ hold = 0 /\ mustHold = 0
  BY ArmersApart DEF EngineInit, Ticketed
<1> QED BY <1>1, <1>2 DEF WakeInv, HoldInv

\* All of it together.
EngineInv == EngineTypeOK /\ ArmersInv /\ WakeInv /\ HoldInv

\* It holds.
LEMMA EngineInvHolds == EngineSpec => []EngineInv
<1>1. EngineInit => EngineInv
  BY EngineInitTypes, InitArmers, InitWake DEF EngineInv
<1>2. EngineInv /\ EngineTypeOK' /\ [EngineNext]_<<vars, engineVars>> => EngineInv'
  BY StepArmers, StepWake, StepHold DEF EngineInv
<1> QED BY <1>1, <1>2, EngineTypeCorrect, PTL DEF EngineSpec

\* A retry that waits is going to be woken, by the timer or by the network it waits for,
\* whatever re-arms, pauses, detaches, configures and deaths overtake each other, and no
\* wake comes before the hold on a rejected credential has run (rearmRetryTimer,
\* disarmRetryTimer, retryWakeFired, finishCycle).
THEOREM EngineWakeKept == EngineSpec => []WakeKept
<1>1. ASSUME EngineInv, Quiet, ~missed
      PROVE  /\ Waiting => timer # Never \/ (awaiting /\ ~online)
             /\ timer # Never => timer >= mustHold
  <2>1. ~Ticketed /\ ~RearmDue /\ ~HoldCarried
    <3>1. ~Ticketed
      BY <1>1 DEF Quiet, Ticketed
    <3>2. \A c \in Caller : pc[c] \notin InCycle /\ arm[c].stage # "begin"
      BY <1>1, ArmersApart DEF Quiet, InCycle
    <3>3. ~RearmDue
      BY <1>1, <3>2 DEF Quiet, RearmDue
    <3>4. ~HoldCarried
      BY <3>2 DEF HoldCarried
    <3> QED BY <3>1, <3>3, <3>4
  <2>2. Waiting => Armed
    BY <1>1, <2>1 DEF EngineInv, WakeInv
  <2>3. Waiting => timer # Never \/ (awaiting /\ ~online)
    BY <1>1, <2>2 DEF Quiet, Armed
  <2>4. timer # Never => timer >= mustHold
    BY <1>1, <2>1 DEF EngineInv, HoldInv
  <2> QED BY <2>3, <2>4
<1>2. EngineInv => WakeKept
  BY <1>1 DEF WakeKept
<1> QED BY <1>2, EngineInvHolds, PTL
=============================================================================
