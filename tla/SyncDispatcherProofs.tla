------------------------ MODULE SyncDispatcherProofs ------------------------
(***************************************************************************)
(* Proofs about SyncDispatcher, for any sets of items and callers, any     *)
(* budgets, delays and batch size, and any number of faults: first who     *)
(* holds which row, then what the table counts and what the dispatches of  *)
(* an item really did, then when a dispatch may start (probe, credential,  *)
(* cooldown), and that the engine implements DeliveryQueue.                *)
(***************************************************************************)
EXTENDS SyncDispatcher, TLAPS

(***************************************************************************)
(* What the statements of the queue do to a table.                         *)
(***************************************************************************)

\* Every statement of SyncItemDao maps a table to a table.
LEMMA QueueTypes ==
  ASSUME NEW q \in [Item -> Row], NEW ids, NEW id \in Item, NEW n \in Nat, NEW m \in Nat
  PROVE  /\ Insert(q, ids, n) \in [Item -> Row]
         /\ Delete(q, ids) \in [Item -> Row]
         /\ MarkRetry(q, id, n, m) \in [Item -> Row]
         /\ MarkFailed(q, id, n) \in [Item -> Row]
         /\ MarkSucceeded(q, id) \in [Item -> Row]
         /\ ResetInFlight(q) \in [Item -> Row]
         /\ MarkInFlight(q, ids) \in [Item -> Row]
<1>1. Insert(q, ids, n) \in [Item -> Row]
  BY DEF Insert, Row, StoredStatus
<1>2. \A S : Delete(q, S) \in [Item -> Row]
  BY DEF Delete, GoneRow, Row, StoredStatus
<1>3. MarkRetry(q, id, n, m) \in [Item -> Row] /\ MarkFailed(q, id, n) \in [Item -> Row]
  BY DEF MarkRetry, MarkFailed, UpdateStatus, Row, StoredStatus
<1>4. ResetInFlight(q) \in [Item -> Row]
  BY DEF ResetInFlight, Row, StoredStatus
<1>5. MarkInFlight(q, ids) \in [Item -> Row]
  BY DEF MarkInFlight, Row, StoredStatus
<1> QED BY <1>1, <1>2, <1>3, <1>4, <1>5 DEF MarkSucceeded
-----------------------------------------------------------------------------
(***************************************************************************)
(* Type correctness.                                                       *)
(***************************************************************************)

\* Assigning one local variable of a cycle, or one count of an item's history,
\* keeps the record well typed.
LEMMA RecordTypes ==
  ASSUME NEW r \in CycleVars, NEW e \in Entry, NEW v \in BOOLEAN, NEW n \in Nat
  PROVE  /\ [r EXCEPT !.cancelled = v] \in CycleVars
         /\ [r EXCEPT !.terminal = v] \in CycleVars
         /\ [r EXCEPT !.closed = v] \in CycleVars
         /\ \A x \in Credentials : [r EXCEPT !.cred = x] \in CycleVars
         /\ \A x \in Config : [r EXCEPT !.options = x, !.startedAt = n] \in CycleVars
         /\ \A f \in Item \cup {NoItem} : \A x \in [Item -> Nat] :
              [r EXCEPT !.first = f, !.seen = x] \in CycleVars
         /\ [e EXCEPT !.tries = @ + 1] \in Entry
         /\ [e EXCEPT !.lost = @ + 1] \in Entry
         /\ [e EXCEPT !.due = n] \in Entry
         /\ [e EXCEPT !.held = @ + 1, !.due = n] \in Entry
<1>1. /\ [r EXCEPT !.cancelled = v] \in CycleVars
      /\ [r EXCEPT !.terminal = v] \in CycleVars
      /\ [r EXCEPT !.closed = v] \in CycleVars
  BY DEF CycleVars
<1>2. \A x \in Credentials : [r EXCEPT !.cred = x] \in CycleVars
  BY DEF CycleVars
<1>3. \A x \in Config : [r EXCEPT !.options = x, !.startedAt = n] \in CycleVars
  BY DEF CycleVars
<1>4. \A f \in Item \cup {NoItem} : \A x \in [Item -> Nat] :
        [r EXCEPT !.first = f, !.seen = x] \in CycleVars
  BY DEF CycleVars
<1>5. /\ [e EXCEPT !.tries = @ + 1] \in Entry
      /\ [e EXCEPT !.lost = @ + 1] \in Entry
      /\ [e EXCEPT !.due = n] \in Entry
  BY DEF Entry
<1>6. [e EXCEPT !.held = @ + 1, !.due = n] \in Entry
  <2>1. e.held + 1 \in Nat
    BY DEF Entry
  <2>2. \A h \in Nat : [e EXCEPT !.held = h, !.due = n] \in Entry
    BY DEF Entry
  <2> QED BY <2>1, <2>2
<1> QED BY <1>1, <1>2, <1>3, <1>4, <1>5, <1>6

\* The initial state is well typed.
LEMMA InitTypes == Init => TypeOK
<1> SUFFICES ASSUME Init PROVE TypeOK
  OBVIOUS
<1> USE DispatcherAssumption
<1>1. rows \in [Item -> Row]
  BY DEF Init, NewRow, Row, StoredStatus
<1>2. (CHOOSE b \in Budgets : TRUE) \in Budgets
  OBVIOUS
<1>3. NoCycle \in CycleVars
  BY <1>2 DEF NoCycle, CycleVars, Config, Sources, Credentials
<1>4. ledger \in [Item -> Entry]
  BY DEF Init, NoEntry, Entry
<1>5. task \in [Caller -> [Item -> TaskStates]]
  BY DEF Init, NoTask, TaskStates
<1>6. pc \in [Caller -> PC]
  BY DEF Init, PC
<1> QED BY <1>1, <1>3, <1>4, <1>5, <1>6 DEF Init, TypeOK, RecoveryStates

\* Every step keeps the state well typed.
LEMMA StepTypes == TypeOK /\ [Next]_vars => TypeOK'
<1> SUFFICES ASSUME TypeOK, [Next]_vars PROVE TypeOK'
  OBVIOUS
<1> USE DispatcherAssumption
<1>t. /\ NoCycle \in CycleVars /\ NoTask \in [Item -> TaskStates]
      /\ NoEntry \in Entry
  <2>1. (CHOOSE b \in Budgets : TRUE) \in Budgets
    OBVIOUS
  <2> QED BY <2>1 DEF NoCycle, CycleVars, Config, Sources, Credentials, NoTask, TaskStates, NoEntry, Entry
<1>g. ASSUME NEW c \in Caller, NEW l \in PC, Goto(c, l) PROVE pc' \in [Caller -> PC]
  BY <1>g DEF Goto, TypeOK
<1>pc. InCycle \cup {"idle", "lock"} \subseteq PC
  BY DEF PC
<1>l. ASSUME NEW c \in Caller, NEW r \in CycleVars, Locals(c, r) PROVE cyc' \in [Caller -> CycleVars]
  BY <1>l DEF Locals, TypeOK
<1>c. /\ \A c \in Caller : cyc[c] \in CycleVars
      /\ \A i \in Item : ledger[i] \in Entry
      /\ now \in Nat /\ config \in Config
  BY DEF TypeOK
<1>n. ASSUME NEW i \in Item, NEW e \in Entry, Note(i, e) PROVE ledger' \in [Item -> Entry]
  BY <1>n, <1>t DEF Note, TypeOK
<1>1. ASSUME NEW c \in Caller, Flush(c) \/ SkipPaused(c) \/ SkipUnavailable(c) \/ Joined(c) \/ ObserveCancel(c)
      PROVE  TypeOK'
  BY <1>1, <1>g DEF Flush, SkipPaused, SkipUnavailable, Joined, ObserveCancel, TypeOK, envVars, PC, InCycle
<1>2. ASSUME NEW c \in Caller, Enter(c) PROVE TypeOK'
  <2>1. PICK s \in Reloaded : /\ CredentialPolicy(s) # "UNAVAILABLE"
                              /\ config' = [config EXCEPT !.source = s]
                              /\ Locals(c, [cyc[c] EXCEPT !.cred = CredentialPolicy(s)])
    BY <1>2 DEF Enter, ReadPolicy
  <2>2. s \in Sources /\ CredentialPolicy(s) \in Credentials
    BY DEF Reloaded, Sources, TypeOK, Config, CredentialPolicy, Credentials
  <2>3. config' \in Config
    BY <2>1, <2>2 DEF TypeOK, Config
  <2>4. cyc' \in [Caller -> CycleVars]
    BY <2>1, <2>2, <1>c, <1>l, RecordTypes, <1>t
  <2>5. pc' \in [Caller -> PC]
    BY <1>2, <1>g DEF Enter, ReadPolicy, PC, InCycle
  <2> QED BY <1>2, <2>3, <2>4, <2>5 DEF Enter, ReadPolicy, TypeOK
<1>3. ASSUME NEW c \in Caller, Begin(c) PROVE TypeOK'
  <2>1. cyc' \in [Caller -> CycleVars]
    BY <1>3, <1>c, <1>t, <1>l, RecordTypes DEF Begin
  <2>2. pc' \in [Caller -> PC]
    BY <1>3, <1>g DEF Begin, PC, InCycle
  <2> QED BY <1>3, <2>1, <2>2 DEF Begin, TypeOK, envVars
<1>4. ASSUME NEW c \in Caller, Claim(c) PROVE TypeOK'
  <2>0. PICK ids \in Claims(rows, cyc[c].startedAt, BatchSize) : \E f \in Probe(c, ids) :
          /\ rows' = MarkInFlight(rows, ids)
          /\ task' = [task EXCEPT ![c] = [i \in Item |-> IF i \in ids THEN "todo" ELSE "none"]]
          /\ Locals(c, [cyc[c] EXCEPT !.first = f, !.seen = [i \in Item |-> rows[i].attempts]])
          /\ Goto(c, CASE ids = {} -> "record" [] f # NoItem -> "first" [] OTHER -> "rest")
    BY <1>4 DEF Claim
  <2>1. PICK f \in Probe(c, ids) :
          /\ rows' = MarkInFlight(rows, ids)
          /\ task' = [task EXCEPT ![c] = [i \in Item |-> IF i \in ids THEN "todo" ELSE "none"]]
          /\ Locals(c, [cyc[c] EXCEPT !.first = f, !.seen = [i \in Item |-> rows[i].attempts]])
          /\ Goto(c, CASE ids = {} -> "record" [] f # NoItem -> "first" [] OTHER -> "rest")
    BY <2>0
  <2>2. rows' \in [Item -> Row]
    BY <2>1 DEF TypeOK, MarkInFlight, Row, StoredStatus
  <2>3. task' \in [Caller -> [Item -> TaskStates]]
    BY <2>1 DEF TypeOK, TaskStates
  <2>4. f \in Item \cup {NoItem}
    BY DEF Claims, Claimable, Pending, Probe, Heads
  <2>5. [i \in Item |-> rows[i].attempts] \in [Item -> Nat]
    BY DEF TypeOK, Row
  <2>6. cyc' \in [Caller -> CycleVars]
    BY <2>1, <2>4, <2>5, <1>c, <1>t, <1>l, RecordTypes
  <2>7. pc' \in [Caller -> PC]
    <3>1. (CASE ids = {} -> "record" [] f # NoItem -> "first" [] OTHER -> "rest") \in PC
      BY DEF PC, InCycle
    <3> QED BY <2>1, <3>1, <1>g
  <2> QED BY <1>4, <2>2, <2>3, <2>6, <2>7 DEF Claim, TypeOK, envVars
<1>5. ASSUME NEW c \in Caller, NEW i \in Item, StartItem(c, i) PROVE TypeOK'
  <2>1. task' \in [Caller -> [Item -> TaskStates]]
    BY <1>5 DEF StartItem, TypeOK, TaskStates
  <2>2. [ledger[i] EXCEPT !.tries = @ + 1] \in Entry
    BY <1>c, <1>t, RecordTypes
  <2> QED BY <1>5, <2>1, <2>2, <1>n DEF StartItem, TypeOK, envVars
<1>e. ASSUME NEW c \in Caller, NEW i \in Item, NEW r \in {"done", "held"}, NEW q \in [Item -> Row],
             EndItem(c, i, r, q), ledger' \in [Item -> Entry], faults' \in Nat, orphan' \in SUBSET Item
      PROVE  TypeOK'
  <2>1. task' \in [Caller -> [Item -> TaskStates]]
    BY <1>e DEF EndItem, TypeOK, TaskStates
  <2>2. AfterItem(c, r) \in PC
    BY DEF AfterItem, TypeOK, PC, InCycle
  <2>3. pc' \in [Caller -> PC]
    BY <1>e, <1>g, <2>2 DEF EndItem
  <2> QED BY <1>e, <2>1, <2>3 DEF EndItem, TypeOK
<1>s. ASSUME NEW c \in Caller, NEW i \in Item
      PROVE  cyc[c].seen[i] \in Nat /\ cyc[c].seen[i] + 1 \in Nat
  BY DEF TypeOK, CycleVars
<1>6. ASSUME NEW c \in Caller, NEW i \in Item, FailExhausted(c, i) \/ FailTerminally(c, i) PROVE TypeOK'
  <2>1. rows \in [Item -> Row] /\ faults \in Nat /\ orphan \in SUBSET Item /\ ledger \in [Item -> Entry]
    BY DEF TypeOK
  <2>2. MarkFailed(rows, i, cyc[c].seen[i]) \in [Item -> Row] /\ MarkFailed(rows, i, cyc[c].seen[i] + 1) \in [Item -> Row]
    BY <2>1, <1>s, QueueTypes
  <2> QED BY <1>6, <1>e, <2>1, <2>2 DEF FailExhausted, FailTerminally
<1>7. ASSUME NEW c \in Caller, NEW i \in Item, Succeed(c, i) PROVE TypeOK'
  <2>1. rows \in [Item -> Row] /\ faults \in Nat /\ orphan \in SUBSET Item
    BY DEF TypeOK
  <2>2. MarkSucceeded(rows, i) \in [Item -> Row]
    BY <2>1, QueueTypes
  <2>3. ledger' \in [Item -> Entry]
    BY <1>7, <1>n, <1>t DEF Succeed
  <2> QED BY <1>7, <1>e, <2>1, <2>2, <2>3 DEF Succeed
<1>8. ASSUME NEW c \in Caller, NEW i \in Item, Reschedule(c, i) PROVE TypeOK'
  <2>1. rows \in [Item -> Row] /\ faults \in Nat /\ orphan \in SUBSET Item /\ now \in Nat /\ ledger[i] \in Entry
    BY DEF TypeOK
  <2>2. PICK d \in Delays : /\ EndItem(c, i, "done", MarkRetry(rows, i, cyc[c].seen[i] + 1, now + d))
                           /\ Note(i, [ledger[i] EXCEPT !.due = now + d])
    BY <1>8 DEF Reschedule
  <2>3. MarkRetry(rows, i, cyc[c].seen[i] + 1, now + d) \in [Item -> Row]
    <3>1. now + d \in Nat
      BY <2>1
    <3> QED BY <2>1, <3>1, <1>s, QueueTypes
  <2>4. ledger' \in [Item -> Entry]
    <3>1. now + d \in Nat
      BY <2>1
    <3>2. [ledger[i] EXCEPT !.due = now + d] \in Entry
      BY <1>c, <3>1, <1>t, RecordTypes
    <3> QED BY <2>2, <3>2, <1>n
  <2> QED BY <1>8, <1>e, <2>1, <2>2, <2>3, <2>4 DEF Reschedule
<1>9. ASSUME NEW c \in Caller, NEW i \in Item, HoldForCredentialRenewal(c, i) PROVE TypeOK'
  <2>1. rows \in [Item -> Row] /\ faults \in Nat /\ orphan \in SUBSET Item /\ now \in Nat /\ ledger[i] \in Entry
    BY DEF TypeOK
  <2>2. PICK wait \in HoldDelays :
              /\ EndItem(c, i, "held", MarkRetry(rows, i, cyc[c].seen[i], now + wait))
              /\ Note(i, [ledger[i] EXCEPT !.held = @ + 1, !.due = now + wait])
    BY <1>9 DEF HoldForCredentialRenewal
  <2>w. now + wait \in Nat
    BY <2>1 DEF HoldDelays
  <2>3. MarkRetry(rows, i, cyc[c].seen[i], now + wait) \in [Item -> Row]
    BY <2>1, <2>w, <1>s, QueueTypes
  <2>4. ledger' \in [Item -> Entry]
    <3>1. [ledger[i] EXCEPT !.held = @ + 1, !.due = now + wait] \in Entry
      BY <1>c, <2>w, <1>t, RecordTypes
    <3> QED BY <2>2, <3>1, <1>n
  <2> QED BY <1>9, <1>e, <2>1, <2>2, <2>3, <2>4 DEF HoldForCredentialRenewal
<1>10. ASSUME NEW c \in Caller, NEW i \in Item, LoseOutcome(c, i) PROVE TypeOK'
  <2>1. rows \in [Item -> Row] /\ faults' \in Nat /\ ledger[i] \in Entry
    BY <1>10 DEF TypeOK, LoseOutcome, Fault
  <2>2. orphan' \in SUBSET Item
    BY <1>10 DEF LoseOutcome, TypeOK
  <2>3. ledger' \in [Item -> Entry]
    <3>1. [ledger[i] EXCEPT !.lost = IF task[c][i] = "wire" THEN @ + 1 ELSE @] \in Entry
      BY <2>1 DEF Entry
    <3> QED BY <1>10, <3>1, <1>n DEF LoseOutcome
  <2> QED BY <1>10, <1>e, <2>1, <2>2, <2>3 DEF LoseOutcome
<1>u. ASSUME NEW c \in Caller PROVE [task EXCEPT ![c] = Unstarted(c)] \in [Caller -> [Item -> TaskStates]]
  BY DEF Unstarted, TypeOK, TaskStates
<1>r. ResetInFlight(rows) \in [Item -> Row]
  BY QueueTypes DEF TypeOK, ResetInFlight, Row, StoredStatus
<1>11. ASSUME NEW c \in Caller, Release(c) PROVE TypeOK'
  BY <1>11, <1>u, <1>r, <1>g DEF Release, TypeOK, envVars, PC, InCycle
<1>f. ASSUME NEW c \in Caller, EmitFailed(c) PROVE cyc' \in [Caller -> CycleVars]
  <2>1. (cyc[c].closed \/ ~cyc[c].terminal) \in BOOLEAN
    OBVIOUS
  <2> QED BY <1>f, <2>1, <1>c, <1>t, <1>l, RecordTypes DEF EmitFailed
<1>12. ASSUME NEW c \in Caller, RecordResult(c) \/ EmitTerminal(c) PROVE TypeOK'
  <2>1. cyc' \in [Caller -> CycleVars]
    BY <1>12, <1>c, <1>t, <1>l, RecordTypes DEF RecordResult, EmitTerminal
  <2> QED BY <1>12, <2>1, <1>g DEF RecordResult, EmitTerminal, TypeOK, envVars, PC, InCycle
<1>13. ASSUME NEW c \in Caller, StorageThrows(c) PROVE TypeOK'
  BY <1>13, <1>g DEF StorageThrows, Fault, TypeOK, PC, InCycle
<1>14. ASSUME NEW c \in Caller, AbortCancelled(c) PROVE TypeOK'
  BY <1>14, <1>u, <1>r, <1>g, <1>f DEF AbortCancelled, TypeOK, envVars, PC, InCycle
<1>15. ASSUME NEW c \in Caller, AbortUnreleased(c) PROVE TypeOK'
  <2>1. orphan' \in SUBSET Item /\ faults' \in Nat
    BY <1>15 DEF AbortUnreleased, InFlight, Fault, TypeOK
  <2> QED BY <1>15, <2>1, <1>u, <1>g, <1>f DEF AbortUnreleased, TypeOK, PC, InCycle
<1>16. ASSUME NEW c \in Caller, Finish(c) PROVE TypeOK'
  BY <1>16, <1>t, <1>g, <1>l DEF Finish, TypeOK, envVars, PC, InCycle
<1>17. ASSUME NEW c \in Caller, Cancel(c) PROVE TypeOK'
  <2>1. cyc' \in [Caller -> CycleVars]
    BY <1>17, <1>c, <1>t, <1>l, RecordTypes DEF Cancel, TypeOK
  <2> QED BY <1>17, <2>1, <1>g DEF Cancel, TypeOK, envVars, PC, InCycle
<1>18. CASE RecoveryWorker \/ RecoveryEnds \/ SyncWorkerReset
  <2>1. rows' \in [Item -> Row] /\ orphan' \in SUBSET Item
    BY <1>18, <1>r DEF RecoveryWorker, RecoveryEnds, SyncWorkerReset, ResetUnderMutex, TypeOK
  <2>2. recovery' \in RecoveryStates
    BY <1>18 DEF RecoveryWorker, RecoveryEnds, SyncWorkerReset, RecoveryStates, TypeOK, envVars
  <2> QED BY <1>18, <2>1, <2>2 DEF RecoveryWorker, RecoveryEnds, SyncWorkerReset, TypeOK, envVars
<1>19. CASE Enqueue
  <2>1. PICK ids \in SUBSET {i \in Item : rows[i].status = "NEW"} : rows' = Insert(rows, ids, now)
    BY <1>19 DEF Enqueue
  <2>2. rows' \in [Item -> Row]
    BY <2>1 DEF TypeOK, Insert, Row, StoredStatus
  <2> QED BY <1>19, <2>2 DEF Enqueue, TypeOK, envVars
<1>20. CASE Remove
  <2>1. PICK ids : /\ rows' = Delete(rows, ids)
                   /\ orphan' = orphan \ ids
                   /\ ledger' = [i \in Item |-> IF i \in ids THEN NoEntry ELSE ledger[i]]
    BY <1>20 DEF Remove
  <2>2. rows' \in [Item -> Row]
    BY <2>1 DEF TypeOK, Delete, GoneRow, Row, StoredStatus
  <2>3. ledger' \in [Item -> Entry] /\ orphan' \in SUBSET Item
    BY <2>1, <1>t DEF TypeOK
  <2> QED BY <1>20, <2>2, <2>3 DEF Remove, TypeOK, envVars
<1>21. CASE Configure \/ PauseOrResume \/ AttachEngine \/ Tick
  <2>1. CASE Configure
    <3>1. config' \in Config
      BY <2>1 DEF Configure, Config, Sources
    <3> QED BY <2>1, <3>1 DEF Configure, TypeOK
  <2>2. CASE PauseOrResume
    <3>1. paused' \in BOOLEAN
      BY <2>2 DEF PauseOrResume
    <3> QED BY <2>2, <3>1 DEF PauseOrResume, TypeOK
  <2>3. CASE AttachEngine
    <3>1. paused' \in BOOLEAN
      BY <2>3 DEF AttachEngine
    <3>2. recovery' \in RecoveryStates
      BY <2>3 DEF AttachEngine, RecoveryStates, TypeOK
    <3> QED BY <2>3, <3>1, <3>2 DEF AttachEngine, TypeOK
  <2>4. CASE Tick
    <3>1. now' \in Nat
      BY <2>4, <1>c DEF Tick
    <3> QED BY <2>4, <3>1 DEF Tick, TypeOK
  <2> QED BY <1>21, <2>1, <2>2, <2>3, <2>4
<1>22. CASE Crash
  <2>1. orphan' \in SUBSET Item /\ faults' \in Nat /\ config' \in Config
    BY <1>22 DEF Crash, InFlight, Fault, TypeOK
  <2>4. recovery' \in RecoveryStates
    BY <1>22 DEF Crash, RecoveryStates, TypeOK
  <2>2. ledger' \in [Item -> Entry]
    <3>1. \A i \in Item : [ledger[i] EXCEPT !.lost = @ + 1] \in Entry
      BY <1>c, <1>t, RecordTypes
    <3> QED BY <1>22, <3>1 DEF Crash, TypeOK
  <2>3. pc' \in [Caller -> PC] /\ task' \in [Caller -> [Item -> TaskStates]] /\ cyc' \in [Caller -> CycleVars]
    BY <1>22, <1>t DEF Crash, PC
  <2> QED BY <1>22, <2>1, <2>2, <2>3, <2>4 DEF Crash, TypeOK
<1>23. CASE UNCHANGED vars
  BY <1>23 DEF vars, envVars, TypeOK
<1> QED
  BY <1>1, <1>2, <1>3, <1>4, <1>5, <1>6, <1>7, <1>8, <1>9, <1>10, <1>11, <1>12, <1>13, <1>14,
     <1>15, <1>16, <1>17, <1>18, <1>19, <1>20, <1>21, <1>22, <1>23
     DEF Next, Locked, CycleStep, ItemStep, Environment

\* The engine only ever reaches well-typed states: every row has a status, a count
\* and a deadline, and every caller a place in flush (TypeOK).
THEOREM TypeCorrect == Spec => []TypeOK
BY InitTypes, StepTypes, PTL DEF Spec
-----------------------------------------------------------------------------
(***************************************************************************)
(* The mutex, the claim and the resets together keep an item off the wire  *)
(* twice and no row IN_FLIGHT for nobody.                                  *)
(***************************************************************************)

\* Whoever has an item left to finish holds the mutex.
LEMMA ActiveHoldsMutex ==
  ASSUME TypeOK, MutexHeld, TaskPhases, NEW c \in Caller, NEW i \in Item, task[c][i] \in Active
  PROVE  mutex = c
BY DEF MutexHeld, TaskPhases, Active, InCycle, TypeOK

\* What each statement does to the status of each row.
LEMMA QueueStatus ==
  ASSUME NEW q \in [Item -> Row], NEW ids, NEW id \in Item, NEW n, NEW m, NEW i \in Item
  PROVE  /\ Insert(q, ids, n)[i].status = IF i \in ids THEN "PENDING" ELSE q[i].status
         /\ Delete(q, ids)[i].status = IF i \in ids /\ i \in Stored(q) THEN "GONE" ELSE q[i].status
         /\ MarkSucceeded(q, id)[i].status = IF i = id /\ i \in Stored(q) THEN "GONE" ELSE q[i].status
         /\ MarkRetry(q, id, n, m)[i].status = IF i = id /\ i \in Stored(q) THEN "PENDING" ELSE q[i].status
         /\ MarkFailed(q, id, n)[i].status = IF i = id /\ i \in Stored(q) THEN "FAILED" ELSE q[i].status
         /\ ResetInFlight(q)[i].status = IF i \in InFlight(q) THEN "PENDING" ELSE q[i].status
         /\ MarkInFlight(q, ids)[i].status = IF i \in ids THEN "IN_FLIGHT" ELSE q[i].status
<1>1. Insert(q, ids, n)[i].status = IF i \in ids THEN "PENDING" ELSE q[i].status
  BY DEF Insert
<1>2. \A S : Delete(q, S)[i].status = IF i \in S /\ i \in Stored(q) THEN "GONE" ELSE q[i].status
  BY DEF Delete, GoneRow
<1>3. MarkSucceeded(q, id)[i].status = IF i = id /\ i \in Stored(q) THEN "GONE" ELSE q[i].status
  BY <1>2 DEF MarkSucceeded
<1>4. /\ MarkRetry(q, id, n, m)[i].status = IF i = id /\ i \in Stored(q) THEN "PENDING" ELSE q[i].status
      /\ MarkFailed(q, id, n)[i].status = IF i = id /\ i \in Stored(q) THEN "FAILED" ELSE q[i].status
  BY DEF MarkRetry, MarkFailed, UpdateStatus
<1>5. ResetInFlight(q)[i].status = IF i \in InFlight(q) THEN "PENDING" ELSE q[i].status
  BY DEF ResetInFlight, Row
<1>6. MarkInFlight(q, ids)[i].status = IF i \in ids THEN "IN_FLIGHT" ELSE q[i].status
  BY DEF MarkInFlight, Row
<1> QED BY <1>1, <1>2, <1>3, <1>4, <1>5, <1>6

\* The invariant holds initially.
LEMMA InitCore == Init => CoreInv
BY DispatcherAssumption
   DEF Init, CoreInv, MutexHeld, TaskPhases, Claimed, OrphansInFlight, InFlightAccounted,
       NoTask, NewRow, InFlight, Active, InCycle

\* Every step keeps the invariant.
LEMMA StepCore == TypeOK /\ CoreInv /\ [Next]_vars => CoreInv'
<1> SUFFICES ASSUME TypeOK, CoreInv, [Next]_vars PROVE CoreInv'
  OBVIOUS
<1> USE DispatcherAssumption
<1>i. MutexHeld /\ TaskPhases /\ Claimed /\ OrphansInFlight /\ InFlightAccounted
  BY DEF CoreInv
<1>r. rows \in [Item -> Row]
  BY DEF TypeOK
<1>x. \A c \in Caller : \A i \in Item : task[c][i] \in Active => mutex = c
  BY <1>i, ActiveHoldsMutex
\* A step that leaves rows, tasks and orphans alone only has to respect the mutex
\* and the phases.
<1>q. ASSUME UNCHANGED <<rows, task, orphan>>, MutexHeld', TaskPhases' PROVE CoreInv'
  BY <1>q, <1>i DEF CoreInv, Claimed, OrphansInFlight, InFlightAccounted, InFlight
<1>1. ASSUME NEW c \in Caller, Flush(c) \/ SkipPaused(c) \/ SkipUnavailable(c) \/ Begin(c) \/ Joined(c)
             \/ RecordResult(c) \/ EmitTerminal(c) \/ ObserveCancel(c) \/ StorageThrows(c) \/ Cancel(c)
      PROVE  CoreInv'
  <2>1. UNCHANGED <<rows, task, orphan, mutex>>
    BY <1>1 DEF Flush, SkipPaused, SkipUnavailable, Begin, Joined, RecordResult, EmitTerminal,
                ObserveCancel, StorageThrows, Cancel
  <2>2. PICK l \in PC : pc' = [pc EXCEPT ![c] = l] /\ (l \in InCycle <=> pc[c] \in InCycle)
                        /\ (\A i \in Item : task[c][i] = "wire" => l = pc[c])
                        /\ (l = "first" => cyc'[c].first = cyc[c].first)
                        /\ (\A i \in Item : task[c][i] = "todo" =>
                              l \in {"first", "rest", "release", "abortCancel", "abortError"})
    <3> USE <1>i DEF TypeOK, TaskPhases, PC, InCycle, Goto
    <3>1. CASE Flush(c)
      BY <3>1 DEF Flush
    <3>2. CASE SkipPaused(c) \/ SkipUnavailable(c)
      BY <3>2 DEF SkipPaused, SkipUnavailable
    <3>3. CASE Begin(c)
      BY <3>3 DEF Begin
    <3>4. CASE Joined(c)
      BY <3>4 DEF Joined, Active
    <3>5. CASE RecordResult(c) \/ EmitTerminal(c)
      BY <3>5 DEF RecordResult, EmitTerminal
    <3>6. CASE ObserveCancel(c)
      BY <3>6 DEF ObserveCancel
    <3>7. CASE StorageThrows(c)
      BY <3>7 DEF StorageThrows
    <3>8. CASE Cancel(c)
      <4>1. CASE pc[c] = "lock" /\ Goto(c, "idle")
        BY <4>1
      <4>2. CASE pc[c] \in InCycle /\ Locals(c, [cyc[c] EXCEPT !.cancelled = TRUE]) /\ UNCHANGED pc
        <5>1. cyc'[c].first = cyc[c].first
          BY <4>2 DEF Locals, CycleVars
        <5> QED BY <4>2, <5>1
      <4> QED BY <3>8, <4>1, <4>2 DEF Cancel
    <3> QED BY <1>1, <3>1, <3>2, <3>3, <3>4, <3>5, <3>6, <3>7, <3>8
  <2>3. MutexHeld'
    BY <2>1, <2>2, <1>i DEF MutexHeld, TypeOK
  <2>4. \A d \in Caller \ {c} : cyc'[d] = cyc[d]
    BY <1>1 DEF Flush, SkipPaused, SkipUnavailable, Begin, Joined, RecordResult, EmitTerminal,
                ObserveCancel, StorageThrows, Cancel, Locals, TypeOK
  <2>5. TaskPhases'
    BY <2>1, <2>2, <2>4, <1>i DEF TaskPhases, TypeOK
  <2> QED BY <2>1, <2>3, <2>5, <1>q
<1>2. ASSUME NEW c \in Caller, Enter(c) PROVE CoreInv'
  <2>1. UNCHANGED <<rows, task, orphan>> /\ mutex = NoCaller /\ mutex' = c /\ pc[c] = "lock"
        /\ pc' = [pc EXCEPT ![c] = "policy"] /\ \A d \in Caller \ {c} : cyc'[d] = cyc[d]
    BY <1>2 DEF Enter, ReadPolicy, Goto, Locals, TypeOK
  <2>2. MutexHeld'
    BY <2>1, <1>i DEF MutexHeld, TypeOK, InCycle
  <2>3. TaskPhases'
    BY <2>1, <1>i DEF TaskPhases, TypeOK
  <2> QED BY <2>1, <2>2, <2>3, <1>q
<1>3. ASSUME NEW c \in Caller, Claim(c) PROVE CoreInv'
  <2>1. PICK ids \in Claims(rows, cyc[c].startedAt, BatchSize) : \E f \in Probe(c, ids) :
          /\ rows' = MarkInFlight(rows, ids)
          /\ task' = [task EXCEPT ![c] = [i \in Item |-> IF i \in ids THEN "todo" ELSE "none"]]
          /\ Goto(c, CASE ids = {} -> "record" [] f # NoItem -> "first" [] OTHER -> "rest")
    BY <1>3 DEF Claim
  <2>2. ids \subseteq Item /\ \A i \in ids : rows[i].status = "PENDING"
    BY DEF Claims, Claimable, Pending
  <2>3. pc[c] = "starting" /\ UNCHANGED <<mutex, orphan>>
    BY <1>3 DEF Claim
  <2>4. mutex = c /\ \A d \in Caller \ {c} : \A i \in Item : task[d][i] \notin Active
    BY <2>3, <1>i, <1>x DEF MutexHeld, InCycle
  <2>5. PICK l \in {"record", "first", "rest"} :
          pc' = [pc EXCEPT ![c] = l] /\ (ids # {} => l \in {"first", "rest"})
    BY <2>1 DEF Goto
  <2>6. \A i \in Item : rows'[i].status = IF i \in ids THEN "IN_FLIGHT" ELSE rows[i].status
    BY <2>1, <1>r DEF MarkInFlight, Row
  <2>7. MutexHeld'
    BY <2>3, <2>5, <1>i DEF MutexHeld, TypeOK, InCycle
  <2>9. \A i \in Item : task'[c][i] = IF i \in ids THEN "todo" ELSE "none"
    BY <2>1 DEF TypeOK
  <2>10. \A d \in Caller \ {c} : task'[d] = task[d]
    BY <2>1 DEF TypeOK
  <2>8. TaskPhases'
    BY <2>2, <2>4, <2>5, <2>9, <2>10 DEF TaskPhases, TypeOK, Active
  <2>11. \A i \in ids : i \notin orphan
    BY <2>2, <1>i DEF OrphansInFlight, InFlight
  <2>12. Claimed'
    BY <2>3, <2>4, <2>6, <2>9, <2>10, <2>11 DEF Claimed, Active
  <2>13. OrphansInFlight'
    BY <2>3, <2>6, <1>i DEF OrphansInFlight, InFlight
  <2>14. InFlightAccounted'
    <3>1. \A i \in Item : task[c][i] \notin Active
      BY <2>3, <1>i DEF TaskPhases, Active
    <3>2. \A i \in Item \ ids : rows'[i].status = "IN_FLIGHT" => i \in orphan
      BY <2>4, <2>6, <3>1, <1>i DEF InFlightAccounted, InFlight
    <3> QED BY <2>3, <2>9, <3>2 DEF InFlightAccounted, InFlight, Active
  <2> QED BY <2>7, <2>8, <2>12, <2>13, <2>14 DEF CoreInv
<1>4. ASSUME NEW c \in Caller, NEW i \in Item, StartItem(c, i) PROVE CoreInv'
  <2>1. /\ task[c][i] = "todo" /\ pc[c] \in {"first", "rest"}
        /\ task' = [task EXCEPT ![c][i] = "wire"]
        /\ pc[c] = "first" => i = cyc[c].first
        /\ UNCHANGED <<rows, orphan, pc, mutex, cyc>>
    BY <1>4 DEF StartItem, MayStart
  <2>2. \A d \in Caller : \A j \in Item :
          task'[d][j] = IF d = c /\ j = i THEN "wire" ELSE task[d][j]
    BY <2>1 DEF TypeOK
  <2>3. \A d \in Caller : \A j \in Item : task'[d][j] \in Active <=> task[d][j] \in Active
    BY <2>1, <2>2 DEF Active
  <2>4. MutexHeld' /\ TaskPhases'
    BY <2>1, <2>2, <1>i DEF MutexHeld, TaskPhases
  <2>5. Claimed' /\ OrphansInFlight' /\ InFlightAccounted'
    BY <2>1, <2>3, <1>i DEF Claimed, OrphansInFlight, InFlightAccounted, InFlight
  <2> QED BY <2>4, <2>5 DEF CoreInv
\* Recording an outcome: the item stops being active, and its row leaves IN_FLIGHT
\* or becomes an orphan.
<1>e. ASSUME NEW c \in Caller, NEW i \in Item, NEW r \in {"done", "held"}, NEW q,
             task[c][i] = "wire" \/ (MayStart(c, i) /\ r = "done"),
             EndItem(c, i, r, q),
             \A j \in Item \ {i} : q[j].status = rows[j].status,
             \/ q[i].status # "IN_FLIGHT" /\ UNCHANGED orphan
             \/ q[i].status = "IN_FLIGHT" /\ orphan' = orphan \cup {i}
      PROVE  CoreInv'
  <2>0. task[c][i] \in Active /\ pc[c] \in {"first", "rest"}
        /\ (r = "held" => task[c][i] = "wire")
    BY <1>e, <1>i DEF MayStart, Active, TaskPhases
  <2>1. rows' = q /\ task' = [task EXCEPT ![c][i] = r] /\ UNCHANGED <<mutex, cyc>>
        /\ pc' = [pc EXCEPT ![c] = AfterItem(c, r)]
    BY <1>e DEF EndItem, Goto
  <2>2. \A d \in Caller : \A j \in Item : task'[d][j] = IF d = c /\ j = i THEN r ELSE task[d][j]
    BY <2>1 DEF TypeOK
  <2>3. r \notin Active
    BY DEF Active
  <2>4. AfterItem(c, r) \in {"release", "rest"} /\ (AfterItem(c, r) = "release" => pc[c] = "first" /\ r = "held")
    BY <2>0, <1>e DEF AfterItem
  <2>5. MutexHeld'
    BY <2>0, <2>1, <2>4, <1>i DEF MutexHeld, TypeOK, InCycle
  <2>6. TaskPhases'
    <3>1. ASSUME NEW d \in Caller \ {c}, NEW j \in Item PROVE task'[d][j] = task[d][j] /\ pc'[d] = pc[d]
      BY <2>1, <2>2 DEF TypeOK
    <3>2. pc'[c] = AfterItem(c, r)
      BY <2>1 DEF TypeOK
    <3>3. ASSUME NEW j \in Item, task'[c][j] = "wire" PROVE pc'[c] = "rest"
      <4>1. j # i /\ task[c][j] = "wire"
        BY <2>2, <3>3
      <4>2. CASE pc[c] = "rest"
        BY <4>2, <3>2 DEF AfterItem
      <4>3. CASE pc[c] = "first"
        <5>1. task[c][i] # "wire"
          BY <4>1, <4>3, <1>i DEF TaskPhases
        <5> QED BY <5>1, <4>3, <2>0, <3>2 DEF AfterItem
      <4> QED BY <4>2, <4>3, <2>0
    <3> QED BY <3>1, <3>2, <3>3, <2>1, <2>2, <2>4, <1>i DEF TaskPhases
  <2>7. \A d \in Caller : task[d][i] \in Active => d = c
    BY <1>x, <2>0
  <2>8. i \notin orphan
    BY <2>0, <1>i DEF Claimed
  <2>9. Claimed'
    BY <2>1, <2>2, <2>3, <2>7, <1>e, <1>i DEF Claimed
  <2>10. OrphansInFlight'
    BY <2>1, <2>8, <1>e, <1>i DEF OrphansInFlight, InFlight
  <2>11. InFlightAccounted'
    BY <2>1, <2>2, <1>e, <1>i DEF InFlightAccounted, InFlight
  <2> QED BY <2>5, <2>6, <2>9, <2>10, <2>11 DEF CoreInv
<1>w. ASSUME NEW c \in Caller, NEW i \in Item, task[c][i] \in Active
      PROVE  rows[i].status \in {"IN_FLIGHT", "GONE"} /\ (rows[i].status = "IN_FLIGHT" => i \in Stored(rows))
  BY <1>w, <1>i DEF Claimed, Stored, StoredStatus
<1>5. ASSUME NEW c \in Caller, NEW i \in Item, FailExhausted(c, i) PROVE CoreInv'
  <2>1. MayStart(c, i) /\ task[c][i] \in Active /\ UNCHANGED orphan
    BY <1>5 DEF FailExhausted, MayStart, Active
  <2>2. \A j \in Item : MarkFailed(rows, i, cyc[c].seen[i])[j].status
                         = IF j = i /\ j \in Stored(rows) THEN "FAILED" ELSE rows[j].status
    BY <1>r, QueueStatus
  <2> QED BY <1>5, <1>e, <1>w, <2>1, <2>2 DEF FailExhausted
<1>6. ASSUME NEW c \in Caller, NEW i \in Item, FailTerminally(c, i) PROVE CoreInv'
  <2>1. task[c][i] = "wire" /\ task[c][i] \in Active /\ UNCHANGED orphan
    BY <1>6 DEF FailTerminally, Active
  <2>2. \A j \in Item : MarkFailed(rows, i, cyc[c].seen[i] + 1)[j].status
                         = IF j = i /\ j \in Stored(rows) THEN "FAILED" ELSE rows[j].status
    BY <1>r DEF MarkFailed, UpdateStatus
  <2> QED BY <1>6, <1>e, <1>w, <2>1, <2>2 DEF FailTerminally
<1>7. ASSUME NEW c \in Caller, NEW i \in Item, Succeed(c, i) PROVE CoreInv'
  <2>1. task[c][i] = "wire" /\ task[c][i] \in Active /\ UNCHANGED orphan
    BY <1>7 DEF Succeed, Active
  <2>2. \A j \in Item : MarkSucceeded(rows, i)[j].status
                         = IF j = i /\ j \in Stored(rows) THEN "GONE" ELSE rows[j].status
    BY <1>r, QueueStatus
  <2> QED BY <1>7, <1>e, <1>w, <2>1, <2>2 DEF Succeed
<1>8. ASSUME NEW c \in Caller, NEW i \in Item, Reschedule(c, i) \/ HoldForCredentialRenewal(c, i)
      PROVE  CoreInv'
  <2>1. task[c][i] = "wire" /\ task[c][i] \in Active /\ UNCHANGED orphan
    BY <1>8 DEF Reschedule, HoldForCredentialRenewal, Active
  <2>2. \A n, m : \A j \in Item : MarkRetry(rows, i, n, m)[j].status
                         = IF j = i /\ j \in Stored(rows) THEN "PENDING" ELSE rows[j].status
    BY <1>r, QueueStatus
  <2>3. PICK r \in {"done", "held"} : \E n, m : EndItem(c, i, r, MarkRetry(rows, i, n, m))
    BY <1>8 DEF Reschedule, HoldForCredentialRenewal
  <2>4. PICK n, m : EndItem(c, i, r, MarkRetry(rows, i, n, m))
    BY <2>3
  <2> QED BY <1>e, <1>w, <2>1, <2>2, <2>4
<1>9. ASSUME NEW c \in Caller, NEW i \in Item, LoseOutcome(c, i) PROVE CoreInv'
  <2>1. task[c][i] = "wire" \/ MayStart(c, i)
    BY <1>9 DEF LoseOutcome
  <2>2. EndItem(c, i, "done", rows) /\ orphan' = orphan \cup ({i} \cap InFlight(rows))
    BY <1>9 DEF LoseOutcome
  <2>3. \/ rows[i].status # "IN_FLIGHT" /\ UNCHANGED orphan
        \/ rows[i].status = "IN_FLIGHT" /\ orphan' = orphan \cup {i}
    BY <2>2 DEF InFlight
  <2> QED BY <1>e, <2>1, <2>2, <2>3
\* Resetting every IN_FLIGHT row is safe when nobody has an item on the wire and
\* the claimed ones are forgotten.
<1>z. ASSUME rows' = ResetInFlight(rows), orphan' = {}, MutexHeld',
             \A d \in Caller : \A j \in Item : task'[d][j] \notin Active
      PROVE  CoreInv'
  <2>1. \A j \in Item : rows'[j].status # "IN_FLIGHT"
    BY <1>z, <1>r, QueueStatus DEF InFlight
  <2>2. TaskPhases' /\ Claimed'
    BY <1>z DEF TaskPhases, Claimed, Active
  <2>3. OrphansInFlight' /\ InFlightAccounted'
    BY <1>z, <2>1 DEF OrphansInFlight, InFlightAccounted, InFlight
  <2> QED BY <1>z, <2>2, <2>3 DEF CoreInv
\* Dropping the claimed but unstarted items of the mutex holder, none on the wire.
<1>u. ASSUME NEW c \in Caller, pc[c] \in {"release", "abortCancel", "abortError"},
             task' = [task EXCEPT ![c] = Unstarted(c)]
      PROVE  \A d \in Caller : \A j \in Item : task'[d][j] \notin Active
  <2>1. mutex = c
    BY <1>u, <1>i DEF MutexHeld, InCycle
  <2>2. \A j \in Item : task[c][j] # "wire"
    BY <1>u, <1>i DEF TaskPhases
  <2>3. \A j \in Item : task'[c][j] = IF task[c][j] = "todo" THEN "none" ELSE task[c][j]
    BY <1>u DEF Unstarted, TypeOK
  <2>4. \A d \in Caller \ {c} : task'[d] = task[d]
    BY <1>u DEF TypeOK
  <2> QED BY <2>1, <2>2, <2>3, <2>4, <1>x DEF Active
<1>10. ASSUME NEW c \in Caller, Release(c) \/ AbortCancelled(c) PROVE CoreInv'
  <2>1. /\ pc[c] \in {"release", "abortCancel"} /\ UNCHANGED mutex
        /\ rows' = ResetInFlight(rows) /\ orphan' = {}
        /\ task' = [task EXCEPT ![c] = Unstarted(c)]
        /\ pc' = [pc EXCEPT ![c] = "record"] \/ pc' = [pc EXCEPT ![c] = "finish"]
    BY <1>10 DEF Release, AbortCancelled, Goto
  <2>2. MutexHeld'
    BY <2>1, <1>i DEF MutexHeld, TypeOK, InCycle
  <2> QED BY <2>1, <2>2, <1>u, <1>z
<1>11. ASSUME NEW c \in Caller, AbortUnreleased(c) PROVE CoreInv'
  <2>1. /\ pc[c] \in {"abortError", "abortCancel"} /\ UNCHANGED <<rows, mutex>>
        /\ orphan' = orphan \cup {i \in InFlight(rows) : task[c][i] = "todo"}
        /\ task' = [task EXCEPT ![c] = Unstarted(c)]
        /\ pc' = [pc EXCEPT ![c] = "finish"]
    BY <1>11 DEF AbortUnreleased, Goto
  <2>2. \A d \in Caller : \A j \in Item : task'[d][j] \notin Active
    BY <2>1, <1>u
  <2>3. MutexHeld'
    BY <2>1, <1>i DEF MutexHeld, TypeOK, InCycle
  <2>4. TaskPhases' /\ Claimed'
    BY <2>2 DEF TaskPhases, Claimed, Active
  <2>5. OrphansInFlight'
    BY <2>1, <1>i DEF OrphansInFlight, InFlight
  <2>6. mutex = c /\ \A i \in Item : task[c][i] # "wire"
    BY <2>1, <1>i DEF MutexHeld, InCycle, TaskPhases
  <2>7. InFlightAccounted'
    <3>1. ASSUME NEW i \in InFlight(rows) PROVE i \in orphan'
      <4>1. i \in orphan \/ \E d \in Caller : task[d][i] \in Active
        BY <1>i DEF InFlightAccounted
      <4>2. i \in Item
        BY DEF InFlight
      <4>3. \A d \in Caller : task[d][i] \in Active => d = c /\ task[c][i] = "todo"
        BY <1>x, <2>6, <4>2 DEF Active
      <4> QED BY <2>1, <4>1, <4>3
    <3> QED BY <2>1, <3>1 DEF InFlightAccounted, InFlight
  <2> QED BY <2>3, <2>4, <2>5, <2>7 DEF CoreInv
<1>12. ASSUME NEW c \in Caller, Finish(c) PROVE CoreInv'
  <2>1. /\ pc[c] = "finish" /\ mutex' = NoCaller /\ task' = [task EXCEPT ![c] = NoTask]
        /\ pc' = [pc EXCEPT ![c] = "idle"] /\ UNCHANGED <<rows, orphan>>
    BY <1>12 DEF Finish, Goto
  <2>2. mutex = c /\ \A i \in Item : task[c][i] \notin Active
    BY <2>1, <1>i DEF MutexHeld, InCycle, TaskPhases, Active
  <2>3. \A d \in Caller : \A i \in Item : task[d][i] \notin Active
    BY <1>x, <2>2
  <2>4. \A d \in Caller : \A i \in Item : task'[d][i] \notin Active
    BY <2>1, <2>3 DEF NoTask, Active, TypeOK
  <2>5. MutexHeld'
    BY <2>1, <2>2, <1>i DEF MutexHeld, TypeOK, InCycle
  <2>6. TaskPhases' /\ Claimed'
    BY <2>4 DEF TaskPhases, Claimed, Active
  <2>7. OrphansInFlight' /\ InFlightAccounted'
    BY <2>1, <2>3, <1>i DEF OrphansInFlight, InFlightAccounted, InFlight
  <2> QED BY <2>5, <2>6, <2>7 DEF CoreInv
<1>13. CASE RecoveryWorker \/ SyncWorkerReset
  <2>1. /\ mutex = NoCaller /\ rows' = ResetInFlight(rows) /\ orphan' = {}
        /\ UNCHANGED <<mutex, pc, task>>
    BY <1>13 DEF RecoveryWorker, SyncWorkerReset, ResetUnderMutex
  <2>2. \A d \in Caller : \A j \in Item : task[d][j] \notin Active
    BY <2>1, <1>x
  <2>3. MutexHeld'
    BY <2>1, <1>i DEF MutexHeld
  <2> QED BY <2>1, <2>2, <2>3, <1>z
<1>14. CASE Enqueue
  <2>1. PICK ids \in SUBSET {i \in Item : rows[i].status = "NEW"} : rows' = Insert(rows, ids, now)
    BY <1>14 DEF Enqueue
  <2>2. UNCHANGED <<mutex, pc, task, cyc, orphan>>
    BY <1>14 DEF Enqueue
  <2>3. \A j \in Item : /\ rows'[j].status = "IN_FLIGHT" <=> rows[j].status = "IN_FLIGHT"
                        /\ rows[j].status = "GONE" => rows'[j].status = "GONE"
    <3>1. \A j \in Item : rows'[j].status = IF j \in ids THEN "PENDING" ELSE rows[j].status
      BY <2>1, <1>r DEF Insert
    <3> QED BY <2>1, <3>1
  <2>4. MutexHeld' /\ TaskPhases'
    BY <2>2, <1>i DEF MutexHeld, TaskPhases
  <2>5. Claimed' /\ OrphansInFlight' /\ InFlightAccounted'
    BY <2>2, <2>3, <1>i DEF Claimed, OrphansInFlight, InFlightAccounted, InFlight
  <2> QED BY <2>4, <2>5 DEF CoreInv
<1>15. CASE Remove
  <2>1. PICK ids \in {{i} : i \in Stored(rows)} \cup {Stored(rows)} :
          rows' = Delete(rows, ids) /\ orphan' = orphan \ ids
    BY <1>15 DEF Remove
  <2>2. UNCHANGED <<mutex, pc, task, cyc>>
    BY <1>15 DEF Remove
  <2>3. \A j \in Item : rows'[j].status = IF j \in ids THEN "GONE" ELSE rows[j].status
    <3>1. \A j \in Item : rows'[j].status = IF j \in ids /\ j \in Stored(rows) THEN "GONE" ELSE rows[j].status
      BY <2>1, <1>r, QueueStatus
    <3> QED BY <2>1, <3>1
  <2>4. MutexHeld' /\ TaskPhases'
    BY <2>2, <1>i DEF MutexHeld, TaskPhases
  <2>5. Claimed' /\ OrphansInFlight' /\ InFlightAccounted'
    BY <2>1, <2>2, <2>3, <1>i DEF Claimed, OrphansInFlight, InFlightAccounted, InFlight
  <2> QED BY <2>4, <2>5 DEF CoreInv
<1>16. CASE Configure \/ PauseOrResume \/ AttachEngine \/ Tick \/ RecoveryEnds \/ UNCHANGED vars
  <2>1. UNCHANGED <<rows, mutex, pc, task, cyc, orphan>>
    BY <1>16 DEF Configure, PauseOrResume, AttachEngine, Tick, RecoveryEnds, vars
  <2>2. MutexHeld' /\ TaskPhases'
    BY <2>1, <1>i DEF MutexHeld, TaskPhases
  <2> QED BY <2>1, <2>2, <1>q
<1>17. CASE Crash
  <2>1. /\ mutex' = NoCaller /\ pc' = [c \in Caller |-> "idle"] /\ task' = [c \in Caller |-> NoTask]
        /\ orphan' = InFlight(rows) /\ UNCHANGED rows
    BY <1>17 DEF Crash
  <2>2. \A d \in Caller : \A j \in Item : task'[d][j] \notin Active
    BY <2>1 DEF NoTask, Active
  <2>3. MutexHeld'
    BY <2>1 DEF MutexHeld, InCycle
  <2>4. TaskPhases' /\ Claimed'
    BY <2>2 DEF TaskPhases, Claimed, Active
  <2>5. OrphansInFlight' /\ InFlightAccounted'
    BY <2>1 DEF OrphansInFlight, InFlightAccounted, InFlight
  <2> QED BY <2>3, <2>4, <2>5 DEF CoreInv
<1> QED
  BY <1>1, <1>2, <1>3, <1>4, <1>5, <1>6, <1>7, <1>8, <1>9, <1>10, <1>11, <1>12, <1>13, <1>14,
     <1>15, <1>16, <1>17
     DEF Next, Locked, CycleStep, ItemStep, Environment

\* The mutex, phase, claim and orphan facts hold in every reachable state.
THEOREM CoreCorrect == Spec => []CoreInv
BY InitCore, StepCore, TypeCorrect, PTL DEF Spec

\* No item is ever on the wire twice at once, nor claimable while it is on the wire
\* (WireExclusive): flushMutex, claimPending and the resets under the mutex together.
THEOREM WireExclusiveHolds == Spec => []WireExclusive
<1>1. TypeOK /\ CoreInv => WireExclusive
  <2> SUFFICES ASSUME TypeOK, CoreInv, NEW c \in Caller, NEW i \in Item, task[c][i] = "wire"
               PROVE  /\ rows[i].status \in {"IN_FLIGHT", "GONE"}
                      /\ \A d \in Caller \ {c} : task[d][i] \notin Active
    BY DEF WireExclusive
  <2>1. task[c][i] \in Active /\ MutexHeld /\ TaskPhases /\ Claimed
    BY DEF Active, CoreInv
  <2>2. \A d \in Caller : task[d][i] \in Active => mutex = d
    BY <2>1, ActiveHoldsMutex
  <2> QED BY <2>1, <2>2 DEF Claimed
<1> QED BY <1>1, TypeCorrect, CoreCorrect, PTL

\* A row is IN_FLIGHT only for a running dispatch or because a fault left it behind
\* (InFlightAccounted): cancelled and credential-rejected cycles strand nothing.
THEOREM InFlightAccountedHolds == Spec => []InFlightAccounted
<1>1. CoreInv => InFlightAccounted
  BY DEF CoreInv
<1> QED BY <1>1, CoreCorrect, PTL
-----------------------------------------------------------------------------
(***************************************************************************)
(* What a step leaves alone.                                               *)
(***************************************************************************)

\* Steps that move one caller on and write no row, no task and no snapshot.
Quiet(c) ==
  \/ Flush(c) \/ SkipPaused(c) \/ SkipUnavailable(c) \/ Joined(c) \/ RecordResult(c)
  \/ EmitTerminal(c) \/ ObserveCancel(c) \/ StorageThrows(c) \/ Cancel(c)

\* What a cycle read is still what it read.
SameSnapshot(d) ==
  /\ cyc'[d].cred = cyc[d].cred /\ cyc'[d].options = cyc[d].options
  /\ cyc'[d].startedAt = cyc[d].startedAt
  /\ cyc'[d].first = cyc[d].first /\ cyc'[d].seen = cyc[d].seen

\* A quiet step touches neither the queue nor anybody's snapshot.
LEMMA QuietKeeps ==
  ASSUME TypeOK, NEW c \in Caller, Quiet(c)
  PROVE  UNCHANGED <<rows, task, ledger, now, config>> /\ \A d \in Caller : SameSnapshot(d)
<1>1. UNCHANGED <<rows, task, ledger, now, config>>
  BY DEF Quiet, Flush, SkipPaused, SkipUnavailable, Joined, RecordResult, EmitTerminal,
         ObserveCancel, StorageThrows, Cancel, envVars
<1>2. CASE UNCHANGED cyc
  BY <1>1, <1>2 DEF SameSnapshot
<1>3. CASE RecordResult(c) \/ EmitTerminal(c) \/ Cancel(c)
  <2>1. \/ UNCHANGED cyc
        \/ Locals(c, [cyc[c] EXCEPT !.terminal = TRUE])
        \/ Locals(c, [cyc[c] EXCEPT !.closed = TRUE])
        \/ Locals(c, [cyc[c] EXCEPT !.cancelled = TRUE])
    BY <1>3 DEF RecordResult, EmitTerminal, Cancel
  <2>2. cyc \in [Caller -> CycleVars]
    BY DEF TypeOK
  <2> QED BY <1>1, <2>1, <2>2 DEF Locals, SameSnapshot, CycleVars
<1> QED BY <1>2, <1>3 DEF Quiet, Flush, SkipPaused, SkipUnavailable, Joined, ObserveCancel, StorageThrows

\* Emitting a SYNC_FAILED changes no snapshot either.
LEMMA EmitKeeps ==
  ASSUME TypeOK, NEW c \in Caller, EmitFailed(c)
  PROVE  \A d \in Caller : SameSnapshot(d)
BY DEF EmitFailed, Locals, SameSnapshot, TypeOK, CycleVars

\* What recording an outcome does to the tasks and the rows of the other items.
LEMMA EndItemKeeps ==
  ASSUME TypeOK, NEW c \in Caller, NEW i \in Item, NEW r, NEW q, EndItem(c, i, r, q)
  PROVE  /\ rows' = q /\ UNCHANGED <<now, config, mutex, cyc>>
         /\ pc' = [pc EXCEPT ![c] = AfterItem(c, r)]
         /\ \A d \in Caller, j \in Item : task'[d][j] = IF d = c /\ j = i THEN r ELSE task[d][j]
BY DEF EndItem, Goto, TypeOK

\* Note writes the history of one item.
LEMMA NoteKeeps ==
  ASSUME TypeOK, NEW i \in Item, NEW e, Note(i, e)
  PROVE  \A j \in Item : ledger'[j] = IF j = i THEN (IF i \in Stored(rows) THEN e ELSE NoEntry) ELSE ledger[j]
BY DEF Note, TypeOK

\* An item some cycle has still to finish belongs to that cycle alone, and its row
\* is IN_FLIGHT or gone.
LEMMA ActiveAlone ==
  ASSUME TypeOK, CoreInv, NEW c \in Caller, NEW i \in Item, task[c][i] \in Active
  PROVE  /\ \A d \in Caller : task[d][i] \in Active => d = c
         /\ rows[i].status \in {"IN_FLIGHT", "GONE"}
         /\ i \in Stored(rows) <=> rows[i].status = "IN_FLIGHT"
<1>1. MutexHeld /\ TaskPhases /\ Claimed
  BY DEF CoreInv
<1>2. \A d \in Caller : task[d][i] \in Active => mutex = d
  BY <1>1, ActiveHoldsMutex
<1> QED BY <1>1, <1>2 DEF Claimed, Stored, StoredStatus

\* Whoever is outside the phases that hold items has none, and neither has anybody
\* else while it is inside a cycle.
LEMMA NobodyActive ==
  ASSUME TypeOK, CoreInv, NEW c \in Caller,
         pc[c] \in {"policy", "starting", "record", "emit", "finish"}
  PROVE  \A d \in Caller, i \in Item : task[d][i] \notin Active
<1>1. MutexHeld /\ TaskPhases
  BY DEF CoreInv
<1>2. mutex = c
  BY <1>1 DEF MutexHeld, InCycle
<1>3. \A i \in Item : task[c][i] \notin Active
  BY <1>1 DEF TaskPhases, Active
<1> QED BY <1>1, <1>2, <1>3, ActiveHoldsMutex
-----------------------------------------------------------------------------
(***************************************************************************)
(* The attempts a row counts, and the budget they are held against.        *)
(***************************************************************************)

\* What AccountInv says of one item.
Accounted(i) ==
  /\ rows[i].status = "NEW" => ledger[i] = NoEntry
  /\ i \in Stored(rows) =>
       /\ \A c \in Caller : task[c][i] \in Active => cyc[c].seen[i] = rows[i].attempts
       /\ \A c \in Caller : task[c][i] = "wire" => rows[i].attempts < cyc[c].options.budget
       /\ \E b \in Budgets : rows[i].attempts <= b
       /\ ledger[i].tries = rows[i].attempts + ledger[i].held + ledger[i].lost
                            + (IF Sending(i) THEN 1 ELSE 0)

\* AccountInv, one item at a time.
LEMMA AccountPerItem ==
  /\ AccountInv <=> \A i \in Item : Accounted(i)
  /\ AccountInv' <=> \A i \in Item : Accounted(i)'
BY DEF AccountInv, SeenFresh, NoHistoryYet, AttemptsAccounted, BudgetKept, Accounted, Stored, Sending

\* The invariant holds initially.
LEMMA InitAccount == Init => AccountInv
BY DEF Init, NewRow, NoTask, AccountInv, SeenFresh, NoHistoryYet, AttemptsAccounted, BudgetKept, Stored, StoredStatus

\* An item keeps its account in a step that keeps its row, its history and whether it
\* is being sent, and starts nothing.
LEMMA AccountFrame ==
  ASSUME NEW i \in Item, Accounted(i),
         rows'[i].attempts = rows[i].attempts, ledger'[i] = ledger[i],
         i \in Stored(rows)' <=> i \in Stored(rows),
         rows'[i].status = "NEW" <=> rows[i].status = "NEW",
         Sending(i)' <=> Sending(i),
         \A d \in Caller : task'[d][i] \in Active =>
           /\ task[d][i] \in Active /\ cyc'[d].seen = cyc[d].seen
           /\ task'[d][i] = "wire" => task[d][i] = "wire" /\ cyc'[d].options = cyc[d].options
  PROVE  Accounted(i)'
<1>1. CASE i \in Stored(rows)
  <2>1. \A d \in Caller : task'[d][i] \in Active => cyc'[d].seen[i] = rows'[i].attempts
    BY <1>1 DEF Accounted
  <2>2. \A d \in Caller : task'[d][i] = "wire" => rows'[i].attempts < cyc'[d].options.budget
    BY <1>1 DEF Accounted, Active
  <2>3. rows'[i].status # "NEW"
    BY <1>1 DEF Stored, StoredStatus
  <2> QED BY <1>1, <2>1, <2>2, <2>3 DEF Accounted
<1>2. CASE i \notin Stored(rows)
  BY <1>2 DEF Accounted
<1> QED BY <1>1, <1>2

\* A step that leaves a deleted row, or none at all, has nothing to account for.
LEMMA AccountGone ==
  ASSUME NEW i \in Item, rows'[i].status = "GONE"
  PROVE  Accounted(i)'
BY DEF Accounted, Stored, StoredStatus

\* Every step keeps every account.
LEMMA StepAccount == TypeOK /\ CoreInv /\ AccountInv /\ [Next]_vars => AccountInv'
<1> SUFFICES ASSUME TypeOK, CoreInv, AccountInv, [Next]_vars PROVE \A i \in Item : Accounted(i)'
  BY AccountPerItem
<1> USE DispatcherAssumption
<1>a. \A i \in Item : Accounted(i)
  BY AccountPerItem
<1>r. rows \in [Item -> Row] /\ \A i \in Item : ledger[i] \in Entry /\ rows[i].attempts \in Nat
  BY DEF TypeOK, Row
<1>o. \A c \in Caller : cyc[c].options.budget \in Budgets /\ cyc[c].options.budget \in Nat
  BY DEF TypeOK, CycleVars, Config
<1>s. \A c \in Caller, i \in Item : cyc[c].seen[i] \in Nat
  BY DEF TypeOK, CycleVars
<1>n. ASSUME mutex = NoCaller PROVE \A c \in Caller, i \in Item : task[c][i] \notin Active
  BY <1>n, ActiveHoldsMutex DEF CoreInv
\* A step in which the tasks and the history are as they were, and no snapshot of a
\* cycle that has items changes.
<1>f. ASSUME UNCHANGED <<rows, task, ledger>>,
             \A c \in Caller : SameSnapshot(c) \/ \A i \in Item : task[c][i] \notin Active
      PROVE  \A i \in Item : Accounted(i)'
  <2> SUFFICES ASSUME NEW i \in Item PROVE Accounted(i)'
    OBVIOUS
  <2>1. Sending(i)' <=> Sending(i)
    BY <1>f DEF Sending
  <2>2. \A d \in Caller : task'[d][i] \in Active =>
          task[d][i] \in Active /\ cyc'[d].seen = cyc[d].seen /\ cyc'[d].options = cyc[d].options
    BY <1>f DEF SameSnapshot
  <2>3. \A d \in Caller : task'[d][i] \in Active =>
          /\ task[d][i] \in Active /\ cyc'[d].seen = cyc[d].seen
          /\ task'[d][i] = "wire" => task[d][i] = "wire" /\ cyc'[d].options = cyc[d].options
    BY <1>f, <2>2
  <2>4. i \in Stored(rows)' <=> i \in Stored(rows)
    BY <1>f
  <2> QED BY <1>a, <1>f, <2>1, <2>3, <2>4, AccountFrame
<1>1. ASSUME NEW c \in Caller, Quiet(c) PROVE \A i \in Item : Accounted(i)'
  BY <1>1, <1>f, QuietKeeps
<1>2. ASSUME NEW c \in Caller, Enter(c) \/ Begin(c) PROVE \A i \in Item : Accounted(i)'
  <2>1. UNCHANGED <<rows, task, ledger>>
    BY <1>2 DEF Enter, ReadPolicy, Begin
  <2>2. \A d \in Caller, i \in Item : task[d][i] \notin Active
    BY <1>2, <1>n, NobodyActive DEF Enter, Begin
  <2> QED BY <1>f, <2>1, <2>2
<1>3. ASSUME NEW c \in Caller, Claim(c), NEW i \in Item PROVE Accounted(i)'
  <2>1. PICK ids \in Claims(rows, cyc[c].startedAt, BatchSize) : \E f \in Probe(c, ids) :
          /\ rows' = MarkInFlight(rows, ids)
          /\ task' = [task EXCEPT ![c] = [j \in Item |-> IF j \in ids THEN "todo" ELSE "none"]]
          /\ Locals(c, [cyc[c] EXCEPT !.first = f, !.seen = [j \in Item |-> rows[j].attempts]])
    BY <1>3 DEF Claim
  <2>2. ids \subseteq Item /\ \A j \in ids : rows[j].status = "PENDING"
    BY DEF Claims, Claimable, Pending
  <2>3. pc[c] = "starting" /\ UNCHANGED ledger
    BY <1>3 DEF Claim
  <2>4. \A d \in Caller, j \in Item : task[d][j] \notin Active
    BY <2>3, NobodyActive
  <2>5. /\ rows'[i].attempts = rows[i].attempts
        /\ rows'[i].status = IF i \in ids THEN "IN_FLIGHT" ELSE rows[i].status
    BY <2>1, <1>r DEF MarkInFlight, Row
  <2>6. (rows'[i].status = "NEW" => rows[i].status = "NEW") /\ (i \in Stored(rows') => i \in Stored(rows))
    BY <2>2, <2>5 DEF Stored, StoredStatus
  <2>7. \A d \in Caller : task'[d][i] # "wire" /\ (task'[d][i] \in Active => d = c)
    BY <2>1, <2>4 DEF TypeOK, Active
  <2>8. cyc'[c].seen[i] = rows[i].attempts
    BY <2>1 DEF Locals, TypeOK, CycleVars
  <2>9. ~Sending(i) /\ ~Sending(i)'
    BY <2>4, <2>7 DEF Sending, Active
  <2> QED BY <1>a, <2>3, <2>5, <2>6, <2>7, <2>8, <2>9 DEF Accounted
<1>4. ASSUME NEW c \in Caller, NEW k \in Item, StartItem(c, k), NEW i \in Item PROVE Accounted(i)'
  <2>1. /\ task[c][k] = "todo" /\ cyc[c].seen[k] < cyc[c].options.budget
        /\ task' = [task EXCEPT ![c][k] = "wire"] /\ UNCHANGED <<rows, cyc>>
        /\ Note(k, [ledger[k] EXCEPT !.tries = @ + 1])
    BY <1>4, <1>o, <1>s DEF StartItem, MayStart, Exhausted
  <2>2. /\ \A d \in Caller, j \in Item : task'[d][j] = IF d = c /\ j = k THEN "wire" ELSE task[d][j]
        /\ \A j \in Item : ledger'[j] = IF j = k THEN (IF k \in Stored(rows) THEN [ledger[k] EXCEPT !.tries = @ + 1] ELSE NoEntry)
                                                 ELSE ledger[j]
    BY <2>1, NoteKeeps DEF TypeOK
  <2>3. task[c][k] \in Active
    BY <2>1 DEF Active
  <2>4. CASE i # k
    <3>1. Sending(i)' <=> Sending(i)
      BY <2>2, <2>4 DEF Sending
    <3>2. i \in Stored(rows)' <=> i \in Stored(rows)
      BY <2>1
    <3> QED BY <1>a, <2>1, <2>2, <2>4, <3>1, <3>2, AccountFrame
  <2>5. CASE i = k /\ i \notin Stored(rows)
    BY <2>1, <2>3, <2>5, ActiveAlone, AccountGone
  <2>6. CASE i = k /\ i \in Stored(rows)
    <3>1. ~Sending(i) /\ Sending(i)'
      BY <2>1, <2>2, <2>3, <2>6, ActiveAlone DEF Sending, Active
    <3>2. /\ ledger'[i].tries = ledger[i].tries + 1
          /\ ledger'[i].held = ledger[i].held /\ ledger'[i].lost = ledger[i].lost
      BY <1>r, <2>2, <2>6 DEF Entry
    <3>3. ledger[i].tries \in Nat /\ ledger[i].held \in Nat /\ ledger[i].lost \in Nat
      BY <1>r DEF Entry
    <3>4. ledger'[i].tries = rows'[i].attempts + ledger'[i].held + ledger'[i].lost + (IF Sending(i)' THEN 1 ELSE 0)
      BY <1>a, <1>r, <2>1, <2>6, <3>1, <3>2, <3>3 DEF Accounted
    <3>5. \A d \in Caller : task'[d][i] \in Active => d = c /\ cyc'[d].seen[i] = rows'[i].attempts
      BY <1>a, <2>1, <2>2, <2>3, <2>6, ActiveAlone DEF Accounted
    <3>6. rows'[i].attempts < cyc'[c].options.budget /\ \E b \in Budgets : rows'[i].attempts <= b
      BY <1>a, <2>1, <2>3, <2>6 DEF Accounted
    <3>7. rows'[i].status # "NEW"
      BY <2>1, <2>6 DEF Stored, StoredStatus
    <3>8. \A d \in Caller : task'[d][i] = "wire" => d = c
      BY <3>5 DEF Active
    <3> QED BY <3>4, <3>5, <3>6, <3>7, <3>8 DEF Accounted
  <2> QED BY <2>4, <2>5, <2>6
\* Recording an outcome: the other items are left alone, and the recorded one ends
\* with a row, if it has one, that counts what was dispatched.
<1>e. ASSUME NEW c \in Caller, NEW k \in Item, NEW res \in {"done", "held"}, NEW q,
             task[c][k] \in Active, EndItem(c, k, res, q),
             \A j \in Item \ {k} : q[j] = rows[j] /\ ledger'[j] = ledger[j],
             k \notin Stored(rows) => q[k] = rows[k],
             k \in Stored(rows) =>
               \/ q[k].status = "GONE"
               \/ /\ q[k].status \in StoredStatus
                  /\ \E b \in Budgets : q[k].attempts <= b
                  /\ ledger'[k].tries = q[k].attempts + ledger'[k].held + ledger'[k].lost,
             NEW i \in Item
      PROVE  Accounted(i)'
  <2>1. /\ rows' = q /\ UNCHANGED cyc
        /\ \A d \in Caller, j \in Item : task'[d][j] = IF d = c /\ j = k THEN res ELSE task[d][j]
    BY <1>e, EndItemKeeps
  <2>2. CASE i # k
    <3>1. Sending(i)' <=> Sending(i)
      BY <2>1, <2>2 DEF Sending
    <3>2. rows'[i] = rows[i] /\ ledger'[i] = ledger[i]
      BY <1>e, <2>1, <2>2
    <3>3. i \in Stored(rows)' <=> i \in Stored(rows)
      BY <3>2 DEF Stored
    <3> QED BY <1>a, <2>1, <2>2, <3>1, <3>2, <3>3, AccountFrame
  <2>3. CASE i = k /\ (i \notin Stored(rows) \/ q[i].status = "GONE")
    <3>1. rows'[i].status = "GONE"
      BY <1>e, <2>1, <2>3, ActiveAlone
    <3> QED BY <3>1, AccountGone
  <2>4. CASE i = k /\ i \in Stored(rows) /\ q[i].status # "GONE"
    <3>1. \A d \in Caller : task'[d][i] \notin Active
      BY <1>e, <2>1, <2>4, ActiveAlone DEF Active
    <3>2. ~Sending(i)'
      BY <3>1 DEF Sending, Active
    <3>3. /\ rows'[i].status \in StoredStatus /\ \E b \in Budgets : rows'[i].attempts <= b
          /\ ledger'[i].tries = rows'[i].attempts + ledger'[i].held + ledger'[i].lost
      BY <1>e, <2>1, <2>4
    <3>4. rows'[i].status # "NEW" /\ rows'[i].attempts + ledger'[i].held + ledger'[i].lost + 0
            = rows'[i].attempts + ledger'[i].held + ledger'[i].lost
      <4>1. rows'[i].attempts \in Nat /\ ledger'[i].held \in Nat /\ ledger'[i].lost \in Nat
        <5>1. TypeOK'
          BY StepTypes
        <5> QED BY <5>1 DEF TypeOK, Row, Entry
      <4> QED BY <3>3, <4>1 DEF StoredStatus
    <3> QED BY <3>1, <3>2, <3>3, <3>4 DEF Accounted, Active
  <2> QED BY <2>2, <2>3, <2>4
\* The account of an item a dispatch still has to finish.
<1>k. ASSUME NEW c \in Caller, NEW k \in Item, task[c][k] \in Active, k \in Stored(rows)
      PROVE  /\ cyc[c].seen[k] = rows[k].attempts
             /\ task[c][k] = "wire" => rows[k].attempts < cyc[c].options.budget
             /\ ledger[k].tries = rows[k].attempts + ledger[k].held + ledger[k].lost
                                  + (IF task[c][k] = "wire" THEN 1 ELSE 0)
  <2>1. Sending(k) <=> task[c][k] = "wire"
    BY <1>k, ActiveAlone DEF Sending, Active
  <2> QED BY <1>a, <1>k, <2>1 DEF Accounted
<1>t. ASSUME NEW k \in Item
      PROVE  /\ rows[k].attempts \in Nat /\ ledger[k].tries \in Nat
             /\ ledger[k].held \in Nat /\ ledger[k].lost \in Nat
  BY <1>r DEF Entry
<1>5. ASSUME NEW c \in Caller, NEW k \in Item, FailExhausted(c, k), NEW i \in Item PROVE Accounted(i)'
  <2>q. PICK q : q = MarkFailed(rows, k, cyc[c].seen[k])
    OBVIOUS
  <2>1. task[c][k] = "todo" /\ task[c][k] \in Active /\ UNCHANGED ledger /\ EndItem(c, k, "done", q)
    BY <1>5, <2>q DEF FailExhausted, MayStart, Active
  <2>2. (\A j \in Item \ {k} : q[j] = rows[j]) /\ (k \notin Stored(rows) => q[k] = rows[k])
    BY <1>r, <2>q DEF MarkFailed, UpdateStatus
  <2>3. k \in Stored(rows) => q[k].status \in StoredStatus /\ q[k].attempts = cyc[c].seen[k]
    BY <1>r, <2>q DEF MarkFailed, UpdateStatus, StoredStatus
  <2>4. k \in Stored(rows) => /\ \E b \in Budgets : q[k].attempts <= b
                              /\ ledger'[k].tries = q[k].attempts + ledger'[k].held + ledger'[k].lost
    BY <1>a, <1>k, <1>t, <2>1, <2>3 DEF Accounted
  <2> QED BY <1>e, <2>1, <2>2, <2>3, <2>4
<1>6. ASSUME NEW c \in Caller, NEW k \in Item, FailTerminally(c, k), NEW i \in Item PROVE Accounted(i)'
  <2>q. PICK q : q = MarkFailed(rows, k, cyc[c].seen[k] + 1)
    OBVIOUS
  <2>1. task[c][k] = "wire" /\ task[c][k] \in Active /\ UNCHANGED ledger /\ EndItem(c, k, "done", q)
    BY <1>6, <2>q DEF FailTerminally, Active
  <2>2. (\A j \in Item \ {k} : q[j] = rows[j]) /\ (k \notin Stored(rows) => q[k] = rows[k])
    BY <1>r, <2>q DEF MarkFailed, UpdateStatus
  <2>3. k \in Stored(rows) => q[k].status \in StoredStatus /\ q[k].attempts = cyc[c].seen[k] + 1
    BY <1>r, <2>q DEF MarkFailed, UpdateStatus, StoredStatus
  <2>4. ASSUME k \in Stored(rows)
        PROVE  /\ \E b \in Budgets : q[k].attempts <= b
               /\ ledger'[k].tries = q[k].attempts + ledger'[k].held + ledger'[k].lost
    <3>1. cyc[c].seen[k] = rows[k].attempts /\ rows[k].attempts < cyc[c].options.budget
          /\ ledger[k].tries = rows[k].attempts + ledger[k].held + ledger[k].lost + 1
      BY <1>k, <2>1, <2>4
    <3>2. q[k].attempts = rows[k].attempts + 1 /\ ledger'[k] = ledger[k]
      BY <2>1, <2>3, <2>4, <3>1
    <3>3. rows[k].attempts + 1 <= cyc[c].options.budget
      BY <3>1, <1>t, <1>o
    <3>4. \E b \in Budgets : q[k].attempts <= b
      BY <3>2, <3>3, <1>o
    <3>5. ledger[k].tries = q[k].attempts + ledger[k].held + ledger[k].lost
      BY <1>t, <3>1, <3>2
    <3> QED BY <3>2, <3>4, <3>5
  <2> QED BY <1>e, <2>1, <2>2, <2>3, <2>4
<1>7. ASSUME NEW c \in Caller, NEW k \in Item, Succeed(c, k), NEW i \in Item PROVE Accounted(i)'
  <2>q. PICK q : q = MarkSucceeded(rows, k)
    OBVIOUS
  <2>1. task[c][k] = "wire" /\ task[c][k] \in Active /\ EndItem(c, k, "done", q) /\ Note(k, NoEntry)
    BY <1>7, <2>q DEF Succeed, Active
  <2>2. (\A j \in Item \ {k} : q[j] = rows[j]) /\ (k \notin Stored(rows) => q[k] = rows[k])
    BY <1>r, <2>q DEF MarkSucceeded, Delete
  <2>3. k \in Stored(rows) => q[k].status = "GONE"
    BY <2>q, <1>r DEF MarkSucceeded, Delete, GoneRow
  <2>4. \A j \in Item \ {k} : ledger'[j] = ledger[j]
    BY <2>1, NoteKeeps
  <2> QED BY <1>e, <2>1, <2>2, <2>3, <2>4
<1>8. ASSUME NEW c \in Caller, NEW k \in Item, Reschedule(c, k), NEW i \in Item PROVE Accounted(i)'
  <2>0. PICK d \in Delays : /\ EndItem(c, k, "done", MarkRetry(rows, k, cyc[c].seen[k] + 1, now + d))
                            /\ Note(k, [ledger[k] EXCEPT !.due = now + d])
    BY <1>8 DEF Reschedule
  <2>q. PICK q : q = MarkRetry(rows, k, cyc[c].seen[k] + 1, now + d)
    OBVIOUS
  <2>1. /\ task[c][k] = "wire" /\ task[c][k] \in Active /\ EndItem(c, k, "done", q)
        /\ cyc[c].seen[k] + 1 < cyc[c].options.budget
    BY <1>8, <2>0, <2>q DEF Reschedule, Active
  <2>2. (\A j \in Item \ {k} : q[j] = rows[j]) /\ (k \notin Stored(rows) => q[k] = rows[k])
    BY <1>r, <2>q DEF MarkRetry, UpdateStatus
  <2>3. k \in Stored(rows) => q[k].status \in StoredStatus /\ q[k].attempts = cyc[c].seen[k] + 1
    BY <1>r, <2>q DEF MarkRetry, UpdateStatus, StoredStatus
  <2>4. \A j \in Item \ {k} : ledger'[j] = ledger[j]
    BY <2>0, NoteKeeps
  <2>5. ASSUME k \in Stored(rows)
        PROVE  /\ \E b \in Budgets : q[k].attempts <= b
               /\ ledger'[k].tries = q[k].attempts + ledger'[k].held + ledger'[k].lost
    <3>1. cyc[c].seen[k] = rows[k].attempts
          /\ ledger[k].tries = rows[k].attempts + ledger[k].held + ledger[k].lost + 1
      BY <1>k, <2>1, <2>5
    <3>2. ledger'[k] = [ledger[k] EXCEPT !.due = now + d]
      BY <2>0, <2>5, NoteKeeps
    <3>3. ledger'[k].tries = ledger[k].tries /\ ledger'[k].held = ledger[k].held /\ ledger'[k].lost = ledger[k].lost
      BY <3>2, <1>r DEF Entry
    <3>4. q[k].attempts = rows[k].attempts + 1
      BY <2>3, <2>5, <3>1
    <3>5. q[k].attempts <= cyc[c].options.budget
      BY <1>t, <1>o, <2>1, <3>1, <3>4
    <3>6. \E b \in Budgets : q[k].attempts <= b
      BY <1>o, <3>5
    <3>7. ledger[k].tries = q[k].attempts + ledger[k].held + ledger[k].lost
      BY <1>t, <3>1, <3>4
    <3> QED BY <3>3, <3>6, <3>7
  <2> QED BY <1>e, <2>1, <2>2, <2>3, <2>4, <2>5
<1>9. ASSUME NEW c \in Caller, NEW k \in Item, HoldForCredentialRenewal(c, k), NEW i \in Item
      PROVE  Accounted(i)'
  <2>0. PICK wait \in HoldDelays :
              /\ EndItem(c, k, "held", MarkRetry(rows, k, cyc[c].seen[k], now + wait))
              /\ Note(k, [ledger[k] EXCEPT !.held = @ + 1, !.due = now + wait])
    BY <1>9 DEF HoldForCredentialRenewal
  <2>q. PICK q : q = MarkRetry(rows, k, cyc[c].seen[k], now + wait)
    OBVIOUS
  <2>1. task[c][k] = "wire" /\ task[c][k] \in Active /\ EndItem(c, k, "held", q)
    BY <1>9, <2>0, <2>q DEF HoldForCredentialRenewal, Active
  <2>2. (\A j \in Item \ {k} : q[j] = rows[j]) /\ (k \notin Stored(rows) => q[k] = rows[k])
    BY <1>r, <2>q DEF MarkRetry, UpdateStatus
  <2>3. k \in Stored(rows) => q[k].status \in StoredStatus /\ q[k].attempts = cyc[c].seen[k]
    BY <1>r, <2>q DEF MarkRetry, UpdateStatus, StoredStatus
  <2>4. \A j \in Item \ {k} : ledger'[j] = ledger[j]
    BY <2>0, NoteKeeps
  <2>5. ASSUME k \in Stored(rows)
        PROVE  /\ \E b \in Budgets : q[k].attempts <= b
               /\ ledger'[k].tries = q[k].attempts + ledger'[k].held + ledger'[k].lost
    <3>1. cyc[c].seen[k] = rows[k].attempts
          /\ ledger[k].tries = rows[k].attempts + ledger[k].held + ledger[k].lost + 1
      BY <1>k, <2>1, <2>5
    <3>2. ledger'[k] = [ledger[k] EXCEPT !.held = @ + 1, !.due = now + wait]
      BY <2>0, <2>5, NoteKeeps
    <3>3. ledger'[k].tries = ledger[k].tries /\ ledger'[k].held = ledger[k].held + 1 /\ ledger'[k].lost = ledger[k].lost
      BY <3>2, <1>r DEF Entry
    <3>4. \E b \in Budgets : q[k].attempts <= b
      BY <1>a, <2>3, <2>5, <3>1 DEF Accounted
    <3> QED BY <1>t, <2>3, <2>5, <3>1, <3>3, <3>4
  <2> QED BY <1>e, <2>1, <2>2, <2>3, <2>4, <2>5
<1>10. ASSUME NEW c \in Caller, NEW k \in Item, LoseOutcome(c, k), NEW i \in Item PROVE Accounted(i)'
  <2>1. /\ task[c][k] \in Active /\ EndItem(c, k, "done", rows)
        /\ Note(k, [ledger[k] EXCEPT !.lost = IF task[c][k] = "wire" THEN @ + 1 ELSE @])
    BY <1>10 DEF LoseOutcome, MayStart, Active
  <2>2. \A j \in Item \ {k} : ledger'[j] = ledger[j]
    BY <2>1, NoteKeeps
  <2>3. ASSUME k \in Stored(rows)
        PROVE  /\ rows[k].status \in StoredStatus /\ \E b \in Budgets : rows[k].attempts <= b
               /\ ledger'[k].tries = rows[k].attempts + ledger'[k].held + ledger'[k].lost
    <3>1. ledger[k].tries = rows[k].attempts + ledger[k].held + ledger[k].lost
                            + (IF task[c][k] = "wire" THEN 1 ELSE 0)
      BY <1>k, <2>1, <2>3
    <3>2. ledger'[k] = [ledger[k] EXCEPT !.lost = IF task[c][k] = "wire" THEN @ + 1 ELSE @]
      BY <2>1, <2>3, NoteKeeps
    <3>3. /\ ledger'[k].tries = ledger[k].tries /\ ledger'[k].held = ledger[k].held
          /\ ledger'[k].lost = ledger[k].lost + (IF task[c][k] = "wire" THEN 1 ELSE 0)
      BY <3>2, <1>r, <1>t DEF Entry
    <3>4. rows[k].status \in StoredStatus /\ \E b \in Budgets : rows[k].attempts <= b
      BY <1>a, <2>3 DEF Accounted, Stored
    <3>5. ledger'[k].tries = rows[k].attempts + ledger'[k].held + ledger'[k].lost
      <4>1. CASE task[c][k] = "wire"
        BY <1>t, <3>1, <3>3, <4>1
      <4>2. CASE task[c][k] # "wire"
        BY <1>t, <3>1, <3>3, <4>2
      <4> QED BY <4>1, <4>2
    <3> QED BY <3>4, <3>5
  <2> QED BY <1>e, <2>1, <2>2, <2>3
\* A reset of every IN_FLIGHT row while nothing is on the wire, or dropping items
\* that were never started, changes no count.
<1>z. ASSUME \/ rows' = rows
             \/ rows' = ResetInFlight(rows),
             UNCHANGED ledger,
             \A d \in Caller, j \in Item : task'[d][j] \notin Active,
             \A d \in Caller, j \in Item : task[d][j] # "wire",
             NEW i \in Item
      PROVE  Accounted(i)'
  <2>1. /\ rows'[i].attempts = rows[i].attempts
        /\ rows'[i].status \in {rows[i].status, IF i \in InFlight(rows) THEN "PENDING" ELSE rows[i].status}
    BY <1>z, <1>r DEF ResetInFlight, Row
  <2>2. (i \in Stored(rows') <=> i \in Stored(rows)) /\ (rows'[i].status = "NEW" <=> rows[i].status = "NEW")
    BY <2>1 DEF InFlight, Stored, StoredStatus
  <2>3. i \in Stored(rows)' <=> i \in Stored(rows)
    BY <2>2
  <2>4. ~Sending(i) /\ ~Sending(i)'
    BY <1>z DEF Sending, Active
  <2> QED BY <1>a, <1>z, <2>1, <2>2, <2>3, <2>4, AccountFrame
\* The mutex holder drops what it never started.
<1>u. ASSUME NEW c \in Caller, pc[c] \in {"release", "abortCancel", "abortError"},
             task' = [task EXCEPT ![c] = Unstarted(c)]
      PROVE  /\ \A d \in Caller, j \in Item : task'[d][j] \notin Active
             /\ \A d \in Caller, j \in Item : task[d][j] # "wire"
  <2>1. MutexHeld /\ TaskPhases
    BY DEF CoreInv
  <2>2. mutex = c /\ \A j \in Item : task[c][j] # "wire"
    BY <1>u, <2>1 DEF MutexHeld, InCycle, TaskPhases
  <2>3. \A j \in Item : task'[c][j] = IF task[c][j] = "todo" THEN "none" ELSE task[c][j]
    BY <1>u DEF Unstarted, TypeOK
  <2>4. \A d \in Caller \ {c}, j \in Item : task'[d] = task[d] /\ task[d][j] \notin Active
    BY <1>u, <2>1, <2>2, ActiveHoldsMutex DEF TypeOK
  <2> QED BY <2>2, <2>3, <2>4 DEF Active
<1>11. ASSUME NEW c \in Caller, Release(c) \/ AbortCancelled(c) \/ AbortUnreleased(c), NEW i \in Item
       PROVE  Accounted(i)'
  <2>1. /\ pc[c] \in {"release", "abortCancel", "abortError"} /\ UNCHANGED ledger
        /\ task' = [task EXCEPT ![c] = Unstarted(c)]
        /\ rows' = rows \/ rows' = ResetInFlight(rows)
    BY <1>11 DEF Release, AbortCancelled, AbortUnreleased
  <2> QED BY <1>u, <1>z, <2>1
<1>12. ASSUME NEW c \in Caller, Finish(c), NEW i \in Item PROVE Accounted(i)'
  <2>1. pc[c] = "finish" /\ UNCHANGED <<rows, ledger>> /\ task' = [task EXCEPT ![c] = NoTask]
    BY <1>12 DEF Finish
  <2>2. \A d \in Caller, j \in Item : task[d][j] \notin Active
    BY <2>1, NobodyActive
  <2>3. \A d \in Caller, j \in Item : task'[d][j] \notin Active /\ task[d][j] # "wire"
    BY <2>1, <2>2 DEF TypeOK, NoTask, Active
  <2> QED BY <1>z, <2>1, <2>3
<1>13. ASSUME RecoveryWorker \/ SyncWorkerReset, NEW i \in Item PROVE Accounted(i)'
  <2>1. mutex = NoCaller /\ rows' = ResetInFlight(rows) /\ UNCHANGED <<task, ledger>>
    BY <1>13 DEF RecoveryWorker, SyncWorkerReset, ResetUnderMutex
  <2>2. \A d \in Caller, j \in Item : task'[d][j] \notin Active /\ task[d][j] # "wire"
    BY <1>n, <2>1 DEF Active
  <2> QED BY <1>z, <2>1, <2>2
<1>14. ASSUME Enqueue, NEW i \in Item PROVE Accounted(i)'
  <2>1. PICK ids \in SUBSET {j \in Item : rows[j].status = "NEW"} : rows' = Insert(rows, ids, now)
    BY <1>14 DEF Enqueue
  <2>2. UNCHANGED <<task, cyc, ledger>>
    BY <1>14 DEF Enqueue
  <2>3. CASE i \notin ids
    <3>1. rows'[i] = rows[i] /\ (Sending(i)' <=> Sending(i))
      BY <2>1, <2>2, <2>3 DEF Insert, Sending
    <3>2. i \in Stored(rows)' <=> i \in Stored(rows)
      BY <3>1 DEF Stored
    <3> QED BY <1>a, <2>2, <3>1, <3>2, AccountFrame
  <2>4. CASE i \in ids
    <3>1. rows[i].status = "NEW" /\ rows'[i].status = "PENDING" /\ rows'[i].attempts = 0
      BY <2>1, <2>4 DEF Insert
    <3>2. \A d \in Caller : task'[d][i] \notin Active
      BY <2>2, <3>1, ActiveAlone
    <3>3. ledger'[i] = NoEntry /\ ~Sending(i)'
      BY <1>a, <2>2, <3>1, <3>2 DEF Accounted, Sending, Active
    <3>4. PICK b \in Budgets : TRUE
      OBVIOUS
    <3>5. \E x \in Budgets : rows'[i].attempts <= x
      BY <3>1, <3>4
    <3> QED BY <3>1, <3>2, <3>3, <3>5 DEF Accounted, NoEntry, Active
  <2> QED BY <2>3, <2>4
<1>15. ASSUME Remove, NEW i \in Item PROVE Accounted(i)'
  <2>1. PICK ids \in {{j} : j \in Stored(rows)} \cup {Stored(rows)} :
          /\ rows' = Delete(rows, ids)
          /\ ledger' = [j \in Item |-> IF j \in ids THEN NoEntry ELSE ledger[j]]
    BY <1>15 DEF Remove
  <2>2. UNCHANGED <<task, cyc>>
    BY <1>15 DEF Remove
  <2>3. CASE i \in ids
    <3>1. rows'[i].status = "GONE"
      BY <2>1, <2>3 DEF Delete, GoneRow
    <3> QED BY <3>1, AccountGone
  <2>4. CASE i \notin ids
    <3>1. rows'[i] = rows[i] /\ ledger'[i] = ledger[i] /\ (Sending(i)' <=> Sending(i))
      BY <2>1, <2>2, <2>4 DEF Delete, Sending
    <3>2. i \in Stored(rows)' <=> i \in Stored(rows)
      BY <3>1 DEF Stored
    <3> QED BY <1>a, <2>2, <3>1, <3>2, AccountFrame
  <2> QED BY <2>3, <2>4
<1>16. CASE Configure \/ PauseOrResume \/ AttachEngine \/ Tick \/ RecoveryEnds \/ UNCHANGED vars
  <2>1. UNCHANGED <<rows, task, cyc, ledger>>
    BY <1>16 DEF Configure, PauseOrResume, AttachEngine, Tick, RecoveryEnds, vars
  <2> QED BY <2>1, <1>f DEF SameSnapshot
\* The process dies: what was on the wire is lost.
<1>17. ASSUME Crash, NEW i \in Item PROVE Accounted(i)'
  <2>1. UNCHANGED rows /\ \A d \in Caller : task'[d] = NoTask
    BY <1>17 DEF Crash
  <2>2. ledger'[i] = IF i \in Stored(rows) /\ Sending(i)
                     THEN [ledger[i] EXCEPT !.lost = @ + 1] ELSE ledger[i]
    BY <1>17 DEF Crash, Sending
  <2>3. \A d \in Caller : task'[d][i] \notin Active /\ task'[d][i] # "wire"
    BY <2>1 DEF NoTask, Active
  <2>4. ~Sending(i)'
    BY <2>3 DEF Sending
  <2>5. i \in Stored(rows)' <=> i \in Stored(rows)
    BY <2>1
  <2>6. CASE i \in Stored(rows) /\ Sending(i)
    <3>1. /\ ledger'[i].tries = ledger[i].tries /\ ledger'[i].held = ledger[i].held
          /\ ledger'[i].lost = ledger[i].lost + 1
      BY <1>r, <2>2, <2>6 DEF Entry
    <3>2. ledger[i].tries = rows[i].attempts + ledger[i].held + ledger[i].lost + 1
      BY <1>a, <2>6 DEF Accounted
    <3>3. ledger'[i].tries = rows'[i].attempts + ledger'[i].held + ledger'[i].lost + 0
      BY <1>t, <2>1, <3>1, <3>2
    <3>4. rows'[i].status # "NEW" /\ \E b \in Budgets : rows'[i].attempts <= b
      BY <1>a, <2>1, <2>6 DEF Accounted, Stored, StoredStatus
    <3> QED BY <2>3, <2>4, <3>3, <3>4 DEF Accounted
  <2>7. CASE i \notin Stored(rows) \/ ~Sending(i)
    <3>1. ledger'[i] = ledger[i]
      BY <2>2, <2>7
    <3>2. CASE i \notin Stored(rows)
      BY <1>a, <2>1, <2>5, <3>1, <3>2 DEF Accounted
    <3>3. CASE ~Sending(i)
      BY <1>a, <2>1, <2>3, <2>4, <2>5, <3>1, <3>3, AccountFrame
    <3> QED BY <2>7, <3>2, <3>3
  <2> QED BY <2>6, <2>7
<1> QED
  BY <1>1, <1>2, <1>3, <1>4, <1>5, <1>6, <1>7, <1>8, <1>9, <1>10, <1>11, <1>12, <1>13, <1>14,
     <1>15, <1>16, <1>17
     DEF Next, Locked, CycleStep, ItemStep, Environment, Quiet

\* What a cycle remembers of a row, and what a row counts, is right in every reachable state.
THEOREM AccountCorrect == Spec => []AccountInv
BY InitAccount, StepAccount, TypeCorrect, CoreCorrect, PTL DEF Spec

\* The persisted attempts count exactly the dispatches of an item, less the refunded and
\* the lost ones (AttemptsAccounted): dispatchItem, resetInFlight and process death.
THEOREM AttemptsAccountedHolds == Spec => []AttemptsAccounted
<1>1. AccountInv => AttemptsAccounted
  BY DEF AccountInv
<1> QED BY <1>1, AccountCorrect, PTL

\* No item is sent once its persisted attempts reach the budget of the sending cycle, and
\* no row counts more than the largest budget (BudgetKept, dispatchItem).
THEOREM BudgetKeptHolds == Spec => []BudgetKept
<1>1. AccountInv => BudgetKept
  BY DEF AccountInv
<1> QED BY <1>1, AccountCorrect, PTL
-----------------------------------------------------------------------------
(***************************************************************************)
(* The phases a step may enter.                                            *)
(***************************************************************************)

\* A quiet step enters no phase that dispatches, and no cycle.
LEMMA QuietPhase ==
  ASSUME TypeOK, NEW c \in Caller, Quiet(c), NEW d \in Caller
  PROVE  /\ pc'[d] \in {"first", "rest"} => pc'[d] = pc[d]
         /\ pc'[d] \in InCycle \ {"policy"} => pc[d] \in InCycle \ {"policy"}
         /\ pc'[d] = "policy" => pc[d] = "policy"
<1>1. PICK l \in PC \cup {pc[c]} :
        /\ pc' = [pc EXCEPT ![c] = l]
        /\ l \in {"first", "rest"} => l = pc[c]
        /\ l \in InCycle \ {"policy"} => pc[c] \in InCycle \ {"policy"}
        /\ l = "policy" => pc[c] = "policy"
  <2> USE DEF Goto, PC, InCycle
  <2>1. CASE Flush(c) \/ SkipPaused(c) \/ SkipUnavailable(c)
    BY <2>1 DEF Flush, SkipPaused, SkipUnavailable
  <2>2. CASE Joined(c) \/ RecordResult(c) \/ EmitTerminal(c)
    BY <2>2 DEF Joined, RecordResult, EmitTerminal
  <2>3. CASE ObserveCancel(c) \/ StorageThrows(c)
    BY <2>3 DEF ObserveCancel, StorageThrows
  <2>4. CASE Cancel(c)
    <3>1. pc' = [pc EXCEPT ![c] = "idle"] \/ pc' = [pc EXCEPT ![c] = pc[c]]
      BY <2>4 DEF Cancel, TypeOK
    <3> QED BY <3>1
  <2> QED BY <2>1, <2>2, <2>3, <2>4 DEF Quiet
<1> QED BY <1>1 DEF TypeOK

\* One caller moves on, the others stay where they are.
LEMMA OnlyOne ==
  ASSUME TypeOK, NEW c \in Caller, NEW d \in Caller
  PROVE  /\ \A l : Goto(c, l) => pc'[c] = l /\ (d # c => pc'[d] = pc[d])
         /\ \A r : Locals(c, r) => cyc'[c] = r /\ (d # c => cyc'[d] = cyc[d])
<1>1. pc \in [Caller -> PC] /\ cyc \in [Caller -> CycleVars]
  BY DEF TypeOK
<1>2. \A l : Goto(c, l) => pc'[c] = l /\ (d # c => pc'[d] = pc[d])
  BY <1>1 DEF Goto
<1>3. \A r : Locals(c, r) => cyc'[c] = r /\ (d # c => cyc'[d] = cyc[d])
  BY <1>1 DEF Locals
<1> QED BY <1>2, <1>3

\* The credential is read first (flush).
LEMMA CredKeeps ==
  ASSUME TypeOK, NEW c \in Caller, NEW d \in Caller, NEW x, Locals(c, [cyc[c] EXCEPT !.cred = x])
  PROVE  cyc'[d].first = cyc[d].first /\ cyc'[c].cred = x
<1>1. PICK r : r = [cyc[c] EXCEPT !.cred = x]
  OBVIOUS
<1>2. cyc[c] \in CycleVars
  BY DEF TypeOK
<1>3. r.cred = x /\ r.first = cyc[c].first
  BY <1>1, <1>2 DEF CycleVars
<1>4. cyc'[c] = r /\ (d # c => cyc'[d] = cyc[d])
  BY <1>1, OnlyOne
<1> QED BY <1>3, <1>4

\* Then the options, and the moment the claim will be made as of (runCycle).
LEMMA OptionsKeep ==
  ASSUME TypeOK, NEW c \in Caller, NEW d \in Caller, NEW x, NEW y,
         Locals(c, [cyc[c] EXCEPT !.options = x, !.startedAt = y])
  PROVE  /\ cyc'[d].first = cyc[d].first /\ cyc'[d].cred = cyc[d].cred
         /\ cyc'[c].options = x /\ cyc'[c].startedAt = y
<1>1. PICK r : r = [cyc[c] EXCEPT !.options = x, !.startedAt = y]
  OBVIOUS
<1>2. cyc[c] \in CycleVars
  BY DEF TypeOK
<1>3. r.options = x /\ r.startedAt = y /\ r.first = cyc[c].first /\ r.cred = cyc[c].cred
  BY <1>1, <1>2 DEF CycleVars
<1>4. cyc'[c] = r /\ (d # c => cyc'[d] = cyc[d])
  BY <1>1, OnlyOne
<1> QED BY <1>3, <1>4

\* Then what was claimed (claimPending).
LEMMA SnapshotKeeps ==
  ASSUME TypeOK, NEW c \in Caller, NEW d \in Caller, NEW x, NEW y,
         Locals(c, [cyc[c] EXCEPT !.first = x, !.seen = y])
  PROVE  /\ cyc'[c].first = x /\ cyc'[d].cred = cyc[d].cred
         /\ cyc'[d].options = cyc[d].options /\ cyc'[d].startedAt = cyc[d].startedAt
<1>1. PICK r : r = [cyc[c] EXCEPT !.first = x, !.seen = y]
  OBVIOUS
<1>2. cyc[c] \in CycleVars
  BY DEF TypeOK
<1>3. r.first = x /\ r.cred = cyc[c].cred /\ r.options = cyc[c].options /\ r.startedAt = cyc[c].startedAt
  BY <1>1, <1>2 DEF CycleVars
<1>4. cyc'[c] = r /\ (d # c => cyc'[d] = cyc[d])
  BY <1>1, OnlyOne
<1> QED BY <1>3, <1>4

\* A step of one caller that assigns its own task leaves the others' alone, and what
\* Unstarted drops becomes "none".
LEMMA DropKeeps ==
  ASSUME TypeOK, NEW c \in Caller, task' = [task EXCEPT ![c] = Unstarted(c)], NEW d \in Caller, NEW i \in Item
  PROVE  /\ task'[d][i] \in {task[d][i], "none"}
         /\ d # c => task'[d] = task[d]
BY DEF Unstarted, TypeOK
-----------------------------------------------------------------------------
(***************************************************************************)
(* The probe of a restored credential.                                     *)
(***************************************************************************)

\* What ProbeInv says of one caller.
Probing(c) ==
  /\ pc[c] = "first" => \A i \in Item :
       task[c][i] \in IF i = cyc[c].first THEN Active ELSE {"none", "todo"}
  /\ (pc[c] = "rest" /\ cyc[c].first \in Item) => task[c][cyc[c].first] = "done"
  /\ \A f \in Item : (f = cyc[c].first /\ task[c][f] = "held") =>
       \A i \in Item \ {f} : task[c][i] \in {"none", "todo"}

\* ProbeInv, one caller at a time.
LEMMA ProbePerCaller ==
  /\ ProbeInv <=> \A c \in Caller : Probing(c)
  /\ ProbeInv' <=> \A c \in Caller : Probing(c)'
BY DEF ProbeInv, ProbeFirst, OneRequestPerRejectedToken, Probing

\* A caller that starts nothing and enters no dispatching phase keeps its part.
LEMMA ProbeFrame ==
  ASSUME NEW c \in Caller, Probing(c), cyc'[c].first = cyc[c].first,
         pc'[c] \in {"first", "rest"} => pc'[c] = pc[c] /\ \A i \in Item : task'[c][i] = task[c][i],
         \A i \in Item : task'[c][i] \in {task[c][i], "none"}
  PROVE  Probing(c)'
<1>1. CASE pc'[c] \in {"first", "rest"}
  BY <1>1 DEF Probing
<1>2. CASE pc'[c] \notin {"first", "rest"}
  BY <1>2 DEF Probing
<1> QED BY <1>1, <1>2

\* Every step keeps the order of probe and batch.
LEMMA StepProbe == TypeOK /\ CoreInv /\ ProbeInv /\ [Next]_vars => ProbeInv'
<1> SUFFICES ASSUME TypeOK, CoreInv, ProbeInv, [Next]_vars PROVE \A d \in Caller : Probing(d)'
  BY ProbePerCaller
<1> USE DispatcherAssumption
<1>a. \A d \in Caller : Probing(d)
  BY ProbePerCaller
<1>1. ASSUME NEW c \in Caller, Quiet(c), NEW d \in Caller PROVE Probing(d)'
  BY <1>1, <1>a, QuietKeeps, QuietPhase, ProbeFrame DEF SameSnapshot
<1>2. ASSUME NEW c \in Caller, Enter(c) \/ Begin(c), NEW d \in Caller PROVE Probing(d)'
  <2>1. UNCHANGED task /\ cyc'[d].first = cyc[d].first
    <3>1. CASE Enter(c)
      <4>1. UNCHANGED task /\ \E x : Locals(c, [cyc[c] EXCEPT !.cred = x])
        BY <3>1 DEF Enter, ReadPolicy
      <4> QED BY <4>1, CredKeeps
    <3>2. CASE Begin(c)
      <4>1. UNCHANGED task /\ Locals(c, [cyc[c] EXCEPT !.options = config, !.startedAt = now])
        BY <3>2 DEF Begin
      <4> QED BY <4>1, OptionsKeep
    <3> QED BY <1>2, <3>1, <3>2
  <2>3. Goto(c, "policy") \/ Goto(c, "starting")
    BY <1>2 DEF Enter, ReadPolicy, Begin
  <2>2. pc'[d] \in {"first", "rest"} => pc'[d] = pc[d]
    BY <2>3, OnlyOne
  <2> QED BY <1>a, <2>1, <2>2, ProbeFrame
<1>3. ASSUME NEW c \in Caller, Claim(c), NEW d \in Caller PROVE Probing(d)'
  <2>0. PICK ids \in Claims(rows, cyc[c].startedAt, BatchSize) : \E f \in Probe(c, ids) :
          /\ task' = [task EXCEPT ![c] = [j \in Item |-> IF j \in ids THEN "todo" ELSE "none"]]
          /\ Locals(c, [cyc[c] EXCEPT !.first = f, !.seen = [j \in Item |-> rows[j].attempts]])
          /\ Goto(c, CASE ids = {} -> "record" [] f # NoItem -> "first" [] OTHER -> "rest")
    BY <1>3 DEF Claim
  <2>1. PICK f \in Probe(c, ids) :
          /\ Locals(c, [cyc[c] EXCEPT !.first = f, !.seen = [j \in Item |-> rows[j].attempts]])
          /\ Goto(c, CASE ids = {} -> "record" [] f # NoItem -> "first" [] OTHER -> "rest")
    BY <2>0
  <2>2. f = NoItem \/ (f \in ids /\ f \in Item)
    BY DEF Probe, Heads, Claims, Claimable, Pending
  <2>3. CASE d = c
    <3>0. cyc'[c].first = f
      BY <2>1, SnapshotKeeps
    <3>1. cyc'[c].first = f /\ \A j \in Item : task'[c][j] = IF j \in ids THEN "todo" ELSE "none"
      BY <2>0, <3>0 DEF TypeOK
    <3>2. pc'[c] = "rest" => f = NoItem
      BY <2>1 DEF Goto, TypeOK
    <3>3. pc'[c] = "first" => f \in ids
      BY <2>1, <2>2 DEF Goto, TypeOK
    <3> QED BY <2>2, <2>3, <3>1, <3>2, <3>3 DEF Probing, Active
  <2>4. CASE d # c
    <3>1. pc'[d] = pc[d] /\ cyc'[d] = cyc[d]
      BY <2>1, <2>4, OnlyOne
    <3>2. task'[d] = task[d]
      BY <2>0, <2>4 DEF TypeOK
    <3> QED BY <1>a, <3>1, <3>2, ProbeFrame
  <2> QED BY <2>3, <2>4
<1>4. ASSUME NEW c \in Caller, NEW k \in Item, StartItem(c, k), NEW d \in Caller PROVE Probing(d)'
  <2>1. /\ task[c][k] = "todo" /\ UNCHANGED <<pc, cyc>>
        /\ (pc[c] = "first" /\ k = cyc[c].first) \/ pc[c] = "rest"
        /\ task' = [task EXCEPT ![c][k] = "wire"]
    BY <1>4 DEF StartItem, MayStart
  <2>2. \A j \in Item : task'[d][j] = IF d = c /\ j = k THEN "wire" ELSE task[d][j]
    BY <2>1 DEF TypeOK
  <2>3. CASE d # c
    BY <1>a, <2>1, <2>2, <2>3, ProbeFrame
  <2>4. CASE d = c /\ pc[c] = "first"
    BY <1>a, <2>1, <2>2, <2>4 DEF Probing, Active
  <2>5. CASE d = c /\ pc[c] = "rest"
    BY <1>a, <2>1, <2>2, <2>5 DEF Probing
  <2> QED BY <2>1, <2>3, <2>4, <2>5
<1>5. ASSUME NEW c \in Caller, NEW k \in Item, NEW res \in {"done", "held"}, NEW q,
             task[c][k] = "wire" \/ (MayStart(c, k) /\ res = "done"),
             EndItem(c, k, res, q), NEW d \in Caller
      PROVE  Probing(d)'
  <2>1. /\ UNCHANGED cyc /\ pc' = [pc EXCEPT ![c] = AfterItem(c, res)]
        /\ \A e \in Caller, j \in Item : task'[e][j] = IF e = c /\ j = k THEN res ELSE task[e][j]
    BY <1>5, EndItemKeeps
  <2>2. CASE d # c
    BY <1>a, <2>1, <2>2, ProbeFrame DEF TypeOK
  <2>3. task[c][k] \in Active /\ (pc[c] = "rest" \/ (pc[c] = "first" /\ k = cyc[c].first))
    BY <1>5 DEF MayStart, Active, CoreInv, TaskPhases
  <2>4. CASE d = c /\ pc[c] = "first"
    <3>1. k = cyc[c].first /\ \A j \in Item \ {k} : task'[c][j] \in {"none", "todo"}
      BY <1>a, <2>1, <2>3, <2>4 DEF Probing
    <3>2. pc'[c] \in {"release", "rest"} /\ (pc'[c] = "rest" => res = "done")
      BY <2>1, <2>4 DEF AfterItem, TypeOK
    <3> QED BY <2>1, <2>4, <3>1, <3>2 DEF Probing
  <2>5. CASE d = c /\ pc[c] = "rest"
    <3>1. pc'[c] = "rest"
      BY <2>1, <2>5 DEF AfterItem, TypeOK
    <3>2. k # cyc[c].first
      BY <1>a, <2>3, <2>5 DEF Probing, Active
    <3> QED BY <1>a, <2>1, <2>5, <3>1, <3>2 DEF Probing
  <2> QED BY <2>2, <2>3, <2>4, <2>5
<1>6. ASSUME NEW c \in Caller, NEW k \in Item, NEW d \in Caller,
             \/ FailExhausted(c, k) \/ FailTerminally(c, k) \/ Succeed(c, k) \/ Reschedule(c, k)
             \/ HoldForCredentialRenewal(c, k) \/ LoseOutcome(c, k)
      PROVE  Probing(d)'
  <2>1. CASE FailExhausted(c, k) \/ LoseOutcome(c, k)
    <3>1. PICK q : EndItem(c, k, "done", q)
      BY <2>1 DEF FailExhausted, LoseOutcome
    <3>2. task[c][k] = "wire" \/ MayStart(c, k)
      BY <2>1 DEF FailExhausted, LoseOutcome
    <3> QED BY <1>5, <3>1, <3>2
  <2>2. CASE FailTerminally(c, k) \/ Succeed(c, k) \/ Reschedule(c, k) \/ HoldForCredentialRenewal(c, k)
    <3>1. PICK res \in {"done", "held"} : \E q : EndItem(c, k, res, q)
      BY <2>2 DEF FailTerminally, Succeed, Reschedule, HoldForCredentialRenewal
    <3>2. task[c][k] = "wire"
      BY <2>2 DEF FailTerminally, Succeed, Reschedule, HoldForCredentialRenewal
    <3> QED BY <1>5, <3>1, <3>2
  <2> QED BY <1>6, <2>1, <2>2
<1>7. ASSUME NEW c \in Caller, Release(c) \/ AbortCancelled(c) \/ AbortUnreleased(c), NEW d \in Caller
      PROVE  Probing(d)'
  <2>1. task' = [task EXCEPT ![c] = Unstarted(c)]
    BY <1>7 DEF Release, AbortCancelled, AbortUnreleased
  <2>2. cyc'[d].first = cyc[d].first
    BY <1>7, EmitKeeps DEF Release, AbortCancelled, AbortUnreleased, SameSnapshot
  <2>3. pc'[d] \in {"first", "rest"} => d # c /\ pc'[d] = pc[d]
    BY <1>7 DEF Release, AbortCancelled, AbortUnreleased, Goto, TypeOK
  <2>4. \A i \in Item : task'[d][i] \in {task[d][i], "none"} /\ (d # c => task'[d][i] = task[d][i])
    BY <2>1, DropKeeps
  <2> QED BY <1>a, <2>2, <2>3, <2>4, ProbeFrame
<1>8. ASSUME NEW d \in Caller, pc'[d] = "idle", cyc'[d] = NoCycle PROVE Probing(d)'
  BY <1>8 DEF Probing, NoCycle
<1>9. ASSUME NEW c \in Caller, Finish(c), NEW d \in Caller PROVE Probing(d)'
  <2>1. CASE d = c
    BY <1>8, <1>9, <2>1 DEF Finish, Goto, Locals, TypeOK
  <2>2. CASE d # c
    BY <1>9, <1>a, <2>2, ProbeFrame DEF Finish, Goto, Locals, TypeOK
  <2> QED BY <2>1, <2>2
<1>10. ASSUME Crash, NEW d \in Caller PROVE Probing(d)'
  BY <1>8, <1>10 DEF Crash
<1>11. CASE \/ Configure \/ PauseOrResume \/ AttachEngine \/ Tick \/ RecoveryEnds \/ RecoveryWorker
            \/ SyncWorkerReset \/ Enqueue \/ Remove \/ UNCHANGED vars
  <2>1. UNCHANGED <<task, pc, cyc>>
    BY <1>11 DEF Configure, PauseOrResume, AttachEngine, Tick, RecoveryEnds, RecoveryWorker,
                 SyncWorkerReset, Enqueue, Remove, vars
  <2> QED BY <1>a, <2>1 DEF Probing
<1> QED
  BY <1>1, <1>2, <1>3, <1>4, <1>6, <1>7, <1>9, <1>10, <1>11
     DEF Next, Locked, CycleStep, ItemStep, Environment, Quiet

\* The rest of a batch goes out only after a probe that was not rejected.
THEOREM ProbeCorrect == Spec => []ProbeInv
<1>1. Init => ProbeInv
  BY DispatcherAssumption DEF Init, NoCycle, NoTask, ProbeInv, ProbeFirst, OneRequestPerRejectedToken
<1> QED BY <1>1, StepProbe, TypeCorrect, CoreCorrect, PTL DEF Spec

\* An expired restored token costs one request per cycle, whatever the batch
\* (OneRequestPerRejectedToken, dispatchClaimed).
THEOREM OneRequestPerRejectedTokenHolds == Spec => []OneRequestPerRejectedToken
<1>1. ProbeInv => OneRequestPerRejectedToken
  BY DEF ProbeInv
<1> QED BY <1>1, ProbeCorrect, PTL
-----------------------------------------------------------------------------
(***************************************************************************)
(* The two reads of the configuration.                                     *)
(***************************************************************************)

\* What TrustInv says of one caller.
Trusting(c) ==
  /\ (pc[c] \in InCycle \ {"policy"} /\ cyc[c].cred = "TRUSTED") => cyc[c].options.source = "LIVE"
  /\ (pc[c] = "policy" /\ cyc[c].cred = "TRUSTED") => config.source = "LIVE"

\* TrustInv, one caller at a time.
LEMMA TrustPerCaller ==
  /\ TrustInv <=> \A c \in Caller : Trusting(c)
  /\ TrustInv' <=> \A c \in Caller : Trusting(c)'
BY DEF TrustInv, TrustedNotRestored, Trusting

\* A caller whose snapshot stands, and that enters no phase of a cycle, keeps its part
\* while a live configuration stays live.
LEMMA TrustFrame ==
  ASSUME NEW c \in Caller, Trusting(c), config.source = "LIVE" => config'.source = "LIVE",
         cyc'[c].cred = cyc[c].cred, cyc'[c].options = cyc[c].options,
         pc'[c] \in InCycle \ {"policy"} => pc[c] \in InCycle \ {"policy"},
         pc'[c] = "policy" => pc[c] = "policy"
  PROVE  Trusting(c)'
BY DEF Trusting

\* Every step keeps the trust of every cycle founded.
LEMMA StepTrust == TypeOK /\ CoreInv /\ TrustInv /\ [Next]_vars => TrustInv'
<1> SUFFICES ASSUME TypeOK, CoreInv, TrustInv, [Next]_vars PROVE \A d \in Caller : Trusting(d)'
  BY TrustPerCaller
<1>a. \A d \in Caller : Trusting(d)
  BY TrustPerCaller
<1>1. ASSUME NEW c \in Caller, Quiet(c), NEW d \in Caller PROVE Trusting(d)'
  BY <1>1, <1>a, QuietKeeps, QuietPhase, TrustFrame DEF SameSnapshot
<1>2. ASSUME NEW c \in Caller, Enter(c), NEW d \in Caller PROVE Trusting(d)'
  <2>0. PICK s \in Reloaded : /\ CredentialPolicy(s) # "UNAVAILABLE"
                              /\ config' = [config EXCEPT !.source = s]
                              /\ Locals(c, [cyc[c] EXCEPT !.cred = CredentialPolicy(s)])
    BY <1>2 DEF Enter, ReadPolicy
  <2>1. s \in Sources /\ config'.source = s /\ (config.source = "LIVE" => s = "LIVE")
    BY <2>0 DEF Reloaded, TypeOK, Config, Sources
  <2>2. pc' = [pc EXCEPT ![c] = "policy"]
    BY <1>2 DEF Enter, ReadPolicy, Goto
  <2>3. CASE d = c
    <3>1. pc'[d] = "policy" /\ cyc'[d].cred = CredentialPolicy(s)
      <4>1. cyc'[c].cred = CredentialPolicy(s)
        BY <2>0, CredKeeps
      <4> QED BY <4>1, <2>2, <2>3 DEF TypeOK
    <3>2. CredentialPolicy(s) = "TRUSTED" => s = "LIVE"
      BY <2>1 DEF CredentialPolicy, Sources
    <3> QED BY <2>1, <3>1, <3>2 DEF Trusting
  <2>4. CASE d # c
    <3>1. pc'[d] = pc[d] /\ cyc'[d] = cyc[d]
      <4>1. cyc'[d] = cyc[d]
        BY <2>0, <2>4, OnlyOne
      <4> QED BY <4>1, <2>2, <2>4 DEF TypeOK
    <3> QED BY <1>a, <2>1, <3>1, TrustFrame
  <2> QED BY <2>3, <2>4
<1>3. ASSUME NEW c \in Caller, Begin(c), NEW d \in Caller PROVE Trusting(d)'
  <2>1. /\ pc[c] = "policy" /\ pc' = [pc EXCEPT ![c] = "starting"] /\ UNCHANGED config
        /\ Locals(c, [cyc[c] EXCEPT !.options = config, !.startedAt = now])
    BY <1>3 DEF Begin, Goto, envVars
  <2>2. CASE d = c
    <3>1. cyc'[d].cred = cyc[d].cred /\ cyc'[d].options = config
      BY <2>1, <2>2, OptionsKeep
    <3>2. pc'[d] = "starting" /\ pc[d] = "policy"
      BY <2>1, <2>2 DEF TypeOK
    <3> QED BY <1>a, <3>1, <3>2 DEF Trusting
  <2>3. CASE d # c
    <3>1. pc'[d] = pc[d] /\ cyc'[d] = cyc[d]
      <4>1. cyc'[d] = cyc[d]
        BY <2>1, <2>3, OnlyOne
      <4> QED BY <4>1, <2>1, <2>3 DEF TypeOK
    <3> QED BY <1>a, <2>1, <3>1, TrustFrame
  <2> QED BY <2>2, <2>3
<1>4. ASSUME NEW c \in Caller, Claim(c), NEW d \in Caller PROVE Trusting(d)'
  <2>1. PICK x, y, l :
          /\ Locals(c, [cyc[c] EXCEPT !.first = x, !.seen = y])
          /\ pc[c] = "starting" /\ pc' = [pc EXCEPT ![c] = l] /\ l \in {"record", "first", "rest"}
          /\ UNCHANGED config
    BY <1>4 DEF Claim, Goto, envVars
  <2>2. cyc'[d].cred = cyc[d].cred /\ cyc'[d].options = cyc[d].options
    BY <2>1, SnapshotKeeps
  <2>3. /\ pc'[d] \in InCycle \ {"policy"} => pc[d] \in InCycle \ {"policy"}
        /\ pc'[d] = "policy" => pc[d] = "policy"
    BY <2>1 DEF TypeOK, InCycle
  <2> QED BY <1>a, <2>1, <2>2, <2>3, TrustFrame
<1>5. ASSUME NEW c \in Caller, NEW i \in Item, ItemStep(c, i), NEW d \in Caller PROVE Trusting(d)'
  <2>1. UNCHANGED <<config, cyc>>
    BY <1>5 DEF ItemStep, StartItem, FailExhausted, Succeed, Reschedule, HoldForCredentialRenewal,
                FailTerminally, LoseOutcome, EndItem, envVars
  <2>2. task[c][i] \in Active /\ pc[c] \in InCycle \ {"policy"}
    BY <1>5 DEF ItemStep, StartItem, FailExhausted, Succeed, Reschedule, HoldForCredentialRenewal,
                FailTerminally, LoseOutcome, MayStart, Active, CoreInv, TaskPhases, InCycle
  <2>3. PICK l : pc' = [pc EXCEPT ![c] = l] /\ l \in {pc[c], "release", "rest"}
    <3>1. UNCHANGED pc \/ \E r : pc' = [pc EXCEPT ![c] = AfterItem(c, r)]
      BY <1>5 DEF ItemStep, StartItem, FailExhausted, Succeed, Reschedule, HoldForCredentialRenewal,
                  FailTerminally, LoseOutcome, EndItem, Goto
    <3>2. \A r : AfterItem(c, r) \in {pc[c], "release", "rest"}
      BY DEF AfterItem
    <3>3. UNCHANGED pc => pc' = [pc EXCEPT ![c] = pc[c]]
      BY DEF TypeOK
    <3> QED BY <3>1, <3>2, <3>3
  <2>4. /\ pc'[d] \in InCycle \ {"policy"} => pc[d] \in InCycle \ {"policy"}
        /\ pc'[d] = "policy" => pc[d] = "policy"
    BY <2>2, <2>3 DEF TypeOK
  <2> QED BY <1>a, <2>1, <2>4, TrustFrame
<1>6. ASSUME NEW c \in Caller, Release(c) \/ AbortCancelled(c) \/ AbortUnreleased(c), NEW d \in Caller
      PROVE  Trusting(d)'
  <2>1. UNCHANGED config
    BY <1>6 DEF Release, AbortCancelled, AbortUnreleased, envVars
  <2>2. cyc'[d].cred = cyc[d].cred /\ cyc'[d].options = cyc[d].options
    BY <1>6, EmitKeeps DEF Release, AbortCancelled, AbortUnreleased, SameSnapshot
  <2>3. PICK l \in {"record", "finish"} : pc' = [pc EXCEPT ![c] = l] /\ pc[c] \in InCycle \ {"policy"}
    BY <1>6 DEF Release, AbortCancelled, AbortUnreleased, Goto, InCycle
  <2>4. /\ pc'[d] \in InCycle \ {"policy"} => pc[d] \in InCycle \ {"policy"}
        /\ pc'[d] = "policy" => pc[d] = "policy"
    BY <2>3 DEF TypeOK
  <2> QED BY <1>a, <2>1, <2>2, <2>4, TrustFrame
<1>7. ASSUME NEW d \in Caller, pc'[d] = "idle" PROVE Trusting(d)'
  BY <1>7 DEF Trusting, InCycle
<1>8. ASSUME NEW c \in Caller, Finish(c), NEW d \in Caller PROVE Trusting(d)'
  <2>1. UNCHANGED config
    BY <1>8 DEF Finish, envVars
  <2>2. CASE d = c
    BY <1>7, <1>8, <2>2 DEF Finish, Goto, TypeOK
  <2>3. CASE d # c
    BY <1>8, <1>a, <2>1, <2>3, TrustFrame DEF Finish, Goto, Locals, TypeOK
  <2> QED BY <2>2, <2>3
<1>9. ASSUME Crash, NEW d \in Caller PROVE Trusting(d)'
  BY <1>7, <1>9 DEF Crash
<1>10. ASSUME \/ Configure \/ PauseOrResume \/ AttachEngine \/ Tick \/ RecoveryEnds \/ RecoveryWorker
              \/ SyncWorkerReset \/ Enqueue \/ Remove \/ UNCHANGED vars, NEW d \in Caller
       PROVE  Trusting(d)'
  <2>1. UNCHANGED <<pc, cyc>>
    BY <1>10 DEF Configure, PauseOrResume, AttachEngine, Tick, RecoveryEnds, RecoveryWorker,
                 SyncWorkerReset, Enqueue, Remove, vars
  <2>2. UNCHANGED config \/ config'.source = "LIVE"
    BY <1>10 DEF Configure, PauseOrResume, AttachEngine, Tick, RecoveryEnds, RecoveryWorker,
                 SyncWorkerReset, Enqueue, Remove, vars, envVars
  <2> QED BY <1>a, <2>1, <2>2, TrustFrame
<1> QED
  BY <1>1, <1>2, <1>3, <1>4, <1>5, <1>6, <1>8, <1>9, <1>10
     DEF Next, Locked, CycleStep, Environment, Quiet

\* A cycle that trusts its credential saw a live configuration at both reads.
THEOREM TrustCorrect == Spec => []TrustInv
<1>1. Init => TrustInv
  BY DEF Init, NoCycle, TrustInv, TrustedNotRestored, InCycle
<1> QED BY <1>1, StepTrust, TypeCorrect, CoreCorrect, PTL DEF Spec

\* A cycle that does not probe was not handed restored headers by a configuration that
\* changed between its two reads (TrustedNotRestored, flush).
THEOREM TrustedNotRestoredHolds == Spec => []TrustedNotRestored
<1>1. TrustInv => TrustedNotRestored
  BY DEF TrustInv
<1> QED BY <1>1, TrustCorrect, PTL
-----------------------------------------------------------------------------
(***************************************************************************)
(* The cooldown of a failed dispatch.                                      *)
(***************************************************************************)

\* What CoolInv says of one item, and of one caller.
Cooling(i) ==
  /\ rows[i].status \in {"PENDING", "IN_FLIGHT"} => ledger[i].due <= rows[i].nextRetryAt
  /\ \A c \in Caller : (i \in Stored(rows) /\ task[c][i] = "todo") => ledger[i].due <= now

StartedBefore(c) == pc[c] \in InCycle \ {"policy"} => cyc[c].startedAt <= now

\* CoolInv, one item and one caller at a time.
LEMMA CoolParts ==
  /\ CoolInv <=> (\A i \in Item : Cooling(i)) /\ (\A c \in Caller : StartedBefore(c))
  /\ CoolInv' <=> (\A i \in Item : Cooling(i)') /\ (\A c \in Caller : StartedBefore(c)')
BY DEF CoolInv, Cooling, StartedBefore, Stored

\* Every claim was made as of a moment that is past.
LEMMA StepStarted ==
  TypeOK /\ CoreInv /\ (\A c \in Caller : StartedBefore(c)) /\ [Next]_vars
    => \A c \in Caller : StartedBefore(c)'
<1> SUFFICES ASSUME TypeOK, CoreInv, \A c \in Caller : StartedBefore(c), [Next]_vars,
                    NEW d \in Caller
             PROVE  StartedBefore(d)'
  OBVIOUS
<1>t. now \in Nat /\ \A c \in Caller : cyc[c].startedAt \in Nat
  BY DEF TypeOK, CycleVars
\* The clock never goes back, so a caller keeps its part that enters no cycle.
<1>f. ASSUME cyc'[d].startedAt = cyc[d].startedAt, now' \in {now, now + 1},
             pc'[d] \in InCycle \ {"policy"} => pc[d] \in InCycle \ {"policy"}
      PROVE  StartedBefore(d)'
  BY <1>f, <1>t DEF StartedBefore
<1>1. ASSUME NEW c \in Caller, Quiet(c) PROVE StartedBefore(d)'
  BY <1>1, <1>f, QuietKeeps, QuietPhase DEF SameSnapshot
<1>2. ASSUME NEW c \in Caller, Enter(c) PROVE StartedBefore(d)'
  <2>1. /\ pc' = [pc EXCEPT ![c] = "policy"] /\ UNCHANGED now
        /\ \E r : cyc' = [cyc EXCEPT ![c] = r]
    BY <1>2 DEF Enter, ReadPolicy, Goto, Locals
  <2>2. CASE d = c
    BY <2>1, <2>2 DEF StartedBefore, TypeOK, InCycle
  <2>3. CASE d # c
    BY <1>f, <2>1, <2>3 DEF TypeOK
  <2> QED BY <2>2, <2>3
<1>3. ASSUME NEW c \in Caller, Begin(c) PROVE StartedBefore(d)'
  <2>1. /\ pc' = [pc EXCEPT ![c] = "starting"] /\ UNCHANGED now
        /\ Locals(c, [cyc[c] EXCEPT !.options = config, !.startedAt = now])
    BY <1>3 DEF Begin, Goto, envVars
  <2>2. CASE d = c
    <3>0. cyc'[c] = [cyc[c] EXCEPT !.options = config, !.startedAt = now] /\ cyc[c] \in CycleVars
      BY <2>1 DEF Locals, TypeOK
    <3>1. cyc'[c].startedAt = now
      BY <3>0 DEF CycleVars
    <3> QED BY <1>t, <2>1, <2>2, <3>1 DEF StartedBefore
  <2>3. CASE d # c
    <3>1. cyc'[d] = cyc[d]
      BY <2>1, <2>3, OnlyOne
    <3>2. pc'[d] = pc[d]
      BY <2>1, <2>3 DEF TypeOK
    <3> QED BY <1>f, <2>1, <3>1, <3>2
  <2> QED BY <2>2, <2>3
<1>4. ASSUME NEW c \in Caller, Claim(c) PROVE StartedBefore(d)'
  <2>1. PICK x, y, l :
          /\ Locals(c, [cyc[c] EXCEPT !.first = x, !.seen = y])
          /\ pc[c] = "starting" /\ pc' = [pc EXCEPT ![c] = l]
          /\ UNCHANGED now
    BY <1>4 DEF Claim, Goto, envVars
  <2>2. cyc'[d].startedAt = cyc[d].startedAt
    BY <2>1, SnapshotKeeps
  <2>3. pc'[d] \in InCycle \ {"policy"} => pc[d] \in InCycle \ {"policy"}
    BY <2>1 DEF TypeOK, InCycle
  <2> QED BY <1>f, <2>1, <2>2, <2>3
<1>5. ASSUME NEW c \in Caller, NEW i \in Item, ItemStep(c, i) PROVE StartedBefore(d)'
  <2>1. UNCHANGED <<now, cyc>>
    BY <1>5 DEF ItemStep, StartItem, FailExhausted, Succeed, Reschedule, HoldForCredentialRenewal,
                FailTerminally, LoseOutcome, EndItem, envVars
  <2>2. pc[c] \in InCycle \ {"policy"}
    BY <1>5 DEF ItemStep, StartItem, FailExhausted, Succeed, Reschedule, HoldForCredentialRenewal,
                FailTerminally, LoseOutcome, MayStart, Active, CoreInv, TaskPhases, InCycle
  <2>3. \A e \in Caller \ {c} : pc'[e] = pc[e]
    BY <1>5 DEF ItemStep, StartItem, FailExhausted, Succeed, Reschedule, HoldForCredentialRenewal,
                FailTerminally, LoseOutcome, EndItem, Goto, TypeOK
  <2> QED BY <1>f, <2>1, <2>2, <2>3
<1>6. ASSUME NEW c \in Caller, Release(c) \/ AbortCancelled(c) \/ AbortUnreleased(c) PROVE StartedBefore(d)'
  <2>1. UNCHANGED now
    BY <1>6 DEF Release, AbortCancelled, AbortUnreleased, envVars
  <2>2. cyc'[d].startedAt = cyc[d].startedAt
    BY <1>6, EmitKeeps DEF Release, AbortCancelled, AbortUnreleased, SameSnapshot
  <2>3. pc[c] \in InCycle \ {"policy"} /\ \A e \in Caller \ {c} : pc'[e] = pc[e]
    BY <1>6 DEF Release, AbortCancelled, AbortUnreleased, Goto, TypeOK, InCycle
  <2> QED BY <1>f, <2>1, <2>2, <2>3
<1>7. ASSUME NEW c \in Caller, Finish(c) PROVE StartedBefore(d)'
  <2>1. CASE d = c
    BY <1>7, <2>1 DEF Finish, Goto, TypeOK, StartedBefore, InCycle
  <2>2. CASE d # c
    BY <1>7, <1>f, <2>2 DEF Finish, Goto, Locals, TypeOK, envVars
  <2> QED BY <2>1, <2>2
<1>8. CASE Crash
  BY <1>8 DEF Crash, StartedBefore, InCycle
<1>9. CASE \/ Configure \/ PauseOrResume \/ AttachEngine \/ Tick \/ RecoveryEnds \/ RecoveryWorker
           \/ SyncWorkerReset \/ Enqueue \/ Remove \/ UNCHANGED vars
  <2>1. UNCHANGED <<pc, cyc>> /\ now' \in {now, now + 1}
    BY <1>9 DEF Configure, PauseOrResume, AttachEngine, Tick, RecoveryEnds, RecoveryWorker,
                SyncWorkerReset, Enqueue, Remove, vars, envVars
  <2> QED BY <1>f, <2>1
<1> QED
  BY <1>1, <1>2, <1>3, <1>4, <1>5, <1>6, <1>7, <1>8, <1>9
     DEF Next, Locked, CycleStep, Environment, Quiet

\* An item keeps its cooldown in a step that moves neither the end of it nor the row's.
LEMMA CoolFrame ==
  ASSUME NEW i \in Item, Cooling(i), now \in Nat, now' \in {now, now + 1}, ledger[i].due \in Nat,
         ledger'[i].due = ledger[i].due,
         rows'[i].status \in {"PENDING", "IN_FLIGHT"} =>
           rows[i].status \in {"PENDING", "IN_FLIGHT"} /\ rows'[i].nextRetryAt = rows[i].nextRetryAt,
         rows'[i].status \in StoredStatus => rows[i].status \in StoredStatus,
         \A c \in Caller : task'[c][i] = "todo" => task[c][i] = "todo"
  PROVE  Cooling(i)'
<1>1. rows'[i].status \in {"PENDING", "IN_FLIGHT"} => ledger'[i].due <= rows'[i].nextRetryAt
  BY DEF Cooling
<1>2. ASSUME NEW c \in Caller, i \in Stored(rows'), task'[c][i] = "todo" PROVE ledger'[i].due <= now'
  <2>1. i \in Stored(rows) /\ task[c][i] = "todo"
    BY <1>2 DEF Stored
  <2>2. ledger[i].due <= now
    BY <2>1 DEF Cooling
  <2> QED BY <2>2
<1> QED BY <1>1, <1>2 DEF Cooling

\* Every step keeps every cooldown.
LEMMA StepCool == TypeOK /\ CoreInv /\ AccountInv /\ CoolInv /\ [Next]_vars => CoolInv'
<1> SUFFICES ASSUME TypeOK, CoreInv, AccountInv, CoolInv, [Next]_vars, NEW i \in Item PROVE Cooling(i)'
  BY CoolParts, StepStarted
<1> USE DispatcherAssumption
<1>a. \A j \in Item : Cooling(j)
  BY CoolParts
<1>r. /\ rows \in [Item -> Row] /\ \A j \in Item : ledger[j] \in Entry
      /\ \A j \in Item : ledger[j].due \in Nat /\ rows[j].nextRetryAt \in Nat
      /\ now \in Nat
  BY DEF TypeOK, Row, Entry
\* A step that leaves the rows and the ends of the cooldowns, and claims nothing.
<1>f. ASSUME now' \in {now, now + 1}, rows' = rows \/ rows' = ResetInFlight(rows),
             ledger'[i].due = ledger[i].due,
             \A d \in Caller : task'[d][i] = "todo" => task[d][i] = "todo"
      PROVE  Cooling(i)'
  <2>1. /\ rows'[i].nextRetryAt = rows[i].nextRetryAt
        /\ rows'[i].status \in {rows[i].status, IF i \in InFlight(rows) THEN "PENDING" ELSE rows[i].status}
    BY <1>f, <1>r DEF ResetInFlight, Row
  <2>2. /\ rows'[i].status \in {"PENDING", "IN_FLIGHT"} => rows[i].status \in {"PENDING", "IN_FLIGHT"}
        /\ rows'[i].status \in StoredStatus => rows[i].status \in StoredStatus
    BY <2>1 DEF InFlight, StoredStatus
  <2> QED BY <1>a, <1>f, <1>r, <2>1, <2>2, CoolFrame
<1>1. ASSUME NEW c \in Caller, Quiet(c) PROVE Cooling(i)'
  BY <1>1, <1>f, QuietKeeps
<1>2. ASSUME NEW c \in Caller, Enter(c) \/ Begin(c) PROVE Cooling(i)'
  BY <1>2, <1>f DEF Enter, ReadPolicy, Begin, envVars
<1>3. ASSUME NEW c \in Caller, Claim(c) PROVE Cooling(i)'
  <2>1. PICK ids \in Claims(rows, cyc[c].startedAt, BatchSize) :
          /\ rows' = MarkInFlight(rows, ids)
          /\ task' = [task EXCEPT ![c] = [j \in Item |-> IF j \in ids THEN "todo" ELSE "none"]]
    BY <1>3 DEF Claim
  <2>2. pc[c] = "starting" /\ UNCHANGED <<ledger, now>>
    BY <1>3 DEF Claim, envVars
  <2>3. CASE i \in ids
    <3>1. rows[i].status = "PENDING" /\ rows[i].nextRetryAt <= cyc[c].startedAt
      BY <2>3 DEF Claims, Claimable, Pending
    <3>2. cyc[c].startedAt <= now /\ cyc[c].startedAt \in Nat
      BY <2>2, CoolParts DEF StartedBefore, InCycle, TypeOK, CycleVars
    <3>3. ledger[i].due <= rows[i].nextRetryAt
      BY <1>a, <3>1 DEF Cooling
    <3>4. rows'[i].nextRetryAt = rows[i].nextRetryAt
      BY <2>1, <1>r DEF MarkInFlight, Row
    <3>5. ledger[i].due <= now
      BY <1>r, <3>1, <3>2, <3>3
    <3> QED BY <2>2, <3>3, <3>4, <3>5 DEF Cooling
  <2>4. CASE i \notin ids
    <3>1. rows'[i] = rows[i]
      BY <2>1, <2>4 DEF MarkInFlight
    <3>2. \A d \in Caller : task'[d][i] = "todo" => task[d][i] = "todo"
      BY <2>1, <2>4 DEF TypeOK
    <3> QED BY <1>a, <1>r, <2>2, <3>1, <3>2, CoolFrame
  <2> QED BY <2>3, <2>4
<1>4. ASSUME NEW c \in Caller, NEW k \in Item, StartItem(c, k) PROVE Cooling(i)'
  <2>1. /\ task[c][k] = "todo" /\ task' = [task EXCEPT ![c][k] = "wire"] /\ UNCHANGED <<rows, now>>
        /\ Note(k, [ledger[k] EXCEPT !.tries = @ + 1])
    BY <1>4 DEF StartItem, MayStart, envVars
  <2>2. \A d \in Caller : task'[d][i] = "todo" => task[d][i] = "todo"
    BY <2>1 DEF TypeOK
  <2>3. CASE i \in Stored(rows)
    <3>1. ledger'[i].due = ledger[i].due
      BY <1>r, <2>1, <2>3, NoteKeeps DEF Entry
    <3> QED BY <1>f, <2>1, <2>2, <3>1
  <2>4. CASE i \notin Stored(rows)
    BY <2>1, <2>4 DEF Cooling, Stored, StoredStatus
  <2> QED BY <2>3, <2>4
\* Recording an outcome: the row of the item carries the end of its new cooldown.
<1>e. ASSUME NEW c \in Caller, NEW k \in Item, NEW res \in {"done", "held"}, NEW q,
             task[c][k] \in Active, EndItem(c, k, res, q),
             \A j \in Item \ {k} : q[j] = rows[j] /\ ledger'[j] = ledger[j],
             q[k].status \in {"PENDING", "IN_FLIGHT"} => ledger'[k].due <= q[k].nextRetryAt
      PROVE  Cooling(i)'
  <2>1. /\ rows' = q /\ UNCHANGED now
        /\ \A d \in Caller, j \in Item : task'[d][j] = IF d = c /\ j = k THEN res ELSE task[d][j]
    BY <1>e, EndItemKeeps
  <2>2. CASE i # k
    BY <1>a, <1>e, <1>r, <2>1, <2>2, CoolFrame
  <2>3. CASE i = k
    <3>1. \A d \in Caller : task'[d][i] # "todo"
      BY <1>e, <2>1, <2>3, ActiveAlone DEF Active
    <3> QED BY <1>e, <2>1, <2>3, <3>1 DEF Cooling
  <2> QED BY <2>2, <2>3
<1>5. ASSUME NEW c \in Caller, NEW k \in Item, FailExhausted(c, k) \/ FailTerminally(c, k) PROVE Cooling(i)'
  <2>1. PICK n : /\ EndItem(c, k, "done", MarkFailed(rows, k, n))
                 /\ task[c][k] \in Active /\ UNCHANGED ledger
    BY <1>5 DEF FailExhausted, FailTerminally, MayStart, Active
  <2>q. PICK q : q = MarkFailed(rows, k, n)
    OBVIOUS
  <2>2. \A j \in Item \ {k} : q[j] = rows[j]
    BY <1>r, <2>q DEF MarkFailed, UpdateStatus
  <2>3. q[k].status \notin {"PENDING", "IN_FLIGHT"}
    BY <1>r, <2>q DEF MarkFailed, UpdateStatus, Stored, StoredStatus
  <2> QED BY <1>e, <2>1, <2>q, <2>2, <2>3
<1>6. ASSUME NEW c \in Caller, NEW k \in Item, Succeed(c, k) PROVE Cooling(i)'
  <2>q. PICK q : q = MarkSucceeded(rows, k)
    OBVIOUS
  <2>1. task[c][k] \in Active /\ EndItem(c, k, "done", q) /\ Note(k, NoEntry)
    BY <1>6, <2>q DEF Succeed, Active
  <2>2. \A j \in Item \ {k} : q[j] = rows[j] /\ ledger'[j] = ledger[j]
    BY <1>r, <2>q, <2>1, NoteKeeps DEF MarkSucceeded, Delete
  <2>3. q[k].status \notin {"PENDING", "IN_FLIGHT"}
    BY <1>r, <2>q DEF MarkSucceeded, Delete, GoneRow, Stored, StoredStatus
  <2> QED BY <1>e, <2>1, <2>2, <2>3
\* A retry: the end of the cooldown goes into the row and the history alike.
<1>h. ASSUME NEW c \in Caller, NEW k \in Item, NEW res \in {"done", "held"}, NEW n, NEW due \in Nat, NEW e,
             task[c][k] = "wire", EndItem(c, k, res, MarkRetry(rows, k, n, due)), Note(k, e), e.due = due
      PROVE  Cooling(i)'
  <2>q. PICK q : q = MarkRetry(rows, k, n, due)
    OBVIOUS
  <2>1. task[c][k] \in Active /\ EndItem(c, k, res, q)
    BY <1>h, <2>q DEF Active
  <2>2. \A j \in Item \ {k} : q[j] = rows[j] /\ ledger'[j] = ledger[j]
    BY <1>h, <1>r, <2>q, NoteKeeps DEF MarkRetry, UpdateStatus
  <2>3. CASE k \in Stored(rows)
    <3>1. q[k].nextRetryAt = due
      BY <1>r, <2>q, <2>3 DEF MarkRetry, UpdateStatus
    <3>2. ledger'[k].due = due
      BY <1>h, <2>3, NoteKeeps
    <3>3. ledger'[k].due <= q[k].nextRetryAt
      BY <3>1, <3>2
    <3> QED BY <1>e, <2>1, <2>2, <3>3
  <2>4. CASE k \notin Stored(rows)
    <3>1. q[k].status \notin {"PENDING", "IN_FLIGHT"}
      BY <1>r, <2>q, <2>4 DEF MarkRetry, UpdateStatus, Stored, StoredStatus
    <3> QED BY <1>e, <2>1, <2>2, <3>1
  <2> QED BY <2>3, <2>4
<1>7. ASSUME NEW c \in Caller, NEW k \in Item, Reschedule(c, k) PROVE Cooling(i)'
  <2>1. PICK d \in Delays : /\ EndItem(c, k, "done", MarkRetry(rows, k, cyc[c].seen[k] + 1, now + d))
                           /\ Note(k, [ledger[k] EXCEPT !.due = now + d])
    BY <1>7 DEF Reschedule
  <2>2. task[c][k] = "wire" /\ now + d \in Nat
    BY <1>7, <1>r DEF Reschedule
  <2>3. [ledger[k] EXCEPT !.due = now + d].due = now + d
    BY <1>r DEF Entry
  <2> QED BY <1>h, <2>1, <2>2, <2>3
<1>16. ASSUME NEW c \in Caller, NEW k \in Item, HoldForCredentialRenewal(c, k) PROVE Cooling(i)'
  <2>1. PICK wait \in HoldDelays :
          /\ EndItem(c, k, "held", MarkRetry(rows, k, cyc[c].seen[k], now + wait))
          /\ Note(k, [ledger[k] EXCEPT !.held = @ + 1, !.due = now + wait])
    BY <1>16 DEF HoldForCredentialRenewal
  <2>2. task[c][k] = "wire"
    BY <1>16 DEF HoldForCredentialRenewal
  <2>3. now + wait \in Nat
    BY <1>r DEF HoldDelays
  <2>4. [ledger[k] EXCEPT !.held = @ + 1, !.due = now + wait].due = now + wait
    <3>1. ledger[k] \in Entry
      BY <1>r
    <3> QED BY <3>1 DEF Entry
  <2> QED BY <1>h, <2>1, <2>2, <2>3, <2>4
<1>8. ASSUME NEW c \in Caller, NEW k \in Item, LoseOutcome(c, k) PROVE Cooling(i)'
  <2>1. /\ task[c][k] \in Active /\ EndItem(c, k, "done", rows)
        /\ Note(k, [ledger[k] EXCEPT !.lost = IF task[c][k] = "wire" THEN @ + 1 ELSE @])
    BY <1>8 DEF LoseOutcome, MayStart, Active
  <2>2. \A j \in Item \ {k} : ledger'[j] = ledger[j]
    BY <2>1, NoteKeeps
  <2>3. rows[k].status \in {"PENDING", "IN_FLIGHT"} => ledger'[k].due <= rows[k].nextRetryAt
    <3>1. rows[k].status \in {"PENDING", "IN_FLIGHT"} => k \in Stored(rows)
      BY DEF Stored, StoredStatus
    <3>2. k \in Stored(rows) => ledger'[k].due = ledger[k].due
      BY <1>r, <2>1, NoteKeeps DEF Entry
    <3> QED BY <1>a, <3>1, <3>2 DEF Cooling
  <2> QED BY <1>e, <2>1, <2>2, <2>3
<1>9. ASSUME NEW c \in Caller, Release(c) \/ AbortCancelled(c) \/ AbortUnreleased(c) PROVE Cooling(i)'
  <2>1. /\ task' = [task EXCEPT ![c] = Unstarted(c)] /\ UNCHANGED <<ledger, now>>
        /\ rows' = rows \/ rows' = ResetInFlight(rows)
    BY <1>9 DEF Release, AbortCancelled, AbortUnreleased, envVars
  <2>2. \A d \in Caller : task'[d][i] = "todo" => task[d][i] = "todo"
    BY <2>1, DropKeeps
  <2> QED BY <1>f, <2>1, <2>2
<1>10. ASSUME NEW c \in Caller, Finish(c) PROVE Cooling(i)'
  <2>1. UNCHANGED <<rows, ledger, now>> /\ task' = [task EXCEPT ![c] = NoTask]
    BY <1>10 DEF Finish, envVars
  <2>2. \A d \in Caller : task'[d][i] = "todo" => task[d][i] = "todo"
    BY <2>1 DEF NoTask, TypeOK
  <2> QED BY <1>f, <2>1, <2>2
<1>11. CASE RecoveryWorker \/ SyncWorkerReset
  BY <1>11, <1>f DEF RecoveryWorker, SyncWorkerReset, ResetUnderMutex, envVars
<1>12. CASE Enqueue
  <2>1. PICK ids \in SUBSET {j \in Item : rows[j].status = "NEW"} : rows' = Insert(rows, ids, now)
    BY <1>12 DEF Enqueue
  <2>2. UNCHANGED <<task, ledger, now>>
    BY <1>12 DEF Enqueue, envVars
  <2>3. CASE i \notin ids
    <3>1. rows'[i] = rows[i]
      BY <2>1, <2>3 DEF Insert
    <3> QED BY <1>a, <1>r, <2>2, <3>1, CoolFrame
  <2>4. CASE i \in ids
    <3>1. rows[i].status = "NEW" /\ rows'[i].nextRetryAt = 0
      BY <2>1, <2>4 DEF Insert
    <3>2. \A d \in Caller : task'[d][i] # "todo"
      BY <2>2, <3>1, ActiveAlone DEF Active
    <3>3. ledger'[i].due = 0
      BY <2>2, <3>1 DEF AccountInv, NoHistoryYet, NoEntry
    <3> QED BY <3>1, <3>2, <3>3 DEF Cooling
  <2> QED BY <2>3, <2>4
<1>13. CASE Remove
  <2>1. PICK ids \in {{j} : j \in Stored(rows)} \cup {Stored(rows)} :
          /\ rows' = Delete(rows, ids)
          /\ ledger' = [j \in Item |-> IF j \in ids THEN NoEntry ELSE ledger[j]]
    BY <1>13 DEF Remove
  <2>2. UNCHANGED <<task, now>>
    BY <1>13 DEF Remove, envVars
  <2>3. CASE i \in ids
    <3>1. rows'[i].status = "GONE"
      BY <2>1, <2>3 DEF Delete, GoneRow
    <3> QED BY <3>1 DEF Cooling, Stored, StoredStatus
  <2>4. CASE i \notin ids
    <3>1. rows'[i] = rows[i] /\ ledger'[i] = ledger[i]
      BY <2>1, <2>4 DEF Delete
    <3> QED BY <1>a, <1>r, <2>2, <3>1, CoolFrame
  <2> QED BY <2>3, <2>4
<1>14. CASE Configure \/ PauseOrResume \/ AttachEngine \/ Tick \/ RecoveryEnds \/ UNCHANGED vars
  <2>1. UNCHANGED <<rows, task, ledger>> /\ now' \in {now, now + 1}
    BY <1>14 DEF Configure, PauseOrResume, AttachEngine, Tick, RecoveryEnds, vars, envVars
  <2> QED BY <2>1, <1>f
<1>15. CASE Crash
  <2>1. UNCHANGED <<rows, now>> /\ \A d \in Caller : task'[d][i] # "todo"
    BY <1>15 DEF Crash, NoTask
  <2>2. ledger'[i].due = ledger[i].due
    BY <1>15, <1>r DEF Crash, Entry
  <2> QED BY <2>1, <2>2, <1>f
<1> QED
  BY <1>1, <1>2, <1>3, <1>4, <1>5, <1>6, <1>7, <1>8, <1>9, <1>10, <1>11, <1>12, <1>13, <1>14, <1>15, <1>16
     DEF Next, Locked, CycleStep, ItemStep, Environment, Quiet

\* The row of an item that may still be sent carries the end of its cooldown.
THEOREM CoolCorrect == Spec => []CoolInv
<1>1. Init => CoolInv
  BY DEF Init, NewRow, NoTask, NoEntry, CoolInv, InCycle, Stored, StoredStatus
<1> QED BY <1>1, StepCool, TypeCorrect, CoreCorrect, AccountCorrect, PTL DEF Spec

\* Only StartItem counts a dispatch.
LEMMA OnlyStartTries ==
  ASSUME TypeOK, [Next]_vars, NEW i \in Item, ledger'[i].tries > ledger[i].tries
  PROVE  \E c \in Caller : StartItem(c, i)
<1>r. ledger[i] \in Entry /\ ledger[i].tries \in Nat /\ ledger \in [Item -> Entry]
  BY DEF TypeOK, Entry
<1>u. ASSUME ledger'[i].tries = ledger[i].tries \/ ledger'[i].tries = 0 PROVE FALSE
  BY <1>u, <1>r
<1>n. ASSUME NEW k \in Item, NEW e, Note(k, e), k = i => e.tries \in {ledger[i].tries, 0} PROVE FALSE
  <2>1. ledger'[i].tries \in {ledger[i].tries, 0}
    BY <1>n, NoteKeeps DEF NoEntry
  <2> QED BY <2>1, <1>u
<1>e. \A k \in Item : ledger[k] \in Entry
  BY DEF TypeOK
<1>1. ASSUME UNCHANGED ledger PROVE FALSE
  BY <1>1, <1>u
<1>2. ASSUME NEW c \in Caller, NEW k \in Item, Succeed(c, k) PROVE FALSE
  BY <1>2, <1>n DEF Succeed, NoEntry
<1>3. ASSUME NEW c \in Caller, NEW k \in Item, Reschedule(c, k) PROVE FALSE
  <2>1. PICK d \in Delays : Note(k, [ledger[k] EXCEPT !.due = now + d])
    BY <1>3 DEF Reschedule
  <2>2. [ledger[k] EXCEPT !.due = now + d].tries = ledger[k].tries
    BY <1>e DEF Entry
  <2> QED BY <1>n, <2>1, <2>2
<1>4. ASSUME NEW c \in Caller, NEW k \in Item, HoldForCredentialRenewal(c, k) PROVE FALSE
  <2>1. PICK wait \in HoldDelays : Note(k, [ledger[k] EXCEPT !.held = @ + 1, !.due = now + wait])
    BY <1>4 DEF HoldForCredentialRenewal
  <2>2. [ledger[k] EXCEPT !.held = @ + 1, !.due = now + wait].tries = ledger[k].tries
    BY <1>e DEF Entry
  <2> QED BY <1>n, <2>1, <2>2
<1>5. ASSUME NEW c \in Caller, NEW k \in Item, LoseOutcome(c, k) PROVE FALSE
  <2>1. Note(k, [ledger[k] EXCEPT !.lost = IF task[c][k] = "wire" THEN @ + 1 ELSE @])
    BY <1>5 DEF LoseOutcome
  <2>2. [ledger[k] EXCEPT !.lost = IF task[c][k] = "wire" THEN @ + 1 ELSE @].tries = ledger[k].tries
    BY <1>e DEF Entry
  <2> QED BY <1>n, <2>1, <2>2
<1>6. ASSUME Remove PROVE FALSE
  <2>1. ledger'[i] \in {NoEntry, ledger[i]}
    BY <1>6 DEF Remove
  <2> QED BY <2>1, <1>u DEF NoEntry
<1>7. ASSUME Crash PROVE FALSE
  <2>1. ledger'[i].tries = ledger[i].tries
    BY <1>7, <1>e DEF Crash, Entry
  <2> QED BY <2>1, <1>u
<1>8. ASSUME NEW c \in Caller, NEW k \in Item, StartItem(c, k) PROVE k = i
  <2>1. Note(k, [ledger[k] EXCEPT !.tries = @ + 1])
    BY <1>8 DEF StartItem
  <2> QED BY <2>1, <1>n
<1>9. ASSUME NEW c \in Caller, Quiet(c) PROVE FALSE
  BY <1>9, <1>1, QuietKeeps
<1>10. ASSUME NEW c \in Caller, \/ Enter(c) \/ Begin(c) \/ Claim(c) \/ Release(c)
                               \/ AbortCancelled(c) \/ AbortUnreleased(c) \/ Finish(c)
       PROVE  FALSE
  BY <1>10, <1>1 DEF Enter, ReadPolicy, Begin, Claim, Release, AbortCancelled, AbortUnreleased, Finish
<1>11. ASSUME NEW c \in Caller, NEW k \in Item, FailExhausted(c, k) \/ FailTerminally(c, k) PROVE FALSE
  BY <1>11, <1>1 DEF FailExhausted, FailTerminally
<1>12. ASSUME \/ Configure \/ PauseOrResume \/ AttachEngine \/ Tick \/ RecoveryEnds \/ RecoveryWorker
              \/ SyncWorkerReset \/ Enqueue \/ UNCHANGED vars
       PROVE  FALSE
  BY <1>12, <1>1 DEF Configure, PauseOrResume, AttachEngine, Tick, RecoveryEnds, RecoveryWorker,
                     SyncWorkerReset, Enqueue, vars
<1>13. PICK c \in Caller, k \in Item : StartItem(c, k)
  BY <1>2, <1>3, <1>4, <1>5, <1>6, <1>7, <1>9, <1>10, <1>11, <1>12
     DEF Next, Locked, CycleStep, ItemStep, Environment, Quiet
<1> QED BY <1>8, <1>13

\* No dispatch of an item starts before the cooldown of its last recorded failure has run,
\* whatever cycles, resets and process deaths lie between (CooldownKept; claimPending and
\* dispatchItem).
THEOREM CooldownKeptHolds == Spec => CooldownKept
<1>1. ASSUME TypeOK, CoolInv, [Next]_vars, NEW i \in Item, ledger'[i].tries > ledger[i].tries
      PROVE  now >= ledger[i].due
  <2>1. PICK c \in Caller : StartItem(c, i)
    BY <1>1, OnlyStartTries
  <2>2. task[c][i] = "todo" /\ Note(i, [ledger[i] EXCEPT !.tries = @ + 1])
    BY <2>1 DEF StartItem, MayStart
  <2>3. now \in Nat /\ ledger[i].due \in Nat /\ ledger[i].tries \in Nat
    BY <1>1 DEF TypeOK, Entry
  <2>4. i \in Stored(rows)
    <3>1. ASSUME i \notin Stored(rows) PROVE ledger'[i].tries = 0
      BY <1>1, <2>2, <3>1, NoteKeeps DEF NoEntry
    <3> QED BY <1>1, <2>3, <3>1
  <2>5. ledger[i].due <= now
    BY <1>1, <2>2, <2>4 DEF CoolInv
  <2> QED BY <2>3, <2>5
<1>2. TypeOK /\ CoolInv /\ [Next]_vars
        => [\A i \in Item : ledger'[i].tries > ledger[i].tries => now >= ledger[i].due]_vars
  BY <1>1
<1> QED BY <1>2, TypeCorrect, CoolCorrect, PTL DEF Spec, CooldownKept
-----------------------------------------------------------------------------
(***************************************************************************)
(* The engine implements DeliveryQueue: an item is queued, sent or gone    *)
(* whatever cycle, claim or reset its row is in, and every step is a step  *)
(* of the abstract queue or none.                                          *)
(***************************************************************************)

\* The abstract queue sees a step of one item only.
LEMMA MoveSeen ==
  ASSUME NEW k \in Item, NEW to, NEW cost,
         Lifecycle(k)' = to, rows'[k].attempts = rows[k].attempts + cost,
         \A j \in Item \ {k} : Lifecycle(j)' = Lifecycle(j) /\ rows'[j].attempts = rows[j].attempts
  PROVE  Delivery!Move(k, to, cost)
<1>1. [i \in Item |-> Lifecycle(i)]' = [[i \in Item |-> Lifecycle(i)] EXCEPT ![k] = to]
  OBVIOUS
<1>2. [i \in Item |-> rows[i].attempts]' = [[i \in Item |-> rows[i].attempts] EXCEPT ![k] = @ + cost]
  OBVIOUS
<1> QED BY <1>1, <1>2 DEF Delivery!Move

\* The abstract queue sees nothing of a step that changes no item's life.
LEMMA NothingSeen ==
  ASSUME \A j \in Item : Lifecycle(j)' = Lifecycle(j) /\ rows'[j].attempts = rows[j].attempts
  PROVE  UNCHANGED Delivery!dqVars
BY DEF Delivery!dqVars

\* An item's life is the same if its row's status is, and whether it is being sent.
LEMMA SameLife ==
  ASSUME NEW i \in Item, rows'[i].status = rows[i].status, Sending(i)' <=> Sending(i)
  PROVE  Lifecycle(i)' = Lifecycle(i)
BY DEF Lifecycle

\* An item never enqueued is untouched by every step but its insertion.
LEMMA NewUntouched ==
  ASSUME TypeOK, CoreInv, [Next]_vars, NEW i \in Item, rows'[i].status = "NEW"
  PROVE  rows'[i] = rows[i]
<1>r. rows \in [Item -> Row]
  BY DEF TypeOK
<1>1. ASSUME UNCHANGED rows PROVE rows'[i] = rows[i]
  BY <1>1
<1>2. ASSUME rows' = ResetInFlight(rows) PROVE rows'[i] = rows[i]
  BY <1>2, <1>r DEF ResetInFlight
<1>3. ASSUME NEW k \in Item, NEW n, NEW m,
             \/ rows' = MarkRetry(rows, k, n, m) \/ rows' = MarkFailed(rows, k, n)
             \/ rows' = MarkSucceeded(rows, k)
      PROVE  rows'[i] = rows[i]
  BY <1>3, <1>r DEF MarkRetry, MarkFailed, MarkSucceeded, UpdateStatus, Delete, GoneRow
<1>4. ASSUME NEW c \in Caller, NEW k \in Item, ItemStep(c, k) PROVE rows'[i] = rows[i]
  BY <1>1, <1>3, <1>4 DEF ItemStep, StartItem, FailExhausted, Succeed, Reschedule, HoldForCredentialRenewal,
              FailTerminally, LoseOutcome, EndItem
<1>5. ASSUME NEW c \in Caller, Claim(c) PROVE rows'[i] = rows[i]
  BY <1>5, <1>r DEF Claim, MarkInFlight, Row
<1>6. ASSUME NEW c \in Caller, \/ Enter(c) \/ Begin(c) \/ Release(c) \/ AbortCancelled(c)
                              \/ AbortUnreleased(c) \/ Finish(c)
      PROVE  rows'[i] = rows[i]
  BY <1>1, <1>2, <1>6 DEF Enter, ReadPolicy, Begin, Release, AbortCancelled, AbortUnreleased, Finish
<1>7. ASSUME NEW c \in Caller, Quiet(c) PROVE rows'[i] = rows[i]
  BY <1>7, QuietKeeps
<1>8. ASSUME Enqueue \/ Remove PROVE rows'[i] = rows[i]
  BY <1>8 DEF Enqueue, Insert, Remove, Delete, GoneRow
<1>9. ASSUME \/ Configure \/ PauseOrResume \/ AttachEngine \/ Tick \/ RecoveryEnds \/ RecoveryWorker
             \/ SyncWorkerReset \/ Crash \/ UNCHANGED vars
      PROVE  rows'[i] = rows[i]
  BY <1>1, <1>2, <1>9 DEF Configure, PauseOrResume, AttachEngine, Tick, RecoveryEnds, RecoveryWorker,
                     SyncWorkerReset, ResetUnderMutex, Crash, vars
<1> QED
  BY <1>4, <1>5, <1>6, <1>7, <1>8, <1>9
     DEF Next, Locked, CycleStep, Environment, Quiet

\* A row that was never inserted counts nothing.
NewCountsNothing == \A i \in Item : rows[i].status = "NEW" => rows[i].attempts = 0

\* Which holds in every reachable state.
LEMMA NewCountsNothingHolds == Spec => []NewCountsNothing
<1>1. Init => NewCountsNothing
  BY DEF Init, NewRow, NewCountsNothing
<1>2. TypeOK /\ CoreInv /\ NewCountsNothing /\ [Next]_vars => NewCountsNothing'
  BY NewUntouched DEF NewCountsNothing
<1> QED BY <1>1, <1>2, TypeCorrect, CoreCorrect, PTL DEF Spec

\* Every step of the engine is a step of the delivery queue, or none.
LEMMA StepDelivery ==
  ASSUME TypeOK, CoreInv, AccountInv, NewCountsNothing, [Next]_vars
  PROVE  [Delivery!Next]_(Delivery!dqVars)
<1> USE DispatcherAssumption
<1>r. rows \in [Item -> Row] /\ \A j \in Item : rows[j].attempts \in Nat
  BY DEF TypeOK, Row
<1>n. ASSUME mutex = NoCaller PROVE \A c \in Caller, i \in Item : task[c][i] \notin Active
  BY <1>n, ActiveHoldsMutex DEF CoreInv
\* Steps during which nothing is on the wire, before or after, and which only move
\* rows between PENDING and IN_FLIGHT.
<1>z. ASSUME \A j \in Item : /\ rows'[j].attempts = rows[j].attempts
                             /\ \/ rows'[j].status = rows[j].status
                                \/ {rows'[j].status, rows[j].status} = {"PENDING", "IN_FLIGHT"},
             \A d \in Caller, j \in Item : task[d][j] # "wire" /\ task'[d][j] # "wire"
      PROVE  UNCHANGED Delivery!dqVars
  <2>1. ASSUME NEW j \in Item PROVE Lifecycle(j)' = Lifecycle(j)
    <3>1. ~Sending(j) /\ ~Sending(j)'
      BY <1>z DEF Sending
    <3>2. CASE rows'[j].status = rows[j].status
      BY <3>1, <3>2, SameLife
    <3>3. CASE {rows'[j].status, rows[j].status} = {"PENDING", "IN_FLIGHT"}
      <4>1. rows'[j].status \in {"PENDING", "IN_FLIGHT"} /\ rows[j].status \in {"PENDING", "IN_FLIGHT"}
        BY <3>3
      <4>2. Lifecycle(j)' = "queued"
        BY <3>1, <4>1 DEF Lifecycle
      <4>3. Lifecycle(j) = "queued"
        BY <3>1, <4>1 DEF Lifecycle
      <4> QED BY <4>2, <4>3
    <3> QED BY <1>z, <3>2, <3>3
  <2> QED BY <1>z, <2>1, NothingSeen
<1>s. ASSUME UNCHANGED <<rows, task>> PROVE UNCHANGED Delivery!dqVars
  <2>1. \A j \in Item : Lifecycle(j)' = Lifecycle(j) /\ rows'[j].attempts = rows[j].attempts
    BY <1>s DEF Lifecycle, Sending
  <2> QED BY <2>1, NothingSeen
<1>x. ASSUME rows' = ResetInFlight(rows), NEW j \in Item
      PROVE  /\ rows'[j].attempts = rows[j].attempts
             /\ \/ rows'[j].status = rows[j].status
                \/ {rows'[j].status, rows[j].status} = {"PENDING", "IN_FLIGHT"}
  BY <1>x, <1>r DEF ResetInFlight, InFlight, Row
<1>1. ASSUME NEW c \in Caller, Quiet(c) PROVE UNCHANGED Delivery!dqVars
  BY <1>1, <1>s, QuietKeeps
<1>2. ASSUME NEW c \in Caller, Enter(c) \/ Begin(c) PROVE UNCHANGED Delivery!dqVars
  BY <1>2, <1>s DEF Enter, ReadPolicy, Begin
<1>3. ASSUME NEW c \in Caller, Claim(c) PROVE UNCHANGED Delivery!dqVars
  <2>1. PICK ids \in Claims(rows, cyc[c].startedAt, BatchSize) :
          /\ rows' = MarkInFlight(rows, ids)
          /\ task' = [task EXCEPT ![c] = [j \in Item |-> IF j \in ids THEN "todo" ELSE "none"]]
    BY <1>3 DEF Claim
  <2>2. \A d \in Caller, j \in Item : task[d][j] \notin Active
    BY <1>3, NobodyActive DEF Claim
  <2>3. \A d \in Caller, j \in Item : task[d][j] # "wire" /\ task'[d][j] # "wire"
    BY <2>1, <2>2 DEF TypeOK, Active
  <2>4. \A j \in ids : rows[j].status = "PENDING"
    BY DEF Claims, Claimable, Pending
  <2>5. \A j \in Item : /\ rows'[j].attempts = rows[j].attempts
                        /\ rows'[j].status = IF j \in ids THEN "IN_FLIGHT" ELSE rows[j].status
    BY <2>1, <1>r DEF MarkInFlight, Row
  <2> QED BY <1>z, <2>3, <2>4, <2>5
<1>4. ASSUME NEW c \in Caller, NEW k \in Item, StartItem(c, k) PROVE [Delivery!Next]_(Delivery!dqVars)
  <2>1. /\ task[c][k] = "todo" /\ task' = [task EXCEPT ![c][k] = "wire"] /\ UNCHANGED rows
        /\ task[c][k] \in Active
    BY <1>4 DEF StartItem, MayStart, Active
  <2>2. \A d \in Caller, j \in Item : task'[d][j] = IF d = c /\ j = k THEN "wire" ELSE task[d][j]
    BY <2>1 DEF TypeOK
  <2>3. \A j \in Item \ {k} : Lifecycle(j)' = Lifecycle(j) /\ rows'[j].attempts = rows[j].attempts
    BY <2>1, <2>2 DEF Lifecycle, Sending
  <2>4. CASE rows[k].status = "IN_FLIGHT"
    <3>1. ~Sending(k) /\ Sending(k)'
      BY <2>1, <2>2, ActiveAlone DEF Sending, Active
    <3>2. Lifecycle(k) = "queued"
      BY <2>4, <3>1 DEF Lifecycle
    <3>3. Lifecycle(k)' = "sending"
      BY <2>1, <2>4, <3>1 DEF Lifecycle
    <3>4. rows'[k].attempts = rows[k].attempts + 0
      BY <1>r, <2>1
    <3>5. Delivery!Move(k, "sending", 0)
      BY <2>3, <3>3, <3>4, MoveSeen
    <3> QED BY <3>2, <3>5 DEF Delivery!Next, Delivery!Send
  <2>5. CASE rows[k].status = "GONE"
    <3>1. Lifecycle(k)' = "gone" /\ Lifecycle(k) = "gone"
      BY <2>1, <2>5 DEF Lifecycle
    <3> QED BY <2>1, <2>3, <3>1, NothingSeen
  <2> QED BY <2>1, <2>4, <2>5, ActiveAlone
\* Recording an outcome: a step of the recorded item alone, and none if its row is gone.
<1>e. ASSUME NEW c \in Caller, NEW k \in Item, NEW res \in {"done", "held"}, NEW q,
             task[c][k] \in Active, EndItem(c, k, res, q),
             \A j \in Item \ {k} : q[j] = rows[j],
             k \notin Stored(rows) => q[k] = rows[k]
      PROVE  /\ \A j \in Item \ {k} : Lifecycle(j)' = Lifecycle(j) /\ rows'[j].attempts = rows[j].attempts
             /\ rows[k].status = "IN_FLIGHT" \/ UNCHANGED Delivery!dqVars
             /\ rows[k].status = "IN_FLIGHT" => Lifecycle(k) = IF task[c][k] = "wire" THEN "sending" ELSE "queued"
             /\ ~Sending(k)' /\ rows' = q
  <2>1. /\ rows' = q
        /\ \A d \in Caller, j \in Item : task'[d][j] = IF d = c /\ j = k THEN res ELSE task[d][j]
    BY <1>e, EndItemKeeps
  <2>2. \A j \in Item \ {k} : Lifecycle(j)' = Lifecycle(j) /\ rows'[j].attempts = rows[j].attempts
    BY <1>e, <2>1 DEF Lifecycle, Sending
  <2>3. rows[k].status = "GONE" => UNCHANGED Delivery!dqVars
    <3>1. ASSUME rows[k].status = "GONE" PROVE rows'[k] = rows[k] /\ Lifecycle(k)' = Lifecycle(k)
      BY <1>e, <2>1, <3>1 DEF Stored, StoredStatus, Lifecycle
    <3> QED BY <2>2, <3>1, NothingSeen
  <2>4. Sending(k) <=> task[c][k] = "wire"
    BY <1>e, ActiveAlone DEF Sending, Active
  <2>5. ~Sending(k)'
    BY <1>e, <2>1, ActiveAlone DEF Sending, Active
  <2>6. rows[k].status = "IN_FLIGHT" => Lifecycle(k) = IF task[c][k] = "wire" THEN "sending" ELSE "queued"
    BY <2>4 DEF Lifecycle
  <2> QED BY <1>e, <2>1, <2>2, <2>3, <2>5, <2>6, ActiveAlone
<1>k. ASSUME NEW c \in Caller, NEW k \in Item, task[c][k] \in Active, rows[k].status = "IN_FLIGHT"
      PROVE  k \in Stored(rows) /\ cyc[c].seen[k] = rows[k].attempts
  BY <1>k DEF Stored, StoredStatus, AccountInv, SeenFresh
<1>5. ASSUME NEW c \in Caller, NEW k \in Item, FailExhausted(c, k) \/ FailTerminally(c, k)
      PROVE  [Delivery!Next]_(Delivery!dqVars)
  <2>1. PICK cost \in {0, 1} : /\ EndItem(c, k, "done", MarkFailed(rows, k, cyc[c].seen[k] + cost))
                               /\ task[c][k] = IF cost = 1 THEN "wire" ELSE "todo"
    <3>1. CASE FailExhausted(c, k)
      <4>1. cyc[c].seen[k] = cyc[c].seen[k] + 0
        BY DEF TypeOK, CycleVars
      <4> QED BY <3>1, <4>1 DEF FailExhausted, MayStart
    <3>2. CASE FailTerminally(c, k)
      BY <3>2 DEF FailTerminally
    <3> QED BY <1>5, <3>1, <3>2
  <2>q. PICK q : q = MarkFailed(rows, k, cyc[c].seen[k] + cost)
    OBVIOUS
  <2>2. task[c][k] \in Active
    BY <2>1 DEF Active
  <2>3. (\A j \in Item \ {k} : q[j] = rows[j]) /\ (k \notin Stored(rows) => q[k] = rows[k])
    BY <1>r, <2>q DEF MarkFailed, UpdateStatus
  <2>4. /\ \A j \in Item \ {k} : Lifecycle(j)' = Lifecycle(j) /\ rows'[j].attempts = rows[j].attempts
        /\ rows[k].status = "IN_FLIGHT" \/ UNCHANGED Delivery!dqVars
        /\ rows[k].status = "IN_FLIGHT" => Lifecycle(k) = IF task[c][k] = "wire" THEN "sending" ELSE "queued"
        /\ ~Sending(k)' /\ rows' = q
    BY <1>e, <2>1, <2>q, <2>2, <2>3
  <2>5. CASE rows[k].status = "IN_FLIGHT"
    <3>1. k \in Stored(rows) /\ cyc[c].seen[k] = rows[k].attempts
      BY <1>k, <2>2, <2>5
    <3>2. q[k].status = "FAILED" /\ q[k].attempts = rows[k].attempts + cost
      BY <1>r, <2>q, <3>1 DEF MarkFailed, UpdateStatus
    <3>3. Lifecycle(k)' = "failed"
      BY <2>4, <3>2 DEF Lifecycle
    <3>4. Delivery!Move(k, "failed", cost)
      BY <2>4, <3>2, <3>3, MoveSeen
    <3>5. Lifecycle(k) = IF cost = 1 THEN "sending" ELSE "queued"
      BY <2>1, <2>4, <2>5
    <3>6. Delivery!Fail(k)
      BY <3>4, <3>5 DEF Delivery!Fail
    <3> QED BY <3>6 DEF Delivery!Next
  <2> QED BY <2>4, <2>5
<1>6. ASSUME NEW c \in Caller, NEW k \in Item, Succeed(c, k) PROVE [Delivery!Next]_(Delivery!dqVars)
  <2>q. PICK q : q = MarkSucceeded(rows, k)
    OBVIOUS
  <2>1. task[c][k] = "wire" /\ task[c][k] \in Active /\ EndItem(c, k, "done", q)
    BY <1>6, <2>q DEF Succeed, Active
  <2>2. (\A j \in Item \ {k} : q[j] = rows[j]) /\ (k \notin Stored(rows) => q[k] = rows[k])
    BY <1>r, <2>q DEF MarkSucceeded, Delete
  <2>3. /\ \A j \in Item \ {k} : Lifecycle(j)' = Lifecycle(j) /\ rows'[j].attempts = rows[j].attempts
        /\ rows[k].status = "IN_FLIGHT" \/ UNCHANGED Delivery!dqVars
        /\ rows[k].status = "IN_FLIGHT" => Lifecycle(k) = IF task[c][k] = "wire" THEN "sending" ELSE "queued"
        /\ ~Sending(k)' /\ rows' = q
    BY <1>e, <2>1, <2>2
  <2>4. CASE rows[k].status = "IN_FLIGHT"
    <3>1. q[k].status = "GONE" /\ q[k].attempts = 0
      BY <1>k, <2>q, <2>1, <2>4 DEF MarkSucceeded, Delete, GoneRow
    <3>2. Lifecycle(k)' = "gone" /\ rows'[k].attempts = 0 /\ Lifecycle(k) = "sending"
      BY <2>1, <2>3, <2>4, <3>1 DEF Lifecycle
    <3>3. [i \in Item |-> Lifecycle(i)]' = [[i \in Item |-> Lifecycle(i)] EXCEPT ![k] = "gone"]
      BY <2>3, <3>2
    <3>4. [i \in Item |-> rows[i].attempts]' = [[i \in Item |-> rows[i].attempts] EXCEPT ![k] = 0]
      BY <2>3, <3>2
    <3>5. Delivery!Deliver(k)
      BY <3>2, <3>3, <3>4 DEF Delivery!Deliver
    <3> QED BY <3>5 DEF Delivery!Next
  <2> QED BY <2>3, <2>4
\* Back to the queue, for an attempt or for none.
<1>t. ASSUME NEW c \in Caller, NEW k \in Item, NEW res \in {"done", "held"}, NEW cost \in {0, 1}, NEW due,
             task[c][k] = "wire", EndItem(c, k, res, MarkRetry(rows, k, cyc[c].seen[k] + cost, due))
      PROVE  [Delivery!Next]_(Delivery!dqVars)
  <2>q. PICK q : q = MarkRetry(rows, k, cyc[c].seen[k] + cost, due)
    OBVIOUS
  <2>1. task[c][k] \in Active /\ EndItem(c, k, res, q)
    BY <1>t, <2>q DEF Active
  <2>2. (\A j \in Item \ {k} : q[j] = rows[j]) /\ (k \notin Stored(rows) => q[k] = rows[k])
    BY <1>r, <2>q DEF MarkRetry, UpdateStatus
  <2>3. /\ \A j \in Item \ {k} : Lifecycle(j)' = Lifecycle(j) /\ rows'[j].attempts = rows[j].attempts
        /\ rows[k].status = "IN_FLIGHT" \/ UNCHANGED Delivery!dqVars
        /\ rows[k].status = "IN_FLIGHT" => Lifecycle(k) = IF task[c][k] = "wire" THEN "sending" ELSE "queued"
        /\ ~Sending(k)' /\ rows' = q
    BY <1>e, <2>1, <2>2
  <2>4. CASE rows[k].status = "IN_FLIGHT"
    <3>1. k \in Stored(rows) /\ cyc[c].seen[k] = rows[k].attempts
      BY <1>k, <2>1, <2>4
    <3>2. q[k].status = "PENDING" /\ q[k].attempts = rows[k].attempts + cost
      BY <1>r, <2>q, <3>1 DEF MarkRetry, UpdateStatus
    <3>3. Lifecycle(k)' = "queued" /\ Lifecycle(k) = "sending"
      BY <1>t, <2>3, <2>4, <3>2 DEF Lifecycle
    <3>4. Delivery!Move(k, "queued", cost)
      BY <2>3, <3>2, <3>3, MoveSeen
    <3>5. Delivery!Retry(k)
      BY <3>3, <3>4 DEF Delivery!Retry
    <3> QED BY <3>5 DEF Delivery!Next
  <2> QED BY <2>3, <2>4
<1>7. ASSUME NEW c \in Caller, NEW k \in Item, Reschedule(c, k) PROVE [Delivery!Next]_(Delivery!dqVars)
  <2>1. PICK d \in Delays : EndItem(c, k, "done", MarkRetry(rows, k, cyc[c].seen[k] + 1, now + d))
    BY <1>7 DEF Reschedule
  <2> QED BY <1>7, <1>t, <2>1 DEF Reschedule
<1>8. ASSUME NEW c \in Caller, NEW k \in Item, HoldForCredentialRenewal(c, k)
      PROVE  [Delivery!Next]_(Delivery!dqVars)
  <2>1. PICK wait \in HoldDelays : EndItem(c, k, "held", MarkRetry(rows, k, cyc[c].seen[k], now + wait))
    BY <1>8 DEF HoldForCredentialRenewal
  <2>2. cyc[c].seen[k] = cyc[c].seen[k] + 0
    BY DEF TypeOK, CycleVars
  <2> QED BY <1>8, <1>t, <2>1, <2>2 DEF HoldForCredentialRenewal
<1>9. ASSUME NEW c \in Caller, NEW k \in Item, LoseOutcome(c, k) PROVE [Delivery!Next]_(Delivery!dqVars)
  <2>1. task[c][k] \in Active /\ EndItem(c, k, "done", rows)
    BY <1>9 DEF LoseOutcome, MayStart, Active
  <2>2. /\ \A j \in Item \ {k} : Lifecycle(j)' = Lifecycle(j) /\ rows'[j].attempts = rows[j].attempts
        /\ rows[k].status = "IN_FLIGHT" \/ UNCHANGED Delivery!dqVars
        /\ rows[k].status = "IN_FLIGHT" => Lifecycle(k) = IF task[c][k] = "wire" THEN "sending" ELSE "queued"
        /\ ~Sending(k)' /\ rows' = rows
    BY <1>e, <2>1
  <2>3. CASE rows[k].status = "IN_FLIGHT"
    <3>1. Lifecycle(k)' = "queued"
      BY <2>2, <2>3 DEF Lifecycle
    <3>2. CASE task[c][k] = "wire"
      <4>1. rows'[k].attempts = rows[k].attempts + 0
        BY <1>r, <2>2
      <4>2. Delivery!Move(k, "queued", 0)
        BY <2>2, <3>1, <4>1, MoveSeen
      <4>3. Delivery!Retry(k)
        BY <2>2, <2>3, <3>2, <4>2 DEF Delivery!Retry
      <4> QED BY <4>3 DEF Delivery!Next
    <3>3. CASE task[c][k] # "wire"
      BY <2>2, <2>3, <3>1, <3>3, NothingSeen
    <3> QED BY <3>2, <3>3
  <2> QED BY <2>2, <2>3
<1>10. ASSUME NEW c \in Caller, Release(c) \/ AbortCancelled(c) \/ AbortUnreleased(c)
       PROVE  UNCHANGED Delivery!dqVars
  <2>1. /\ pc[c] \in {"release", "abortCancel", "abortError"}
        /\ task' = [task EXCEPT ![c] = Unstarted(c)]
        /\ rows' = rows \/ rows' = ResetInFlight(rows)
    BY <1>10 DEF Release, AbortCancelled, AbortUnreleased
  <2>2. mutex = c /\ \A j \in Item : task[c][j] # "wire"
    BY <2>1 DEF CoreInv, MutexHeld, InCycle, TaskPhases
  <2>3. \A d \in Caller, j \in Item : task[d][j] \in Active => mutex = d
    BY ActiveHoldsMutex DEF CoreInv
  <2>4. \A d \in Caller, j \in Item : task[d][j] # "wire"
    BY <2>2, <2>3 DEF Active
  <2>5. \A d \in Caller, j \in Item : task'[d][j] # "wire"
    <3>1. \A d \in Caller, j \in Item : task'[d][j] \in {task[d][j], "none"}
      BY <2>1, DropKeeps
    <3> QED BY <2>4, <3>1
  <2> QED BY <1>x, <1>z, <2>1, <2>4, <2>5
<1>11. ASSUME NEW c \in Caller, Finish(c) PROVE UNCHANGED Delivery!dqVars
  <2>1. UNCHANGED rows /\ task' = [task EXCEPT ![c] = NoTask]
    BY <1>11 DEF Finish
  <2>2. \A d \in Caller, j \in Item : task[d][j] \notin Active
    BY <1>11, NobodyActive DEF Finish
  <2>3. \A d \in Caller, j \in Item : task[d][j] # "wire" /\ task'[d][j] # "wire"
    BY <2>1, <2>2 DEF NoTask, TypeOK, Active
  <2> QED BY <1>z, <2>1, <2>3
<1>12. ASSUME RecoveryWorker \/ SyncWorkerReset PROVE UNCHANGED Delivery!dqVars
  <2>1. mutex = NoCaller /\ rows' = ResetInFlight(rows) /\ UNCHANGED task
    BY <1>12 DEF RecoveryWorker, SyncWorkerReset, ResetUnderMutex
  <2>2. \A d \in Caller, j \in Item : task[d][j] # "wire" /\ task'[d][j] # "wire"
    BY <1>n, <2>1 DEF Active
  <2> QED BY <1>x, <1>z, <2>1, <2>2
<1>13. ASSUME Enqueue PROVE [Delivery!Next]_(Delivery!dqVars)
  <2>1. PICK ids \in SUBSET {j \in Item : rows[j].status = "NEW"} : rows' = Insert(rows, ids, now)
    BY <1>13 DEF Enqueue
  <2>2. UNCHANGED task /\ ids \subseteq Item
    BY <1>13 DEF Enqueue
  <2>3. \A j \in ids : Lifecycle(j) = "new" /\ Lifecycle(j)' = "queued"
    BY <2>1, <2>2 DEF Lifecycle, Insert
  <2>4. \A j \in Item \ ids : Lifecycle(j)' = Lifecycle(j)
    BY <2>1, <2>2 DEF Lifecycle, Sending, Insert
  <2>5. \A j \in Item : rows'[j].attempts = rows[j].attempts
    BY <2>1 DEF Insert, NewCountsNothing
  <2>6. Delivery!Submit(ids)
    BY <2>2, <2>3, <2>4, <2>5 DEF Delivery!Submit
  <2> QED BY <2>2, <2>6 DEF Delivery!Next
<1>14. ASSUME Remove PROVE [Delivery!Next]_(Delivery!dqVars)
  <2>1. PICK ids \in {{j} : j \in Stored(rows)} \cup {Stored(rows)} : rows' = Delete(rows, ids)
    BY <1>14 DEF Remove
  <2>2. UNCHANGED task /\ ids \subseteq Stored(rows) /\ ids \subseteq Item
    BY <1>14, <2>1 DEF Remove, Stored
  <2>3. \A j \in ids : Lifecycle(j) \in {"queued", "sending", "failed"}
    BY <2>2 DEF Lifecycle, Stored, StoredStatus
  <2>4. \A j \in ids : Lifecycle(j)' = "gone" /\ rows'[j].attempts = 0
    BY <2>1, <2>2 DEF Lifecycle, Delete, GoneRow
  <2>5. \A j \in Item \ ids : Lifecycle(j)' = Lifecycle(j) /\ rows'[j].attempts = rows[j].attempts
    BY <2>1, <2>2 DEF Lifecycle, Sending, Delete
  <2>6. Delivery!Remove(ids)
    BY <2>2, <2>3, <2>4, <2>5 DEF Delivery!Remove
  <2> QED BY <2>2, <2>6 DEF Delivery!Next
\* The process dies: what was on the wire is queued again.
<1>15. ASSUME Crash PROVE [Delivery!Next]_(Delivery!dqVars)
  <2>1. UNCHANGED rows /\ \A j \in Item : ~Sending(j)'
    BY <1>15 DEF Crash, NoTask, Sending
  <2>2. ASSUME NEW j \in Item
        PROVE  Lifecycle(j)' = IF Lifecycle(j) = "sending" THEN "queued" ELSE Lifecycle(j)
    <3>1. rows[j].status \in {"NEW", "GONE", "FAILED", "PENDING", "IN_FLIGHT"}
      BY <1>r DEF Row, StoredStatus
    <3>2. rows'[j].status = rows[j].status /\ ~Sending(j)'
      BY <2>1
    <3> QED BY <3>1, <3>2 DEF Lifecycle
  <2>3. [i \in Item |-> Lifecycle(i)]'
          = [i \in Item |-> IF [j \in Item |-> Lifecycle(j)][i] = "sending" THEN "queued"
                                                               ELSE [j \in Item |-> Lifecycle(j)][i]]
    BY <2>2
  <2>4. [i \in Item |-> rows[i].attempts]'
          = [i \in Item |-> IF i \in {} THEN [j \in Item |-> rows[j].attempts][i] + 1
                                      ELSE [j \in Item |-> rows[j].attempts][i]]
    BY <2>1
  <2>5. {} \in SUBSET {i \in Item : [j \in Item |-> Lifecycle(j)][i] = "sending"}
    OBVIOUS
  <2>6. Delivery!Die
    BY <2>3, <2>4, <2>5 DEF Delivery!Die
  <2> QED BY <2>6 DEF Delivery!Next
<1>16. ASSUME Configure \/ PauseOrResume \/ AttachEngine \/ Tick \/ RecoveryEnds \/ UNCHANGED vars
       PROVE  UNCHANGED Delivery!dqVars
  BY <1>16, <1>s DEF Configure, PauseOrResume, AttachEngine, Tick, RecoveryEnds, vars
<1> QED
  BY <1>1, <1>2, <1>3, <1>4, <1>5, <1>6, <1>7, <1>8, <1>9, <1>10, <1>11, <1>12, <1>13, <1>14, <1>15, <1>16
     DEF Next, Locked, CycleStep, ItemStep, Environment, Quiet

\* The flush engine, with its cycles, its mutex, cancellation, recovery and faults,
\* implements the at-least-once delivery queue (ImplementsDelivery).
THEOREM ImplementsDeliveryHolds == Spec => ImplementsDelivery
<1>1. Init => Delivery!Init
  BY DEF Init, NewRow, Lifecycle, Delivery!Init
<1>2. TypeOK /\ CoreInv /\ AccountInv /\ NewCountsNothing /\ [Next]_vars => [Delivery!Next]_(Delivery!dqVars)
  BY StepDelivery
<1> QED
  BY <1>1, <1>2, TypeCorrect, CoreCorrect, AccountCorrect, NewCountsNothingHolds, PTL
     DEF Spec, ImplementsDelivery, Delivery!Spec
=============================================================================
