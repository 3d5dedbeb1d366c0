------------------------- MODULE IosDispatcherProofs -------------------------
(***************************************************************************)
(* Theorems of IosDispatcher.                                              *)
(***************************************************************************)
EXTENDS IosDispatcher, TLAPS

\* OneCycle says of an actor, which every await leaves, what a mutex would give it.
IInv == pc \in [Caller -> PC] /\ OneCycle

\* The engine starts with no flush under way (init).
LEMMA InitIInv == Init => IInv
  BY DEF Init, IInv, OneCycle, InCycle, PC

\* A caller that is in a cycle stays in it, or leaves it, and touches no other
\* (runCycle).
LEMMA StaysInCycle ==
  ASSUME IInv, NEW c \in Caller, pc[c] \in InCycle, running' = running,
         NEW l \in PC, pc' = [pc EXCEPT ![c] = l]
  PROVE  IInv'
  BY DEF IInv, OneCycle, InCycle, PC

\* No step of a cycle lets another one in (fetchPending, the dispatch loop, the outcomes,
\* recordResult, a statement that throws).
LEMMA CycleStepIInv ==
  ASSUME IInv, NEW c \in Caller, CycleStep(c)
  PROVE  IInv'
<1>1. CASE Fetch(c)
  BY <1>1, StaysInCycle DEF Fetch, Goto, InCycle, PC
<1>2. CASE StartItem(c)
  BY <1>2, StaysInCycle DEF StartItem, Goto, InCycle, PC
<1>3. CASE LeaveLoop(c)
  BY <1>3, StaysInCycle DEF LeaveLoop, Goto, InCycle, PC
<1>4. CASE Succeed(c)
  BY <1>4, StaysInCycle DEF Succeed, Answered, Goto, InCycle, PC
<1>5. CASE Reschedule(c)
  <2>1. pc[c] = "wire" /\ running' = running /\ pc' = [pc EXCEPT ![c] = "item"]
    BY <1>5 DEF Reschedule, Answered, Goto
  <2> QED
    BY <2>1, StaysInCycle DEF InCycle, PC
<1>6. CASE FailTerminally(c)
  <2>1. pc[c] = "wire" /\ running' = running /\ pc' = [pc EXCEPT ![c] = "item"]
    BY <1>6 DEF FailTerminally, Answered, Goto
  <2> QED
    BY <2>1, StaysInCycle DEF InCycle, PC
<1>7. CASE RejectCredential(c)
  <2>1. pc[c] = "wire" /\ running' = running /\ pc' = [pc EXCEPT ![c] = "record"]
    BY <1>7 DEF RejectCredential, Answered, Goto
  <2> QED
    BY <2>1, StaysInCycle DEF InCycle, PC
<1>8. CASE RecordResult(c)
  BY <1>8, StaysInCycle DEF RecordResult, LeaveCycle, Goto, InCycle, PC
<1>9. CASE Throws(c)
  <2>1. pc[c] \in InCycle /\ running' = running /\ pc' = [pc EXCEPT ![c] = "finish"]
    BY <1>9 DEF Throws, LeaveCycle, Goto, InCycle
  <2> QED
    BY <2>1, StaysInCycle DEF PC
<1> QED
  BY <1>1, <1>2, <1>3, <1>4, <1>5, <1>6, <1>7, <1>8, <1>9 DEF CycleStep, ItemStep

\* Neither do the other steps: a flush finds the flag down, and the flag falls only when
\* its cycle is over (flush, finishCycle).
LEMMA NextIInv == IInv /\ [Next]_vars => IInv'
<1> SUFFICES ASSUME IInv, [Next]_vars
             PROVE  IInv'
  OBVIOUS
<1>1. ASSUME NEW c \in Caller, Flush(c)
      PROVE  IInv'
  <2>1. /\ ~running /\ running' = TRUE
        /\ pc' = [pc EXCEPT ![c] = "fetch"]
    BY <1>1 DEF Flush, BeginCycle, Goto
  <2> QED
    BY <2>1 DEF IInv, OneCycle, InCycle, PC
<1>2. ASSUME NEW c \in Caller, CycleStep(c)
      PROVE  IInv'
  BY <1>2, CycleStepIInv
<1>3. ASSUME NEW c \in Caller, Finish(c)
      PROVE  IInv'
  BY <1>3 DEF Finish, Goto, IInv, OneCycle, InCycle, PC
<1>4. ASSUME NEW c \in Caller, Return(c)
      PROVE  IInv'
  BY <1>4 DEF Return, Goto, IInv, OneCycle, InCycle, PC
<1>5. CASE Kill
  BY <1>5 DEF Kill, IInv, OneCycle, InCycle, PC
<1>6. CASE UNCHANGED <<pc, running>>
  BY <1>6 DEF IInv, OneCycle
<1>7. CASE Recover \/ Enqueue \/ Remove \/ UpdateConfig \/ Tick \/ (\E p \in BOOLEAN : SetPaused(p)) \/ UNCHANGED vars
  <2>1. UNCHANGED <<pc, running>>
    BY <1>7 DEF Recover, Enqueue, Remove, UpdateConfig, Tick, SetPaused, vars
  <2> QED
    BY <2>1, <1>6
<1> QED
  BY <1>1, <1>2, <1>3, <1>4, <1>5, <1>7 DEF Next

\* No two cycles of the iOS engine ever overlap, for any number of callers and items,
\* any batch and any policy, through kills and failing statements (flush, finishCycle).
THEOREM OneCycleHolds == Spec => []OneCycle
<1>1. IInv => OneCycle
  BY DEF IInv
<1> QED
  BY InitIInv, NextIInv, <1>1, PTL DEF Spec
-----------------------------------------------------------------------------
(***************************************************************************)
(* Type correctness.                                                       *)
(***************************************************************************)

\* What every statement of the DAO makes of the table, row by row (SyncItemDao).
LEMMA RowsAfter ==
  ASSUME NEW q \in [Item -> Row], NEW j \in Item
  PROVE  /\ \A i, s, a, n : UpdateStatus(q, i, s, a, n)[j] =
              IF j = i /\ i \in Stored(q)
              THEN [status |-> s, attempts |-> a, nextRetryAt |-> n, createdAt |-> q[i].createdAt]
              ELSE q[j]
         /\ \A S : Delete(q, S)[j] = IF j \in S /\ j \in Stored(q) THEN GoneRow ELSE q[j]
         /\ ResetInFlight(q)[j] = IF q[j].status = "IN_FLIGHT" THEN [q[j] EXCEPT !.status = "PENDING"] ELSE q[j]
<1>1. \A i, s, a, n : UpdateStatus(q, i, s, a, n)[j] =
        IF j = i /\ i \in Stored(q)
        THEN [status |-> s, attempts |-> a, nextRetryAt |-> n, createdAt |-> q[i].createdAt]
        ELSE q[j]
  BY DEF UpdateStatus, Stored
<1>2. \A S : Delete(q, S)[j] = IF j \in S /\ j \in Stored(q) THEN GoneRow ELSE q[j]
  BY DEF Delete
<1>3. ResetInFlight(q)[j] = IF q[j].status = "IN_FLIGHT" THEN [q[j] EXCEPT !.status = "PENDING"] ELSE q[j]
  BY DEF ResetInFlight, InFlight
<1> QED BY <1>1, <1>2, <1>3

\* They map a table to a table.
LEMMA TableTypes ==
  ASSUME NEW q \in [Item -> Row]
  PROVE  /\ \A s \in StoredStatus : \A i, a, n :
              (i \in Stored(q) => a \in Nat /\ n \in Nat) => UpdateStatus(q, i, s, a, n) \in [Item -> Row]
         /\ \A S : Delete(q, S) \in [Item -> Row]
         /\ ResetInFlight(q) \in [Item -> Row]
         /\ \A n \in Nat : \A S : Insert(q, S, n) \in [Item -> Row]
<1>1. ASSUME NEW i, NEW s \in StoredStatus, NEW a, NEW n, i \in Stored(q) => a \in Nat /\ n \in Nat
      PROVE  UpdateStatus(q, i, s, a, n) \in [Item -> Row]
  <2>1. CASE i \in Stored(q)
    <3>1. i \in Item /\ q[i].createdAt \in Nat
      BY <2>1 DEF Stored, Row
    <3>2. [status |-> s, attempts |-> a, nextRetryAt |-> n, createdAt |-> q[i].createdAt] \in Row
      BY <1>1, <2>1, <3>1 DEF Row
    <3> QED BY <2>1, <3>2 DEF UpdateStatus
  <2>2. CASE i \notin Stored(q)
    BY <2>2 DEF UpdateStatus
  <2> QED BY <2>1, <2>2
<1>2. \A S : Delete(q, S) \in [Item -> Row]
  BY DEF Delete, GoneRow, Row, StoredStatus
<1>3. ResetInFlight(q) \in [Item -> Row]
  BY DEF ResetInFlight, Row, StoredStatus
<1>4. \A n \in Nat : \A S : Insert(q, S, n) \in [Item -> Row]
  BY DEF Insert, Row, StoredStatus
<1> QED BY <1>1, <1>2, <1>3, <1>4

\* Noting what happened to an item keeps the histories well typed, stored or not.
LEMMA NoteTypes ==
  ASSUME TypeOK, NEW i, NEW e, i \in Stored(rows) => e \in Entry, Note(i, e)
  PROVE  ledger' \in [Item -> Entry]
<1>1. NoEntry \in Entry
  BY DEF NoEntry, Entry, Sources
<1> QED BY <1>1 DEF Note, TypeOK

\* The values a cycle keeps between two awaits.
LEMMA LocalTypes ==
  ASSUME TypeOK, NEW c \in Caller
  PROVE  /\ cyc[c].snap \in [Item -> Row] /\ cyc[c].todo \in SUBSET Item /\ cyc[c].item \in Item \cup {NoItem}
         /\ cyc[c].sentWith \in Sources /\ cyc[c].held \in Nat
         /\ NoCycle \in CycleVars
         /\ \A r \in CycleVars : Locals(c, r) => cyc' \in [Caller -> CycleVars]
         /\ \A l \in PC : Goto(c, l) => pc' \in [Caller -> PC]
<1>1. cyc[c] \in CycleVars
  BY DEF TypeOK
<1>2. NoCycle \in CycleVars
  BY DEF NoCycle, CycleVars, NewRow, Row, Sources
<1>3. \A r \in CycleVars : Locals(c, r) => cyc' \in [Caller -> CycleVars]
  BY DEF Locals, TypeOK
<1>4. \A l \in PC : Goto(c, l) => pc' \in [Caller -> PC]
  BY DEF Goto, TypeOK
<1> QED BY <1>1, <1>2, <1>3, <1>4 DEF CycleVars

\* A step of a cycle keeps the types: in particular a refund writes back the count of a row
\* that was fetched, never one below zero.
LEMMA CycleTypes ==
  ASSUME TypeOK, NEW c \in Caller, CycleStep(c)
  PROVE  TypeOK'
<1>t. /\ rows \in [Item -> Row] /\ now \in Nat \ {0} /\ config \in Config /\ paused \in BOOLEAN
      /\ startup \in {"pending", "done"} /\ faults \in Nat /\ running \in BOOLEAN
      /\ pc \in [Caller -> PC] /\ cyc \in [Caller -> CycleVars] /\ ledger \in [Item -> Entry]
  BY DEF TypeOK
<1>l. /\ cyc[c].snap \in [Item -> Row] /\ cyc[c].todo \in SUBSET Item /\ cyc[c].item \in Item \cup {NoItem}
      /\ cyc[c].sentWith \in Sources /\ cyc[c].held \in Nat /\ NoCycle \in CycleVars
  BY LocalTypes
<1>c. \A r \in CycleVars : Locals(c, r) => cyc' \in [Caller -> CycleVars]
  BY LocalTypes
<1>p. \A l \in PC : Goto(c, l) => pc' \in [Caller -> PC]
  BY LocalTypes
<1>r. \A i \in Item : rows[i].attempts \in Nat /\ rows[i].nextRetryAt \in Nat
  BY <1>t DEF Row
<1>s. \A i \in Stored(rows) : i \in Item
  BY DEF Stored
<1>g. \A i \in Item : /\ ledger[i] \in Entry
                      /\ [ledger[i] EXCEPT !.lost = ledger[i].lost + 1] \in Entry
  <2>1. ASSUME NEW i \in Item PROVE ledger[i].lost + 1 \in Nat
    BY <1>t DEF Entry
  <2> QED BY <1>t, <2>1 DEF Entry
<1>h. config.source \in Sources
  BY <1>t DEF Config
<1>u. UNCHANGED envVars => /\ now' \in Nat \ {0} /\ config' \in Config /\ paused' \in BOOLEAN
                           /\ startup' \in {"pending", "done"} /\ faults' \in Nat
  BY <1>t DEF envVars
<1>w. ASSUME UNCHANGED envVars, UNCHANGED running, rows' \in [Item -> Row], pc' \in [Caller -> PC],
             cyc' \in [Caller -> CycleVars], ledger' \in [Item -> Entry]
      PROVE  TypeOK'
  BY <1>w, <1>u, <1>t DEF TypeOK
<1>e. [NoCycle EXCEPT !.held = cyc[c].held] \in CycleVars
  BY <1>l DEF NoCycle, CycleVars
<1>1. CASE Fetch(c)
  <2>1. PICK ids \in Claims(rows, now, BatchSize) :
          /\ Locals(c, [cyc[c] EXCEPT !.snap = [i \in Item |-> IF i \in ids THEN rows[i] ELSE NewRow],
                                      !.todo = ids])
          /\ Goto(c, IF ids = {} THEN "record" ELSE "item")
    BY <1>1 DEF Fetch
  <2>2. ids \subseteq Item
    BY DEF Claims, Claimable, Pending
  <2>3. [i \in Item |-> IF i \in ids THEN rows[i] ELSE NewRow] \in [Item -> Row]
    BY <1>t DEF NewRow, Row
  <2>4. cyc[c] \in CycleVars
    BY <1>t
  <2>5. [cyc[c] EXCEPT !.snap = [i \in Item |-> IF i \in ids THEN rows[i] ELSE NewRow], !.todo = ids] \in CycleVars
    BY <2>2, <2>3, <2>4 DEF CycleVars
  <2>6. cyc' \in [Caller -> CycleVars] /\ pc' \in [Caller -> PC]
    BY <2>1, <2>5, <1>c, <1>p DEF PC
  <2> QED BY <1>1, <2>6, <1>t, <1>w DEF Fetch
<1>2. CASE StartItem(c)
  <2>1. PICK i \in Heads(cyc[c].snap, cyc[c].todo) :
          /\ rows' = MarkAttempt(rows, i)
          /\ Locals(c, [cyc[c] EXCEPT !.todo = cyc[c].todo \ {i}, !.item = i, !.sentWith = config.source])
          /\ Note(i, [ledger[i] EXCEPT !.tries = ledger[i].tries + 1, !.carried = config.source, !.answer = "none"])
    BY <1>2 DEF StartItem
  <2>2. i \in Item
    BY <1>l DEF Heads
  <2>3. rows' \in [Item -> Row]
    <3>1. rows[i].attempts + 1 \in Nat /\ rows[i].nextRetryAt \in Nat
      BY <1>r, <2>2
    <3> QED BY <2>1, <3>1, <1>t, TableTypes DEF MarkAttempt, StoredStatus
  <2>4. cyc' \in [Caller -> CycleVars]
    <3>1. [cyc[c] EXCEPT !.todo = cyc[c].todo \ {i}, !.item = i, !.sentWith = config.source] \in CycleVars
      BY <1>t, <1>l, <1>h, <2>2 DEF CycleVars
    <3> QED BY <2>1, <3>1, <1>c
  <2>5. ledger' \in [Item -> Entry]
    <3>1. ledger[i].tries + 1 \in Nat
      BY <1>t, <2>2 DEF Entry
    <3>2. [ledger[i] EXCEPT !.tries = ledger[i].tries + 1, !.carried = config.source, !.answer = "none"] \in Entry
      BY <1>t, <1>h, <2>2, <3>1 DEF Entry
    <3> QED BY <2>1, <3>2, NoteTypes
  <2> QED BY <1>2, <2>3, <2>4, <2>5, <1>p, <1>w DEF StartItem, PC
<1>3. CASE LeaveLoop(c)
  BY <1>3, <1>p, <1>t, <1>w DEF LeaveLoop, PC
<1>4. ASSUME NEW q, NEW e, NEW l \in PC, Answered(c, q, e, l), q \in [Item -> Row],
             cyc[c].item \in Stored(rows) => e \in Entry, cyc' \in [Caller -> CycleVars]
      PROVE  TypeOK'
  BY <1>4, <1>p, <1>w, NoteTypes DEF Answered
<1>5. CASE Succeed(c)
  <2>1. MarkSucceeded(rows, cyc[c].item) \in [Item -> Row]
    BY <1>t, TableTypes DEF MarkSucceeded
  <2>2. NoEntry \in Entry
    BY DEF NoEntry, Entry, Sources
  <2> QED BY <1>5, <1>4, <1>t, <2>1, <2>2 DEF Succeed, PC
<1>6. CASE Reschedule(c)
  <2>1. PICK d \in Delays : Answered(c, MarkPendingForRetry(rows, cyc[c].item, now + d),
                              [ledger[cyc[c].item] EXCEPT !.due = now + d, !.answer = "other"], "item")
    BY <1>6 DEF Reschedule
  <2>2. now + d \in Nat
    BY <1>t, IosDispatcherAssumption
  <2>3. MarkPendingForRetry(rows, cyc[c].item, now + d) \in [Item -> Row]
    BY <2>2, <1>t, <1>r, <1>s, TableTypes DEF MarkPendingForRetry, StoredStatus
  <2>4. cyc[c].item \in Stored(rows) => [ledger[cyc[c].item] EXCEPT !.due = now + d, !.answer = "other"] \in Entry
    BY <2>2, <1>g, <1>s DEF Entry
  <2> QED BY <1>6, <2>1, <2>3, <2>4, <1>4, <1>t DEF Reschedule, PC
<1>7. CASE FailTerminally(c)
  <2>1. PICK answer \in {"unauthorized", "other"} :
          Answered(c, UpdateStatus(rows, cyc[c].item, "FAILED", rows[cyc[c].item].attempts, rows[cyc[c].item].nextRetryAt),
                      [ledger[cyc[c].item] EXCEPT !.answer = answer], "item")
    BY <1>7 DEF FailTerminally
  <2>2. UpdateStatus(rows, cyc[c].item, "FAILED", rows[cyc[c].item].attempts, rows[cyc[c].item].nextRetryAt)
          \in [Item -> Row]
    BY <1>t, <1>r, <1>s, TableTypes DEF StoredStatus
  <2>3. cyc[c].item \in Stored(rows) => [ledger[cyc[c].item] EXCEPT !.answer = answer] \in Entry
    BY <1>g, <1>s DEF Entry
  <2> QED BY <1>7, <2>1, <2>2, <2>3, <1>4, <1>t DEF FailTerminally, PC
<1>8. CASE RejectCredential(c)
  <2>1. PICK wait \in HoldDelays :
          /\ Answered(c, UpdateStatus(rows, cyc[c].item, "PENDING", Refunded(c, cyc[c].item), now + wait),
                      [ledger[cyc[c].item] EXCEPT !.held = ledger[cyc[c].item].held + 1, !.due = now + wait,
                                                  !.answer = "unauthorized"], "record")
          /\ Locals(c, [cyc[c] EXCEPT !.held = now + wait])
    BY <1>8 DEF RejectCredential
  <2>2. wait \in Nat
    BY IosDispatcherAssumption DEF HoldDelays
  <2>3. now + wait \in Nat
    BY <1>t, <2>2
  <2>4. UpdateStatus(rows, cyc[c].item, "PENDING", Refunded(c, cyc[c].item), now + wait) \in [Item -> Row]
    <3>1. cyc[c].item \in Stored(rows) => Refunded(c, cyc[c].item) \in Nat
      BY <1>l, <1>s DEF Refunded, Row
    <3> QED BY <2>3, <3>1, <1>t, TableTypes DEF StoredStatus
  <2>5. ASSUME cyc[c].item \in Stored(rows)
        PROVE  [ledger[cyc[c].item] EXCEPT !.held = ledger[cyc[c].item].held + 1, !.due = now + wait,
                                           !.answer = "unauthorized"] \in Entry
    <3>1. ledger[cyc[c].item] \in Entry
      BY <2>5, <1>g, <1>s
    <3>2. ledger[cyc[c].item].held + 1 \in Nat
      BY <3>1 DEF Entry
    <3> QED BY <3>1, <3>2, <2>3 DEF Entry
  <2>6. cyc' \in [Caller -> CycleVars]
    <3>1. [cyc[c] EXCEPT !.held = now + wait] \in CycleVars
      BY <1>t, <2>3 DEF CycleVars
    <3> QED BY <2>1, <3>1, <1>c
  <2> QED BY <2>1, <2>4, <2>5, <2>6, <1>4 DEF PC
<1>9. CASE RecordResult(c)
  BY <1>9, <1>e, <1>c, <1>p, <1>t, <1>w DEF RecordResult, LeaveCycle, PC
<1>10. CASE Throws(c)
  <2>1. pc' \in [Caller -> PC] /\ cyc' \in [Caller -> CycleVars]
    BY <1>10, <1>e, <1>c, <1>p DEF Throws, LeaveCycle, PC
  <2>2. ledger' \in [Item -> Entry]
    BY <1>10, <1>t, <1>g, <1>s, NoteTypes DEF Throws
  <2>3. faults' \in Nat
    BY <1>10, <1>t DEF Throws, Fault
  <2> QED BY <1>10, <2>1, <2>2, <2>3, <1>t DEF Throws, TypeOK
<1> QED BY <1>1, <1>2, <1>3, <1>5, <1>6, <1>7, <1>8, <1>9, <1>10 DEF CycleStep, ItemStep

\* The engine starts well typed.
LEMMA InitTypes == Init => TypeOK
<1> SUFFICES ASSUME Init PROVE TypeOK
  OBVIOUS
<1>1. NewRow \in Row /\ NoEntry \in Entry /\ NoCycle \in CycleVars
  BY DEF NewRow, Row, NoEntry, Entry, NoCycle, CycleVars, Sources
<1>2. rows \in [Item -> Row] /\ now \in Nat \ {0} /\ config \in Config /\ paused \in BOOLEAN
  BY <1>1 DEF Init
<1>3. startup \in {"pending", "done"} /\ faults \in Nat /\ running \in BOOLEAN
  BY DEF Init
<1>4. pc \in [Caller -> PC] /\ cyc \in [Caller -> CycleVars] /\ ledger \in [Item -> Entry]
  BY <1>1 DEF Init, PC
<1> QED BY <1>2, <1>3, <1>4 DEF TypeOK

\* Every other step keeps the types too (flush, recovery, the bridge, the OS).
LEMMA StepTypes == TypeOK /\ [Next]_vars => TypeOK'
<1> SUFFICES ASSUME TypeOK, [Next]_vars PROVE TypeOK'
  OBVIOUS
<1>t. /\ rows \in [Item -> Row] /\ now \in Nat \ {0} /\ config \in Config /\ paused \in BOOLEAN
      /\ startup \in {"pending", "done"} /\ faults \in Nat /\ running \in BOOLEAN
      /\ pc \in [Caller -> PC] /\ cyc \in [Caller -> CycleVars] /\ ledger \in [Item -> Entry]
  BY DEF TypeOK
<1>e. NoEntry \in Entry /\ NoCycle \in CycleVars
  BY DEF NoEntry, Entry, Sources, NoCycle, CycleVars, NewRow, Row
<1>1. ASSUME NEW c \in Caller, Flush(c) PROVE TypeOK'
  <2>1. PICK s \in Reloaded \ {"UNAVAILABLE"} : config' = [config EXCEPT !.source = s]
    BY <1>1 DEF Flush, BeginCycle
  <2>2. s \in Sources
    BY <1>t DEF Reloaded, Sources, Config
  <2>3. config' \in Config
    BY <2>1, <2>2, <1>t DEF Config
  <2>4. pc' \in [Caller -> PC]
    BY <1>1, <1>t DEF Flush, BeginCycle, Goto, PC
  <2> QED BY <1>1, <2>3, <2>4, <1>t DEF Flush, BeginCycle, TypeOK
<1>2. ASSUME NEW c \in Caller, Finish(c) \/ Return(c) PROVE TypeOK'
  <2>1. pc' \in [Caller -> PC]
    BY <1>2, <1>t DEF Finish, Return, Goto, PC
  <2>2. cyc' \in [Caller -> CycleVars]
    BY <1>2, <1>t, <1>e DEF Finish, Return, Locals
  <2> QED BY <1>2, <2>1, <2>2, <1>t DEF Finish, Return, TypeOK, envVars
<1>3. CASE Recover
  <2>1. rows' \in [Item -> Row]
    BY <1>3, <1>t, TableTypes DEF Recover
  <2>2. faults' \in Nat
    BY <1>3, <1>t DEF Recover, Fault
  <2> QED BY <1>3, <2>1, <2>2, <1>t DEF Recover, TypeOK
<1>4. CASE Enqueue
  <2>1. now \in Nat
    BY <1>t
  <2>2. rows' \in [Item -> Row]
    BY <1>4, <2>1, <1>t, TableTypes DEF Enqueue
  <2> QED BY <1>4, <2>2, <1>t DEF Enqueue, TypeOK, envVars
<1>5. CASE Remove
  <2>1. rows' \in [Item -> Row] /\ ledger' \in [Item -> Entry]
    BY <1>5, <1>e, <1>t, TableTypes DEF Remove
  <2> QED BY <1>5, <2>1, <1>t DEF Remove, TypeOK, envVars
<1>6. CASE UpdateConfig
  <2>1. config' \in Config
    BY <1>6 DEF UpdateConfig, Config, Sources
  <2> QED BY <1>6, <2>1, <1>t DEF UpdateConfig, TypeOK
<1>7. CASE Kill
  <2>1. ledger' \in [Item -> Entry]
    <3>1. ASSUME NEW i \in Item PROVE [ledger[i] EXCEPT !.lost = ledger[i].lost + 1] \in Entry
      <4>1. ledger[i] \in Entry /\ ledger[i].lost + 1 \in Nat
        BY <1>t DEF Entry
      <4> QED BY <4>1 DEF Entry
    <3> QED BY <1>7, <3>1, <1>t DEF Kill
  <2>2. pc' \in [Caller -> PC] /\ cyc' \in [Caller -> CycleVars]
    BY <1>7, <1>e DEF Kill, PC
  <2>3. faults' \in Nat
    BY <1>7, <1>t DEF Kill, Fault
  <2> QED BY <1>7, <2>1, <2>2, <2>3, <1>t DEF Kill, TypeOK
<1>8. CASE Tick
  <2>1. now' \in Nat \ {0}
    BY <1>8, <1>t DEF Tick
  <2> QED BY <1>8, <2>1, <1>t DEF Tick, TypeOK
<1>9. ASSUME NEW p \in BOOLEAN, SetPaused(p) PROVE TypeOK'
  BY <1>9, <1>t DEF SetPaused, TypeOK
<1>10. CASE UNCHANGED vars
  BY <1>10, <1>t DEF vars, envVars, TypeOK
<1> QED BY <1>1, <1>2, <1>3, <1>4, <1>5, <1>6, <1>7, <1>8, <1>9, <1>10, CycleTypes DEF Next

\* The table, the callers' locals and the histories have their types; no refund takes a
\* count of attempts below zero (markCredentialRejected).
THEOREM TypeCorrect == Spec => []TypeOK
BY InitTypes, StepTypes, PTL DEF Spec
-----------------------------------------------------------------------------
(***************************************************************************)
(* What a step does to an item.                                            *)
(***************************************************************************)
Same(i) ==
  rows'[i] = rows[i] /\ ledger'[i] = ledger[i] /\ (BeingSent(i)' <=> BeingSent(i))

Inserted(i) ==
  /\ rows[i].status = "NEW" /\ ~BeingSent(i)'
  /\ rows'[i] = [status |-> "PENDING", attempts |-> 0, nextRetryAt |-> 0, createdAt |-> now]
  /\ ledger'[i] = ledger[i]

\* Delivered, or removed from the queue.
Dropped(i) == i \in Stored(rows) /\ rows'[i] = GoneRow /\ ledger'[i] = NoEntry

\* Recovered at launch, sent or not.
ResetBack(i) ==
  /\ rows[i].status = "IN_FLIGHT" /\ rows'[i] = [rows[i] EXCEPT !.status = "PENDING"]
  /\ ledger'[i] = ledger[i] /\ (BeingSent(i)' <=> BeingSent(i))

Updated(i, s, a, n) ==
  rows'[i] = [status |-> s, attempts |-> a, nextRetryAt |-> n, createdAt |-> rows[i].createdAt]

Started(i) ==
  /\ rows[i].status = "PENDING" /\ rows[i].nextRetryAt <= now
  /\ ~BeingSent(i) /\ BeingSent(i)'
  /\ Updated(i, "IN_FLIGHT", rows[i].attempts + 1, rows[i].nextRetryAt)
  /\ ledger'[i] = [ledger[i] EXCEPT !.tries = ledger[i].tries + 1, !.carried = config.source, !.answer = "none"]

\* A dispatch under way, counted in the row, is over.
Ended(i) ==
  /\ BeingSent(i) /\ ~BeingSent(i)'
  /\ rows[i].status \in {"PENDING", "IN_FLIGHT"} /\ rows[i].attempts > 0

RetriedAt(i, t) ==
  /\ Ended(i) /\ \E b \in Budgets : rows[i].attempts < b
  /\ Updated(i, "PENDING", rows[i].attempts, t)
  /\ ledger'[i] = [ledger[i] EXCEPT !.due = t, !.answer = "other"]

FailedWith(i, answer) ==
  /\ Ended(i) /\ (answer = "unauthorized" => ledger[i].carried = "LIVE")
  /\ Updated(i, "FAILED", rows[i].attempts, rows[i].nextRetryAt)
  /\ ledger'[i] = [ledger[i] EXCEPT !.answer = answer]

RejectedUntil(i, t) ==
  /\ Ended(i) /\ ledger[i].carried = "PERSISTED"
  /\ Updated(i, "PENDING", rows[i].attempts - 1, t)
  /\ ledger'[i] = [ledger[i] EXCEPT !.held = ledger[i].held + 1, !.due = t, !.answer = "unauthorized"]

\* Its outcome never reached the row.
Lost(i) ==
  /\ Ended(i) /\ rows'[i] = rows[i]
  /\ ledger'[i] = [ledger[i] EXCEPT !.lost = ledger[i].lost + 1]

\* An answer came, or will never come.
Resolved(i) ==
  \/ Dropped(i) \/ Lost(i)
  \/ \E t \in Nat : RetriedAt(i, t) \/ RejectedUntil(i, t)
  \/ \E answer \in {"unauthorized", "other"} : FailedWith(i, answer)

Alone(k) == \A j \in Item \ {k} : Same(j)

\* Whoever is in a cycle alone decides what is being sent, before and after a step.
LEMMA SendsOne ==
  ASSUME NEW c \in Caller
  PROVE  /\ OneCycle /\ pc[c] \in InCycle => \A i : Sending(i) <=> pc[c] = "wire" /\ cyc[c].item = i
         /\ OneCycle' /\ pc'[c] \in InCycle => \A i : Sending(i)' <=> pc'[c] = "wire" /\ cyc'[c].item = i
BY DEF OneCycle, InCycle, Sending

\* A caller that is not sending and does not begin to changes nothing about what is sent.
LEMMA NotSending ==
  ASSUME TypeOK, NEW c \in Caller, pc[c] # "wire", NEW l \in PC \ {"wire"}, Goto(c, l),
         UNCHANGED cyc \/ \E r : Locals(c, r)
  PROVE  \A i : Sending(i)' <=> Sending(i)
<1>1. \A d \in Caller : (pc'[d] = "wire") <=> (pc[d] = "wire")
  BY DEF TypeOK, Goto
<1>2. \A d \in Caller : pc[d] = "wire" => cyc'[d] = cyc[d]
  BY DEF TypeOK, Locals
<1> QED BY <1>1, <1>2 DEF Sending

\* The steps that write no row touch no item (flush, the fetch, the end of a cycle, the
\* configuration, the pause).
LEMMA QuietShape ==
  ASSUME TypeOK,
         \/ \E c \in Caller : Flush(c) \/ Fetch(c) \/ LeaveLoop(c) \/ RecordResult(c)
                              \/ Finish(c) \/ Return(c) \/ (Throws(c) /\ pc[c] # "wire")
         \/ UpdateConfig \/ Tick \/ (\E p \in BOOLEAN : SetPaused(p)) \/ UNCHANGED vars
  PROVE  \A i \in Item : Same(i)
<1>1. ASSUME UNCHANGED <<rows, ledger>>, \A i : Sending(i)' <=> Sending(i) PROVE \A i \in Item : Same(i)
  BY <1>1 DEF Same, BeingSent
<1>2. ASSUME NEW c \in Caller,
             Flush(c) \/ Fetch(c) \/ LeaveLoop(c) \/ RecordResult(c) \/ Finish(c) \/ Return(c)
             \/ (Throws(c) /\ pc[c] # "wire")
      PROVE  \A i \in Item : Same(i)
  <2>1. UNCHANGED <<rows, ledger>> /\ pc[c] # "wire"
    BY <1>2 DEF Flush, BeginCycle, Fetch, LeaveLoop, RecordResult, Finish, Return, Throws, envVars
  <2>2. PICK l \in PC \ {"wire"} : Goto(c, l)
    BY <1>2 DEF Flush, BeginCycle, Fetch, LeaveLoop, RecordResult, LeaveCycle, Finish, Return, Throws, PC
  <2>3. UNCHANGED cyc \/ \E r : Locals(c, r)
    BY <1>2 DEF Flush, BeginCycle, Fetch, LeaveLoop, RecordResult, LeaveCycle, Finish, Return, Throws
  <2> QED BY <1>1, <2>1, <2>2, <2>3, NotSending
<1>3. ASSUME UpdateConfig \/ Tick \/ (\E p \in BOOLEAN : SetPaused(p)) \/ UNCHANGED vars
      PROVE  UNCHANGED <<rows, ledger>> /\ UNCHANGED <<pc, cyc>>
  BY <1>3 DEF UpdateConfig, Tick, SetPaused, vars
<1> QED BY <1>1, <1>2, <1>3 DEF Sending

\* An update writes the three columns of one row, if it is there (SyncItemDao).
LEMMA UpdateShape ==
  ASSUME TypeOK, NEW k \in Item, NEW s, NEW a, NEW n, rows' = UpdateStatus(rows, k, s, a, n)
  PROVE  /\ \A j \in Item \ {k} : rows'[j] = rows[j]
         /\ k \in Stored(rows) => Updated(k, s, a, n)
         /\ k \notin Stored(rows) => rows' = rows
<1>1. rows \in [Item -> Row] /\ rows[k] \in Row
  BY DEF TypeOK
<1>2. CASE k \in Stored(rows)
  BY <1>1, <1>2 DEF UpdateStatus, Updated
<1>3. CASE k \notin Stored(rows)
  BY <1>3 DEF UpdateStatus
<1> QED BY <1>2, <1>3

\* A note is about one item, and there is none about a row that is not there.
LEMMA NoteShape ==
  ASSUME TypeOK, NEW k \in Item, NEW e, Note(k, e)
  PROVE  /\ \A j \in Item \ {k} : ledger'[j] = ledger[j]
         /\ ledger'[k] = IF k \in Stored(rows) THEN e ELSE NoEntry
  BY DEF Note, TypeOK

\* The start of a dispatch concerns the head of the list alone, whose row is still the
\* one that was fetched, or gone (markInFlight).
LEMMA StartShape ==
  ASSUME TypeOK, OneCycle, OneCycle', HistoryInv, CycleInv, NEW c \in Caller, StartItem(c)
  PROVE  \E k \in cyc[c].todo :
           /\ k \in Item /\ k = cyc'[c].item /\ Alone(k)
           /\ Started(k) \/ (Same(k) /\ k \notin Stored(rows))
<1>t. /\ rows \in [Item -> Row] /\ ledger \in [Item -> Entry] /\ pc \in [Caller -> PC] /\ cyc \in [Caller -> CycleVars]
  BY DEF TypeOK
<1>1. PICK k \in Heads(cyc[c].snap, cyc[c].todo) :
        /\ rows' = MarkAttempt(rows, k)
        /\ Locals(c, [cyc[c] EXCEPT !.todo = cyc[c].todo \ {k}, !.item = k, !.sentWith = config.source])
        /\ Note(k, [ledger[k] EXCEPT !.tries = ledger[k].tries + 1, !.carried = config.source, !.answer = "none"])
  BY DEF StartItem
<1>2. k \in cyc[c].todo /\ k \in Item
  BY LocalTypes DEF Heads
<1>3. pc[c] = "item" /\ pc'[c] = "wire"
  BY <1>t DEF StartItem, Goto
<1>4. cyc'[c].item = k
  BY <1>1, <1>t DEF Locals, CycleVars
<1>5. \A i : ~Sending(i) /\ (Sending(i)' <=> i = k)
  BY <1>3, <1>4, SendsOne DEF InCycle
<1>6. /\ \A j \in Item \ {k} : rows'[j] = rows[j] /\ ledger'[j] = ledger[j]
      /\ k \in Stored(rows) => Updated(k, "IN_FLIGHT", rows[k].attempts + 1, rows[k].nextRetryAt)
  <2>1. rows' = UpdateStatus(rows, k, "IN_FLIGHT", rows[k].attempts + 1, rows[k].nextRetryAt)
    BY <1>1 DEF MarkAttempt
  <2>2. /\ \A j \in Item \ {k} : rows'[j] = rows[j]
        /\ k \in Stored(rows) => Updated(k, "IN_FLIGHT", rows[k].attempts + 1, rows[k].nextRetryAt)
    BY <2>1, <1>2, UpdateShape
  <2>3. \A j \in Item \ {k} : ledger'[j] = ledger[j]
    BY <1>1, <1>2, NoteShape
  <2> QED BY <2>2, <2>3
<1>7. Alone(k)
  BY <1>5, <1>6 DEF Alone, Same, BeingSent
<1>8. CASE k \in Stored(rows)
  <2>1. rows[k] = cyc[c].snap[k] /\ rows[k].status = "PENDING" /\ rows[k].nextRetryAt <= now
    BY <1>2, <1>3, <1>8 DEF CycleInv, CycleOf, Stored, StoredStatus
  <2>2. rows[k] \in Row
    BY <1>t, <1>2
  <2>4. /\ Updated(k, "IN_FLIGHT", rows[k].attempts + 1, rows[k].nextRetryAt)
        /\ rows'[k].status = "IN_FLIGHT"
    BY <1>6, <1>8 DEF Updated
  <2>5. ledger'[k] = [ledger[k] EXCEPT !.tries = ledger[k].tries + 1, !.carried = config.source, !.answer = "none"]
    BY <1>1, <1>2, <1>8, <1>t DEF Note
  <2>6. BeingSent(k)' /\ ~BeingSent(k)
    BY <1>2, <1>5, <2>4 DEF BeingSent, Stored, StoredStatus
  <2> QED BY <1>2, <1>4, <1>7, <2>1, <2>4, <2>5, <2>6 DEF Started
<1>9. CASE k \notin Stored(rows)
  <2>1. rows' = rows
    BY <1>1, <1>9 DEF MarkAttempt, UpdateStatus
  <2>2. ledger'[k] = NoEntry /\ ledger[k] = NoEntry
    BY <1>1, <1>2, <1>9, <1>t DEF Note, HistoryInv
  <2>3. Same(k)
    BY <2>1, <2>2, <1>9 DEF Same, BeingSent
  <2> QED BY <1>2, <1>4, <1>7, <1>9, <2>3
<1> QED BY <1>8, <1>9

\* What is being sent was marked with this attempt, by whoever sends it.
LEMMA OnWire ==
  ASSUME TypeOK, CycleInv, NEW c \in Caller, pc[c] = "wire"
  PROVE  LET k == cyc[c].item
         IN /\ k \in Item /\ cyc[c].sentWith \in {"LIVE", "PERSISTED"}
            /\ k \in Stored(rows) =>
                 /\ Sending(k) /\ BeingSent(k)
                 /\ rows[k].status \in {"PENDING", "IN_FLIGHT"}
                 /\ rows[k].attempts = cyc[c].snap[k].attempts + 1 /\ rows[k].attempts > 0
                 /\ ledger[k].carried = cyc[c].sentWith /\ ledger[k].answer = "none"
<1>1. cyc[c].item \in Item /\ cyc[c].sentWith \in {"LIVE", "PERSISTED"}
  BY LocalTypes DEF CycleInv, CycleOf, Sources
<1>2. cyc[c].snap[cyc[c].item].attempts \in Nat
  BY <1>1, LocalTypes DEF Row
<1>3. cyc[c].item \in Stored(rows) =>
        /\ Sending(cyc[c].item) /\ BeingSent(cyc[c].item)
        /\ rows[cyc[c].item].status \in {"PENDING", "IN_FLIGHT"}
        /\ rows[cyc[c].item].attempts = cyc[c].snap[cyc[c].item].attempts + 1
        /\ ledger[cyc[c].item].carried = cyc[c].sentWith /\ ledger[cyc[c].item].answer = "none"
  BY DEF CycleInv, CycleOf, Stored, StoredStatus, Sending, BeingSent
<1> QED BY <1>1, <1>2, <1>3

\* When the answer to a dispatch is dealt with, nothing is on the wire any more and no other
\* item was touched (dispatchItem).
LEMMA WireLeft ==
  ASSUME TypeOK, OneCycle, OneCycle', CycleInv, NEW c \in Caller, pc[c] = "wire",
         NEW l \in {"item", "record", "finish"}, Goto(c, l),
         \/ \E s, a, n : rows' = UpdateStatus(rows, cyc[c].item, s, a, n)
         \/ rows' = MarkSucceeded(rows, cyc[c].item)
         \/ rows' = rows,
         NEW e, Note(cyc[c].item, e)
  PROVE  /\ \A i : ~BeingSent(i)'
         /\ Alone(cyc[c].item)
         /\ ledger'[cyc[c].item] = IF cyc[c].item \in Stored(rows) THEN e ELSE NoEntry
<1>1. cyc[c].item \in Item
  BY OnWire
<1>2. pc'[c] = l
  BY DEF Goto, TypeOK
<1>3. \A i : ~Sending(i)' /\ (Sending(i) <=> i = cyc[c].item)
  BY <1>2, SendsOne DEF InCycle
<1>4. \A j \in Item \ {cyc[c].item} : rows'[j] = rows[j]
  <2>1. CASE \E s, a, n : rows' = UpdateStatus(rows, cyc[c].item, s, a, n)
    BY <2>1, <1>1, UpdateShape
  <2>2. CASE rows' = MarkSucceeded(rows, cyc[c].item)
    <3>1. rows \in [Item -> Row]
      BY DEF TypeOK
    <3>2. rows' = Delete(rows, {cyc[c].item})
      BY <2>2 DEF MarkSucceeded
    <3>3. ASSUME NEW j \in Item \ {cyc[c].item} PROVE rows'[j] = rows[j]
      BY <3>1, <3>2 DEF Delete
    <3> QED BY <3>3
  <2> QED BY <2>1, <2>2
<1>5. /\ \A j \in Item \ {cyc[c].item} : ledger'[j] = ledger[j]
      /\ ledger'[cyc[c].item] = IF cyc[c].item \in Stored(rows) THEN e ELSE NoEntry
  BY <1>1, NoteShape
<1> QED BY <1>3, <1>4, <1>5 DEF Alone, Same, BeingSent

\* An answer, or a statement that throws while one is awaited, resolves the dispatch of the
\* item it belongs to and touches no other; it finds nothing to do when the row was removed
\* meanwhile (dispatchItem, recordFailureOutcome, markCredentialRejected).
LEMMA AnswerShape ==
  ASSUME TypeOK, OneCycle, OneCycle', HistoryInv, CycleInv, NEW c \in Caller,
         \/ Succeed(c) \/ Reschedule(c) \/ FailTerminally(c) \/ RejectCredential(c)
         \/ Throws(c) /\ pc[c] = "wire"
  PROVE  \E k \in Item : k = cyc[c].item /\ (Resolved(k) \/ Same(k)) /\ Alone(k)
<1>p. pc[c] = "wire"
  BY DEF Succeed, Reschedule, FailTerminally, RejectCredential, Answered
<1>k. PICK k \in Item : k = cyc[c].item
  BY <1>p, OnWire
<1> SUFFICES (Resolved(k) \/ Same(k)) /\ Alone(k)
  BY <1>k
<1>w. k \in Stored(rows) =>
        /\ BeingSent(k) /\ rows[k].status \in {"PENDING", "IN_FLIGHT"}
        /\ rows[k].attempts = cyc[c].snap[k].attempts + 1 /\ rows[k].attempts > 0
        /\ ledger[k].carried = cyc[c].sentWith /\ ledger[k].answer = "none"
  BY <1>p, <1>k, OnWire
<1>s. cyc[c].sentWith \in {"LIVE", "PERSISTED"}
  BY <1>p, OnWire
<1>n. cyc[c].snap[k].attempts \in Nat /\ now \in Nat /\ rows[k].attempts \in Nat
  BY <1>k, LocalTypes DEF TypeOK, Row
\* Nothing to do for a row that is gone.
<1>g. ASSUME k \notin Stored(rows), rows' = rows, ledger'[k] = NoEntry, \A i : ~BeingSent(i)'
      PROVE  Same(k)
  BY <1>g, <1>k DEF HistoryInv, Same, BeingSent
<1>1. CASE Succeed(c)
  <2>1. rows' = MarkSucceeded(rows, k) /\ Note(k, NoEntry) /\ Goto(c, "item")
    BY <1>1, <1>k DEF Succeed, Answered
  <2>2. (\A i : ~BeingSent(i)') /\ Alone(k) /\ ledger'[k] = NoEntry
    BY <2>1, <1>k, <1>p, WireLeft
  <2>3. CASE k \in Stored(rows)
    <3>1. rows'[k] = GoneRow
      BY <2>1, <2>3, RowsAfter DEF MarkSucceeded, TypeOK
    <3> QED BY <3>1, <2>2, <2>3 DEF Dropped, Resolved
  <2>4. CASE k \notin Stored(rows)
    <3>1. rows'[k] = rows[k]
      BY <2>1, <2>4, RowsAfter DEF MarkSucceeded, TypeOK
    <3> QED BY <3>1, <2>2, <2>4, <1>k DEF HistoryInv, Same, BeingSent
  <2> QED BY <2>3, <2>4
<1>2. CASE Reschedule(c)
  <2>1. PICK d \in Delays :
          /\ rows' = UpdateStatus(rows, k, "PENDING", rows[k].attempts, now + d)
          /\ Note(k, [ledger[k] EXCEPT !.due = now + d, !.answer = "other"]) /\ Goto(c, "item")
    BY <1>2, <1>k DEF Reschedule, Answered, MarkPendingForRetry
  <2>2. /\ (\A i : ~BeingSent(i)') /\ Alone(k)
        /\ ledger'[k] = IF k \in Stored(rows) THEN [ledger[k] EXCEPT !.due = now + d, !.answer = "other"] ELSE NoEntry
    BY <2>1, <1>k, <1>p, WireLeft
  <2>3. CASE k \in Stored(rows)
    <3>1. Updated(k, "PENDING", rows[k].attempts, now + d)
      BY <2>1, <2>3, UpdateShape
    <3>2. now + d \in Nat
      BY <1>n, IosDispatcherAssumption
    <3>3. config.budget \in Budgets /\ config.budget \in Nat
      BY IosDispatcherAssumption DEF TypeOK, Config
    <3>4. rows[k].attempts < config.budget
      <4>1. ~(cyc[c].snap[k].attempts + 1 >= config.budget)
        BY <1>2, <1>k DEF Reschedule, Exhausted
      <4>2. rows[k].attempts = cyc[c].snap[k].attempts + 1
        BY <1>w, <2>3
      <4> QED BY <4>1, <4>2, <1>n, <3>3
    <3>5. RetriedAt(k, now + d)
      BY <3>1, <3>3, <3>4, <2>2, <2>3, <1>w DEF RetriedAt, Ended
    <3> QED BY <3>2, <3>5, <2>2 DEF Resolved
  <2>4. CASE k \notin Stored(rows)
    BY <2>1, <2>2, <2>4, <1>g, UpdateShape
  <2> QED BY <2>3, <2>4
<1>3. CASE FailTerminally(c)
  <2>1. PICK answer \in {"unauthorized", "other"} :
          /\ answer = "unauthorized" => ~IsStaleCredential(c)
          /\ rows' = UpdateStatus(rows, k, "FAILED", rows[k].attempts, rows[k].nextRetryAt)
          /\ Note(k, [ledger[k] EXCEPT !.answer = answer]) /\ Goto(c, "item")
    BY <1>3, <1>k DEF FailTerminally, Answered
  <2>2. /\ (\A i : ~BeingSent(i)') /\ Alone(k)
        /\ ledger'[k] = IF k \in Stored(rows) THEN [ledger[k] EXCEPT !.answer = answer] ELSE NoEntry
    BY <2>1, <1>k, <1>p, WireLeft
  <2>3. CASE k \in Stored(rows)
    <3>1. Updated(k, "FAILED", rows[k].attempts, rows[k].nextRetryAt)
      BY <2>1, <2>3, UpdateShape
    <3>2. answer = "unauthorized" => ledger[k].carried = "LIVE"
      BY <2>1, <2>3, <1>w, <1>s DEF IsStaleCredential
    <3>3. FailedWith(k, answer)
      BY <3>1, <3>2, <2>2, <2>3, <1>w DEF FailedWith, Ended
    <3> QED BY <3>3, <2>2 DEF Resolved
  <2>4. CASE k \notin Stored(rows)
    BY <2>1, <2>2, <2>4, <1>g, UpdateShape
  <2> QED BY <2>3, <2>4
<1>4. CASE RejectCredential(c)
  <2>1. PICK wait \in HoldDelays :
          /\ rows' = UpdateStatus(rows, k, "PENDING", cyc[c].snap[k].attempts, now + wait)
          /\ Note(k, [ledger[k] EXCEPT !.held = ledger[k].held + 1, !.due = now + wait, !.answer = "unauthorized"])
          /\ Goto(c, "record") /\ cyc[c].sentWith = "PERSISTED"
    BY <1>4, <1>k DEF RejectCredential, Answered, Refunded, IsStaleCredential
  <2>2. /\ (\A i : ~BeingSent(i)') /\ Alone(k)
        /\ ledger'[k] = IF k \in Stored(rows)
                        THEN [ledger[k] EXCEPT !.held = ledger[k].held + 1, !.due = now + wait, !.answer = "unauthorized"]
                        ELSE NoEntry
    BY <2>1, <1>k, <1>p, WireLeft
  <2>3. CASE k \in Stored(rows)
    <3>1. cyc[c].snap[k].attempts = rows[k].attempts - 1
      BY <1>w, <1>n, <2>3
    <3>2. Updated(k, "PENDING", rows[k].attempts - 1, now + wait)
      BY <2>1, <2>3, <3>1, UpdateShape
    <3>3. wait \in Nat
      BY IosDispatcherAssumption DEF HoldDelays
    <3>4. now + wait \in Nat
      BY <3>3, <1>n
    <3>5. RejectedUntil(k, now + wait)
      BY <3>2, <2>1, <2>2, <2>3, <1>w DEF RejectedUntil, Ended
    <3> QED BY <3>4, <3>5, <2>2 DEF Resolved
  <2>4. CASE k \notin Stored(rows)
    BY <2>1, <2>2, <2>4, <1>g, UpdateShape
  <2> QED BY <2>3, <2>4
<1>5. CASE Throws(c) /\ pc[c] = "wire"
  <2>1. rows' = rows /\ Note(k, [ledger[k] EXCEPT !.lost = ledger[k].lost + 1]) /\ Goto(c, "finish")
    BY <1>5, <1>k DEF Throws, LeaveCycle
  <2>2. /\ (\A i : ~BeingSent(i)') /\ Alone(k)
        /\ ledger'[k] = IF k \in Stored(rows) THEN [ledger[k] EXCEPT !.lost = ledger[k].lost + 1] ELSE NoEntry
    BY <2>1, <1>k, <1>p, WireLeft
  <2>3. CASE k \in Stored(rows)
    BY <2>1, <2>2, <2>3, <1>w DEF Lost, Ended, Resolved
  <2>4. CASE k \notin Stored(rows)
    BY <2>1, <2>2, <2>4, <1>g
  <2> QED BY <2>3, <2>4
<1> QED BY <1>1, <1>2, <1>3, <1>4, <1>5

\* A process death loses the outcomes of what is on the wire and nothing else (the queue is
\* on disk).
LEMMA KillShape ==
  ASSUME TypeOK, CycleInv, Kill
  PROVE  \A i \in Item : Same(i) \/ Lost(i)
<1> SUFFICES ASSUME NEW i \in Item PROVE Same(i) \/ Lost(i)
  OBVIOUS
<1>1. ~BeingSent(i)'
  BY DEF Kill, BeingSent, Sending
<1>2. rows' = rows
  BY DEF Kill
<1>3. ledger'[i] = IF BeingSent(i) THEN [ledger[i] EXCEPT !.lost = ledger[i].lost + 1] ELSE ledger[i]
  BY DEF Kill, BeingSent
<1>4. CASE BeingSent(i)
  <2>1. PICK c \in Caller : pc[c] = "wire" /\ cyc[c].item = i
    BY <1>4 DEF BeingSent, Sending
  <2>2. rows[i].status \in {"PENDING", "IN_FLIGHT"} /\ rows[i].attempts > 0
    BY <2>1, <1>4, OnWire DEF BeingSent
  <2> QED BY <1>1, <1>2, <1>3, <1>4, <2>2 DEF Lost, Ended
<1>5. CASE ~BeingSent(i)
  BY <1>1, <1>2, <1>3, <1>5 DEF Same
<1> QED BY <1>4, <1>5

\* Launch recovery, which runs beside the cycles, resets rows; an insert writes rows that
\* were never there; a removal takes rows whatever is done with them (RecoveryManager,
\* enqueue, removeItem, clear).
LEMMA TableShape ==
  ASSUME TypeOK, CycleInv
  PROVE  /\ Recover => \A i \in Item : Same(i) \/ ResetBack(i)
         /\ Enqueue => \A i \in Item : Same(i) \/ Inserted(i)
         /\ Remove  => \A i \in Item : Same(i) \/ Dropped(i)
<1>t. rows \in [Item -> Row] /\ ledger \in [Item -> Entry]
  BY DEF TypeOK
<1>1. ASSUME Recover, NEW i \in Item PROVE Same(i) \/ ResetBack(i)
  <2>1. ledger' = ledger /\ (Sending(i)' <=> Sending(i))
    BY <1>1 DEF Recover, Sending
  <2>2. CASE rows' = rows
    BY <2>1, <2>2 DEF Same, BeingSent
  <2>3. CASE rows' = ResetInFlight(rows)
    <3>1. rows'[i] = IF rows[i].status = "IN_FLIGHT" THEN [rows[i] EXCEPT !.status = "PENDING"] ELSE rows[i]
      BY <2>3, <1>t, RowsAfter
    <3>2. rows[i].status = "IN_FLIGHT" => rows'[i].status = "PENDING"
      BY <3>1, <1>t DEF Row
    <3>3. BeingSent(i)' <=> BeingSent(i)
      BY <2>1, <3>1, <3>2 DEF BeingSent, Stored, StoredStatus
    <3> QED BY <2>1, <3>1, <3>3 DEF Same, ResetBack
  <2> QED BY <1>1, <2>2, <2>3 DEF Recover
<1>2. ASSUME Enqueue, NEW i \in Item PROVE Same(i) \/ Inserted(i)
  <2>1. ledger' = ledger /\ (Sending(i)' <=> Sending(i))
    BY <1>2 DEF Enqueue, Sending
  <2>2. PICK ids \in SUBSET {j \in Item : rows[j].status = "NEW"} : rows' = Insert(rows, ids, now)
    BY <1>2 DEF Enqueue
  <2>3. CASE i \in ids
    <3>1. rows[i].status = "NEW"
      BY <2>3
    <3>2. ~Sending(i)
      <4>1. ASSUME Sending(i) PROVE FALSE
        <5>1. PICK c \in Caller : pc[c] = "wire" /\ cyc[c].item = i
          BY <4>1 DEF Sending
        <5> QED BY <5>1, <3>1 DEF CycleInv, CycleOf
      <4> QED BY <4>1
    <3>3. rows'[i] = [status |-> "PENDING", attempts |-> 0, nextRetryAt |-> 0, createdAt |-> now]
      BY <2>2, <2>3 DEF Insert
    <3> QED BY <2>1, <3>1, <3>2, <3>3 DEF Inserted, BeingSent
  <2>4. CASE i \notin ids
    <3>1. rows'[i] = rows[i]
      BY <2>2, <2>4 DEF Insert
    <3> QED BY <2>1, <3>1 DEF Same, BeingSent, Stored
  <2> QED BY <2>3, <2>4
<1>3. ASSUME Remove, NEW i \in Item PROVE Same(i) \/ Dropped(i)
  <2>1. PICK ids \in {{j} : j \in Stored(rows)} \cup {Stored(rows)} :
          /\ rows' = Delete(rows, ids)
          /\ ledger' = [j \in Item |-> IF j \in ids THEN NoEntry ELSE ledger[j]]
    BY <1>3 DEF Remove
  <2>2. rows'[i] = IF i \in ids /\ i \in Stored(rows) THEN GoneRow ELSE rows[i]
    BY <2>1, <1>t, RowsAfter
  <2>3. CASE i \in ids
    <3>1. i \in Stored(rows)
      BY <2>1, <2>3
    <3> QED BY <2>1, <2>2, <2>3, <3>1 DEF Dropped
  <2>4. CASE i \notin ids
    <3>1. rows'[i] = rows[i] /\ ledger'[i] = ledger[i]
      BY <2>1, <2>2, <2>4
    <3>2. Sending(i)' <=> Sending(i)
      BY <1>3 DEF Remove, Sending
    <3> QED BY <3>1, <3>2 DEF Same, BeingSent, Stored
  <2> QED BY <2>3, <2>4
<1> QED BY <1>1, <1>2, <1>3

\* Every step of the engine is one of these.
LEMMA StepShape ==
  ASSUME TypeOK, OneCycle, OneCycle', HistoryInv, CycleInv, [Next]_vars
  PROVE  \/ \A i \in Item : Same(i)
         \/ \E k \in Item : (Started(k) \/ Resolved(k)) /\ Alone(k)
         \/ Kill /\ \A i \in Item : Same(i) \/ Lost(i)
         \/ \A i \in Item : Same(i) \/ ResetBack(i)
         \/ \A i \in Item : Same(i) \/ Inserted(i)
         \/ \A i \in Item : Same(i) \/ Dropped(i)
<1>1. ASSUME NEW k \in Item, Same(k) /\ Alone(k) PROVE \A i \in Item : Same(i)
  BY <1>1 DEF Alone
<1>2. ASSUME NEW c \in Caller,
             \/ Flush(c) \/ Fetch(c) \/ LeaveLoop(c) \/ RecordResult(c) \/ Finish(c) \/ Return(c)
             \/ Throws(c) /\ pc[c] # "wire"
      PROVE  \A i \in Item : Same(i)
  BY <1>2, QuietShape
<1>3. ASSUME NEW c \in Caller, StartItem(c)
      PROVE  (\A i \in Item : Same(i)) \/ \E k \in Item : (Started(k) \/ Resolved(k)) /\ Alone(k)
  BY <1>3, <1>1, StartShape
<1>4. ASSUME NEW c \in Caller,
             \/ Succeed(c) \/ Reschedule(c) \/ FailTerminally(c) \/ RejectCredential(c)
             \/ Throws(c) /\ pc[c] = "wire"
      PROVE  (\A i \in Item : Same(i)) \/ \E k \in Item : (Started(k) \/ Resolved(k)) /\ Alone(k)
  BY <1>4, <1>1, AnswerShape
<1>5. CASE Kill
  BY <1>5, KillShape
<1>6. CASE Recover \/ Enqueue \/ Remove
  BY <1>6, TableShape
<1>7. ASSUME UpdateConfig \/ Tick \/ (\E p \in BOOLEAN : SetPaused(p)) \/ UNCHANGED vars
      PROVE  \A i \in Item : Same(i)
  BY <1>7, QuietShape
<1>8. ASSUME NEW c \in Caller, Flush(c) \/ CycleStep(c) \/ Finish(c) \/ Return(c)
      PROVE  (\A i \in Item : Same(i)) \/ \E k \in Item : (Started(k) \/ Resolved(k)) /\ Alone(k)
  BY <1>8, <1>2, <1>3, <1>4 DEF CycleStep, ItemStep
<1>9. CASE Next
  BY <1>9, <1>5, <1>6, <1>7, <1>8 DEF Next
<1> QED BY <1>9, <1>7
-----------------------------------------------------------------------------
(***************************************************************************)
(* A cycle and the table.                                                  *)
(***************************************************************************)

\* What another actor may do to a row while a cycle holds a copy of it.
Foreign(i) ==
  \/ rows'[i] = rows[i] /\ ledger'[i] = ledger[i]
  \/ rows'[i].status = "GONE"
  \/ rows[i].status = "NEW"
  \/ /\ rows[i].status = "IN_FLIGHT" /\ rows'[i] = [rows[i] EXCEPT !.status = "PENDING"]
     /\ ledger'[i] = ledger[i]

\* A caller outside a cycle has nothing to keep.
LEMMA NoCycleToKeep ==
  ASSUME NEW d \in Caller, pc'[d] \notin InCycle
  PROVE  CycleOf(d)'
  BY DEF CycleOf, InCycle

\* A cycle that waits keeps its view of the table through what recovery, the bridge and the
\* clock do meanwhile.
LEMMA CycleFrame ==
  ASSUME TypeOK, NEW d \in Caller, CycleOf(d), pc'[d] = pc[d], cyc'[d] = cyc[d],
         config'.source = config.source \/ config'.source # "UNAVAILABLE",
         now' \in Nat, now <= now', \A i \in Item : Foreign(i)
  PROVE  CycleOf(d)'
<1>1. pc'[d] \in InCycle => config'.source # "UNAVAILABLE"
  BY DEF CycleOf
<1>2. ASSUME pc'[d] \in {"item", "wire"}, NEW i \in cyc'[d].todo
      PROVE  /\ cyc'[d].snap[i].status = "PENDING" /\ cyc'[d].snap[i].nextRetryAt <= now'
             /\ rows'[i] = cyc'[d].snap[i] \/ rows'[i].status = "GONE"
  <2>1. i \in Item /\ i \in cyc[d].todo
    BY <1>2, LocalTypes
  <2>2. /\ cyc[d].snap[i].status = "PENDING" /\ cyc[d].snap[i].nextRetryAt <= now
        /\ rows[i] = cyc[d].snap[i] \/ rows[i].status = "GONE"
    BY <1>2, <2>1 DEF CycleOf
  <2>3. cyc[d].snap[i].nextRetryAt \in Nat /\ now \in Nat
    BY <2>1, LocalTypes DEF Row, TypeOK
  <2>4. cyc'[d].snap[i].nextRetryAt <= now'
    BY <2>2, <2>3
  <2>5. rows'[i] = rows[i] \/ rows'[i].status = "GONE"
    BY <2>1, <2>2 DEF Foreign
  <2> QED BY <2>2, <2>4, <2>5
<1>3. ASSUME pc'[d] = "wire"
      PROVE  LET i == cyc'[d].item
             IN /\ i \in Item \ cyc'[d].todo
                /\ cyc'[d].sentWith # "UNAVAILABLE"
                /\ \/ rows'[i].status = "GONE"
                   \/ /\ rows'[i].status \in {"PENDING", "IN_FLIGHT"}
                      /\ rows'[i].attempts = cyc'[d].snap[i].attempts + 1
                      /\ ledger'[i].carried = cyc'[d].sentWith /\ ledger'[i].answer = "none"
  <2>1. PICK i \in Item : i = cyc[d].item
    BY <1>3 DEF CycleOf
  <2>2. rows[i] \in Row
    BY DEF TypeOK
  <2>3. \/ rows[i].status = "GONE"
        \/ /\ rows[i].status \in {"PENDING", "IN_FLIGHT"}
           /\ rows[i].attempts = cyc[d].snap[i].attempts + 1
           /\ ledger[i].carried = cyc[d].sentWith /\ ledger[i].answer = "none"
    BY <1>3, <2>1 DEF CycleOf
  <2>4. \/ rows'[i].status = "GONE"
        \/ rows'[i] = rows[i] /\ ledger'[i] = ledger[i]
        \/ /\ rows[i].status = "IN_FLIGHT" /\ rows'[i] = [rows[i] EXCEPT !.status = "PENDING"]
           /\ ledger'[i] = ledger[i]
    BY <2>3 DEF Foreign
  <2>5. CASE /\ rows[i].status = "IN_FLIGHT" /\ rows'[i] = [rows[i] EXCEPT !.status = "PENDING"]
             /\ ledger'[i] = ledger[i]
    <3>1. rows'[i].status = "PENDING" /\ rows'[i].attempts = rows[i].attempts
      BY <2>2, <2>5 DEF Row
    <3> QED BY <1>3, <2>1, <2>3, <2>5, <3>1 DEF CycleOf
  <2> QED BY <1>3, <2>1, <2>3, <2>4, <2>5 DEF CycleOf
<1> QED BY <1>1, <1>2, <1>3 DEF CycleOf

\* A step of one caller leaves the others where they are, and its own cycle, if it is in
\* one, is the only one.
LEMMA OthersOf ==
  ASSUME TypeOK, OneCycle, NEW c \in Caller, NEW d \in Caller \ {c},
         Flush(c) \/ CycleStep(c) \/ Finish(c) \/ Return(c)
  PROVE  /\ pc'[d] = pc[d] /\ cyc'[d] = cyc[d]
         /\ pc[d] \in InCycle => Return(c)
<1>1. \E l \in PC : Goto(c, l)
  BY DEF Flush, BeginCycle, CycleStep, ItemStep, Fetch, StartItem, LeaveLoop, Succeed, Reschedule, FailTerminally,
         RejectCredential, Answered, RecordResult, Throws, LeaveCycle, Finish, Return, PC
<1>2. pc'[d] = pc[d]
  BY <1>1 DEF Goto, TypeOK
<1>3. UNCHANGED cyc \/ \E r : Locals(c, r)
  <2>1. CASE Flush(c) \/ Finish(c) \/ Return(c)
    BY <2>1 DEF Flush, BeginCycle, Finish, Return
  <2>2. CASE CycleStep(c)
    BY <2>2 DEF CycleStep, ItemStep, Fetch, StartItem, LeaveLoop, Succeed, Reschedule, FailTerminally,
                RejectCredential, Answered, RecordResult, Throws, LeaveCycle
  <2> QED BY <2>1, <2>2
<1>4. cyc'[d] = cyc[d]
  BY <1>3 DEF Locals, TypeOK
<1>5. ASSUME pc[d] \in InCycle PROVE Return(c)
  <2>1. running /\ pc[c] \notin InCycle
    BY <1>5 DEF OneCycle
  <2>2. ~Flush(c)
    BY <2>1 DEF Flush
  <2>3. ~Finish(c)
    BY <2>1 DEF Finish, InCycle
  <2>4. ~CycleStep(c)
    BY <2>1 DEF CycleStep, ItemStep, Fetch, StartItem, LeaveLoop, Succeed, Reschedule, FailTerminally,
                RejectCredential, Answered, RecordResult, Throws, InCycle
  <2> QED BY <2>2, <2>3, <2>4
<1> QED BY <1>2, <1>4, <1>5

\* The caller that moves: a flush has its headers before it goes on, the fetch copies rows
\* as they are, the mark counts the dispatch it begins, and an answer concerns an item that
\* is no longer on the list (flush, fetchPending, markInFlight).
LEMMA OwnCycle ==
  ASSUME TypeOK, OneCycle, OneCycle', HistoryInv, CycleInv, NEW c \in Caller,
         Flush(c) \/ CycleStep(c) \/ Finish(c) \/ Return(c)
  PROVE  CycleOf(c)'
<1>t. /\ rows \in [Item -> Row] /\ pc \in [Caller -> PC] /\ cyc \in [Caller -> CycleVars] /\ config \in Config
  BY DEF TypeOK
<1>c. CycleOf(c)
  BY DEF CycleInv
<1>p. \A l : Goto(c, l) => pc'[c] = l
  BY <1>t DEF Goto
<1>1. CASE Flush(c)
  <2>1. PICK s \in Reloaded \ {"UNAVAILABLE"} : config' = [config EXCEPT !.source = s]
    BY <1>1 DEF Flush, BeginCycle
  <2>2. config'.source # "UNAVAILABLE"
    BY <2>1, <1>t DEF Config
  <2> QED BY <1>1, <1>p, <2>2 DEF Flush, BeginCycle, CycleOf
<1>2. CASE Fetch(c)
  <2>1. PICK ids \in Claims(rows, now, BatchSize) :
          /\ Locals(c, [cyc[c] EXCEPT !.snap = [i \in Item |-> IF i \in ids THEN rows[i] ELSE NewRow],
                                      !.todo = ids])
          /\ Goto(c, IF ids = {} THEN "record" ELSE "item")
    BY <1>2 DEF Fetch
  <2>2. /\ cyc'[c].snap = [i \in Item |-> IF i \in ids THEN rows[i] ELSE NewRow]
        /\ cyc'[c].todo = ids
    BY <2>1, <1>t DEF Locals, CycleVars
  <2>3. \A i \in ids : i \in Item /\ rows[i].status = "PENDING" /\ rows[i].nextRetryAt <= now
    BY DEF Claims, Claimable, Pending
  <2>4. pc'[c] \in {"record", "item"}
    BY <2>1, <1>p
  <2>5. config.source # "UNAVAILABLE" /\ rows' = rows /\ now' = now /\ config' = config
    BY <1>2, <1>c DEF Fetch, CycleOf, InCycle, envVars
  <2> QED BY <2>2, <2>3, <2>4, <2>5 DEF CycleOf
<1>3. CASE StartItem(c)
  <2>1. PICK k \in cyc[c].todo :
          /\ k \in Item /\ k = cyc'[c].item /\ Alone(k)
          /\ Started(k) \/ (Same(k) /\ k \notin Stored(rows))
    BY <1>3, StartShape
  <2>2. PICK i \in Heads(cyc[c].snap, cyc[c].todo) :
          Locals(c, [cyc[c] EXCEPT !.todo = cyc[c].todo \ {i}, !.item = i, !.sentWith = config.source])
    BY <1>3 DEF StartItem
  <2>3. /\ cyc'[c].item = k /\ cyc'[c].todo = cyc[c].todo \ {k}
        /\ cyc'[c].sentWith = config.source /\ cyc'[c].snap = cyc[c].snap
    BY <2>1, <2>2, <1>t DEF Locals, CycleVars
  <2>4. pc[c] = "item" /\ pc'[c] = "wire" /\ now' = now /\ config' = config
    BY <1>3, <1>p DEF StartItem, envVars
  <2>5. config.source # "UNAVAILABLE"
    BY <1>c, <2>4 DEF CycleOf, InCycle
  <2>6. \A j \in cyc[c].todo : /\ j \in Item
                               /\ cyc[c].snap[j].status = "PENDING" /\ cyc[c].snap[j].nextRetryAt <= now
                               /\ rows[j] = cyc[c].snap[j] \/ rows[j].status = "GONE"
    BY <1>c, <2>4, LocalTypes DEF CycleOf
  <2>7. \A j \in cyc'[c].todo : rows'[j] = rows[j]
    BY <2>1, <2>3, <2>6 DEF Alone, Same
  <2>8. \/ rows'[k].status = "GONE"
        \/ /\ rows'[k].status \in {"PENDING", "IN_FLIGHT"}
           /\ rows'[k].attempts = cyc'[c].snap[k].attempts + 1
           /\ ledger'[k].carried = cyc'[c].sentWith /\ ledger'[k].answer = "none"
    <3>1. CASE Started(k)
      <4>1. rows[k] = cyc[c].snap[k]
        BY <2>6, <3>1 DEF Started
      <4>2. rows'[k].status = "IN_FLIGHT" /\ rows'[k].attempts = rows[k].attempts + 1
        BY <3>1 DEF Started, Updated
      <4>3. ledger[k] \in Entry
        BY <2>1 DEF TypeOK
      <4>4. ledger'[k].carried = config.source /\ ledger'[k].answer = "none"
        BY <3>1, <4>3 DEF Started, Entry
      <4> QED BY <2>3, <4>1, <4>2, <4>4
    <3>2. CASE Same(k) /\ k \notin Stored(rows)
      BY <2>1, <2>6, <3>2 DEF Same, Stored, StoredStatus
    <3> QED BY <2>1, <3>1, <3>2
  <2> QED BY <2>1, <2>3, <2>4, <2>5, <2>6, <2>7, <2>8 DEF CycleOf
<1>4. CASE Succeed(c) \/ Reschedule(c) \/ FailTerminally(c) \/ RejectCredential(c)
  <2>1. PICK k \in Item : k = cyc[c].item /\ Alone(k)
    BY <1>4, AnswerShape
  <2>2. pc[c] = "wire" /\ now' = now /\ config' = config
    BY <1>4 DEF Succeed, Reschedule, FailTerminally, RejectCredential, Answered, envVars
  <2>3. pc'[c] \in {"item", "record"} /\ (pc'[c] = "item" => cyc' = cyc)
    BY <1>4, <1>p DEF Succeed, Reschedule, FailTerminally, RejectCredential, Answered
  <2>4. \A j \in cyc[c].todo : /\ j \in Item \ {k}
                               /\ cyc[c].snap[j].status = "PENDING" /\ cyc[c].snap[j].nextRetryAt <= now
                               /\ rows[j] = cyc[c].snap[j] \/ rows[j].status = "GONE"
    BY <1>c, <2>1, <2>2, LocalTypes DEF CycleOf
  <2>5. \A j \in cyc[c].todo : rows'[j] = rows[j]
    BY <2>1, <2>4 DEF Alone, Same
  <2>6. config.source # "UNAVAILABLE"
    BY <1>c, <2>2 DEF CycleOf, InCycle
  <2> QED BY <2>2, <2>3, <2>4, <2>5, <2>6 DEF CycleOf
<1>5. CASE LeaveLoop(c) \/ RecordResult(c) \/ Throws(c)
  <2>1. pc[c] \in InCycle /\ pc'[c] \in {"record", "finish"} /\ config' = config
    BY <1>5, <1>p DEF LeaveLoop, RecordResult, Throws, LeaveCycle, InCycle, envVars
  <2> QED BY <2>1, <1>c DEF CycleOf
<1>6. CASE Finish(c) \/ Return(c)
  <2>1. pc'[c] \notin InCycle
    BY <1>6, <1>p DEF Finish, Return, InCycle
  <2> QED BY <2>1, NoCycleToKeep
<1> QED BY <1>1, <1>2, <1>3, <1>4, <1>5, <1>6 DEF CycleStep, ItemStep

\* The cycles keep their view of the table through every step.
LEMMA StepCycle ==
  ASSUME TypeOK, OneCycle, OneCycle', HistoryInv, CycleInv, [Next]_vars
  PROVE  CycleInv'
<1> SUFFICES ASSUME NEW d \in Caller PROVE CycleOf(d)'
  BY DEF CycleInv
<1>t. now \in Nat
  BY DEF TypeOK
<1>c. CycleOf(d)
  BY DEF CycleInv
<1>1. CASE Flush(d) \/ CycleStep(d) \/ Finish(d) \/ Return(d)
  BY <1>1, OwnCycle
<1>2. ASSUME NEW c \in Caller \ {d}, Flush(c) \/ CycleStep(c) \/ Finish(c) \/ Return(c)
      PROVE  CycleOf(d)'
  <2>1. pc'[d] = pc[d] /\ cyc'[d] = cyc[d] /\ (pc[d] \in InCycle => Return(c))
    BY <1>2, OthersOf
  <2>2. CASE pc[d] \notin InCycle
    BY <2>1, <2>2, NoCycleToKeep
  <2>3. CASE Return(c)
    <3>1. config' = config /\ now' = now /\ \A i \in Item : Foreign(i)
      BY <2>3 DEF Return, envVars, Foreign
    <3> QED BY <2>1, <3>1, <1>t, <1>c, CycleFrame
  <2> QED BY <2>1, <2>2, <2>3
<1>3. CASE Kill
  <2>1. pc'[d] \notin InCycle
    BY <1>3 DEF Kill, InCycle
  <2> QED BY <2>1, NoCycleToKeep
<1>4. CASE Recover \/ Enqueue \/ Remove
  <2>1. \A i \in Item : Foreign(i)
    <3>1. \A i \in Item : Same(i) \/ ResetBack(i) \/ Inserted(i) \/ Dropped(i)
      BY <1>4, TableShape
    <3> QED BY <3>1 DEF Same, ResetBack, Inserted, Dropped, Foreign, GoneRow
  <2>2. pc' = pc /\ cyc' = cyc /\ now' = now /\ config' = config
    BY <1>4 DEF Recover, Enqueue, Remove, envVars
  <2> QED BY <2>1, <2>2, <1>t, <1>c, CycleFrame
<1>5. CASE UpdateConfig \/ Tick \/ (\E p \in BOOLEAN : SetPaused(p)) \/ UNCHANGED vars
  <2>1. \A i \in Item : Foreign(i)
    BY <1>5 DEF UpdateConfig, Tick, SetPaused, vars, Foreign
  <2>2. pc' = pc /\ cyc' = cyc
    BY <1>5 DEF UpdateConfig, Tick, SetPaused, vars
  <2>3. config'.source = config.source \/ config'.source # "UNAVAILABLE"
    BY <1>5 DEF UpdateConfig, Tick, SetPaused, vars, envVars
  <2>4. now' \in Nat /\ now <= now'
    BY <1>5, <1>t DEF UpdateConfig, Tick, SetPaused, vars, envVars
  <2> QED BY <2>1, <2>2, <2>3, <2>4, <1>c, CycleFrame
<1> QED BY <1>1, <1>2, <1>3, <1>4, <1>5 DEF Next
-----------------------------------------------------------------------------
(***************************************************************************)
(* The story of one item.                                                  *)
(***************************************************************************)
Fate(i) == Same(i) \/ Started(i) \/ Resolved(i) \/ ResetBack(i) \/ Inserted(i) \/ Dropped(i)

\* What a step does to an item is one of six things.
LEMMA EachFate ==
  ASSUME TypeOK, OneCycle, OneCycle', HistoryInv, CycleInv, [Next]_vars, NEW i \in Item
  PROVE  Fate(i)
<1>1. ASSUME NEW k \in Item, Started(k) \/ Resolved(k), Alone(k) PROVE Fate(i)
  BY <1>1 DEF Alone, Fate
<1>2. CASE \A j \in Item : Same(j) \/ Lost(j)
  BY <1>2 DEF Fate, Resolved
<1> QED BY <1>1, <1>2, StepShape DEF Fate

\* What the six things make of the fields.
LEMMA FateFields ==
  ASSUME TypeOK, NEW i \in Item
  PROVE  /\ Started(i) =>
              /\ rows'[i].status = "IN_FLIGHT" /\ rows'[i].attempts = rows[i].attempts + 1
              /\ rows'[i].nextRetryAt = rows[i].nextRetryAt
              /\ ledger'[i].tries = ledger[i].tries + 1 /\ ledger'[i].held = ledger[i].held
              /\ ledger'[i].lost = ledger[i].lost /\ ledger'[i].due = ledger[i].due /\ ledger'[i].answer = "none"
         /\ \A t \in Nat : RetriedAt(i, t) =>
              /\ rows'[i].status = "PENDING" /\ rows'[i].attempts = rows[i].attempts /\ rows'[i].nextRetryAt = t
              /\ ledger'[i].tries = ledger[i].tries /\ ledger'[i].held = ledger[i].held
              /\ ledger'[i].lost = ledger[i].lost /\ ledger'[i].due = t /\ ledger'[i].answer = "other"
         /\ \A t \in Nat : RejectedUntil(i, t) =>
              /\ rows'[i].status = "PENDING" /\ rows'[i].attempts = rows[i].attempts - 1 /\ rows'[i].nextRetryAt = t
              /\ ledger'[i].tries = ledger[i].tries /\ ledger'[i].held = ledger[i].held + 1
              /\ ledger'[i].lost = ledger[i].lost /\ ledger'[i].due = t
              /\ ledger'[i].answer = "unauthorized" /\ ledger'[i].carried = "PERSISTED"
         /\ \A a \in {"unauthorized", "other"} : FailedWith(i, a) =>
              /\ rows'[i].status = "FAILED" /\ rows'[i].attempts = rows[i].attempts
              /\ rows'[i].nextRetryAt = rows[i].nextRetryAt
              /\ ledger'[i].tries = ledger[i].tries /\ ledger'[i].held = ledger[i].held
              /\ ledger'[i].lost = ledger[i].lost /\ ledger'[i].due = ledger[i].due
              /\ ledger'[i].answer = a /\ ledger'[i].carried = ledger[i].carried
         /\ Lost(i) =>
              /\ rows'[i] = rows[i]
              /\ ledger'[i].tries = ledger[i].tries /\ ledger'[i].held = ledger[i].held
              /\ ledger'[i].lost = ledger[i].lost + 1 /\ ledger'[i].due = ledger[i].due
              /\ ledger'[i].answer = ledger[i].answer /\ ledger'[i].carried = ledger[i].carried
         /\ ResetBack(i) =>
              /\ rows'[i].status = "PENDING" /\ rows'[i].attempts = rows[i].attempts
              /\ rows'[i].nextRetryAt = rows[i].nextRetryAt /\ ledger'[i] = ledger[i]
<1>1. ledger[i] \in Entry /\ rows[i] \in Row
  BY DEF TypeOK
<1>2. ASSUME NEW t \in Nat, RetriedAt(i, t)
      PROVE  /\ rows'[i].status = "PENDING" /\ rows'[i].attempts = rows[i].attempts /\ rows'[i].nextRetryAt = t
             /\ ledger'[i].tries = ledger[i].tries /\ ledger'[i].held = ledger[i].held
             /\ ledger'[i].lost = ledger[i].lost /\ ledger'[i].due = t /\ ledger'[i].answer = "other"
  BY <1>1, <1>2 DEF RetriedAt, Updated, Entry
<1>3. ASSUME NEW t \in Nat, RejectedUntil(i, t)
      PROVE  /\ rows'[i].status = "PENDING" /\ rows'[i].attempts = rows[i].attempts - 1 /\ rows'[i].nextRetryAt = t
             /\ ledger'[i].tries = ledger[i].tries /\ ledger'[i].held = ledger[i].held + 1
             /\ ledger'[i].lost = ledger[i].lost /\ ledger'[i].due = t
             /\ ledger'[i].answer = "unauthorized" /\ ledger'[i].carried = "PERSISTED"
  BY <1>1, <1>3 DEF RejectedUntil, Updated, Entry
<1>4. ASSUME NEW a \in {"unauthorized", "other"}, FailedWith(i, a)
      PROVE  /\ rows'[i].status = "FAILED" /\ rows'[i].attempts = rows[i].attempts
             /\ rows'[i].nextRetryAt = rows[i].nextRetryAt
             /\ ledger'[i].tries = ledger[i].tries /\ ledger'[i].held = ledger[i].held
             /\ ledger'[i].lost = ledger[i].lost /\ ledger'[i].due = ledger[i].due
             /\ ledger'[i].answer = a /\ ledger'[i].carried = ledger[i].carried
  BY <1>1, <1>4 DEF FailedWith, Updated, Entry
<1>5. Started(i) =>
        /\ rows'[i].status = "IN_FLIGHT" /\ rows'[i].attempts = rows[i].attempts + 1
        /\ rows'[i].nextRetryAt = rows[i].nextRetryAt
        /\ ledger'[i].tries = ledger[i].tries + 1 /\ ledger'[i].held = ledger[i].held
        /\ ledger'[i].lost = ledger[i].lost /\ ledger'[i].due = ledger[i].due /\ ledger'[i].answer = "none"
  BY <1>1 DEF Started, Updated, Entry
<1>6. Lost(i) =>
        /\ rows'[i] = rows[i]
        /\ ledger'[i].tries = ledger[i].tries /\ ledger'[i].held = ledger[i].held
        /\ ledger'[i].lost = ledger[i].lost + 1 /\ ledger'[i].due = ledger[i].due
        /\ ledger'[i].answer = ledger[i].answer /\ ledger'[i].carried = ledger[i].carried
  BY <1>1 DEF Lost, Entry
<1>7. ResetBack(i) =>
         /\ rows'[i].status = "PENDING" /\ rows'[i].attempts = rows[i].attempts
         /\ rows'[i].nextRetryAt = rows[i].nextRetryAt /\ ledger'[i] = ledger[i]
  BY <1>1 DEF ResetBack, Row
<1> QED BY <1>2, <1>3, <1>4, <1>5, <1>6, <1>7

\* Each of them keeps a row and its history together.
LEMMA FateHistory ==
  ASSUME TypeOK, TypeOK', HistoryInv, NEW i \in Item, Fate(i)
  PROVE  IF i \in Stored(rows)'
         THEN ledger'[i].due = rows'[i].nextRetryAt /\ ledger'[i].tries = rows'[i].attempts + ledger'[i].held
         ELSE ledger'[i] = NoEntry /\ rows'[i].attempts = 0
<1>n. /\ rows[i].attempts \in Nat /\ ledger[i].tries \in Nat /\ ledger[i].held \in Nat
  BY DEF TypeOK, Row, Entry
<1>h. IF i \in Stored(rows)
      THEN ledger[i].due = rows[i].nextRetryAt /\ ledger[i].tries = rows[i].attempts + ledger[i].held
      ELSE ledger[i] = NoEntry /\ rows[i].attempts = 0
  BY DEF HistoryInv
<1>s. i \in Stored(rows) <=> rows[i].status \in StoredStatus
  BY DEF Stored
<1>s2. i \in Stored(rows)' <=> rows'[i].status \in StoredStatus
  BY DEF Stored
<1>1. CASE Same(i)
  BY <1>1, <1>h, <1>s, <1>s2 DEF Same
<1>2. CASE Started(i)
  <2>1. i \in Stored(rows) /\ i \in Stored(rows)'
    BY <1>2, <1>s, <1>s2, FateFields DEF Started, StoredStatus
  <2>2. ledger'[i].due = rows'[i].nextRetryAt
    BY <2>1, <1>2, <1>h, FateFields
  <2>3. ledger'[i].tries = rows'[i].attempts + ledger'[i].held
    BY <2>1, <1>2, <1>h, <1>n, FateFields
  <2> QED BY <2>1, <2>2, <2>3
<1>3. CASE Dropped(i)
  BY <1>3, <1>s2 DEF Dropped, GoneRow, StoredStatus
<1>4. ASSUME Ended(i) PROVE i \in Stored(rows)
  BY <1>4, <1>s DEF Ended, StoredStatus
<1>5. ASSUME NEW t \in Nat, RetriedAt(i, t)
      PROVE  /\ i \in Stored(rows)'
             /\ ledger'[i].due = rows'[i].nextRetryAt /\ ledger'[i].tries = rows'[i].attempts + ledger'[i].held
  <2>1. i \in Stored(rows)
    BY <1>5, <1>4 DEF RetriedAt
  <2> QED BY <2>1, <1>5, <1>h, <1>s2, FateFields DEF StoredStatus
<1>6. ASSUME NEW t \in Nat, RejectedUntil(i, t)
      PROVE  /\ i \in Stored(rows)'
             /\ ledger'[i].due = rows'[i].nextRetryAt /\ ledger'[i].tries = rows'[i].attempts + ledger'[i].held
  <2>1. i \in Stored(rows)
    BY <1>6, <1>4 DEF RejectedUntil
  <2>2. ledger'[i].tries = rows'[i].attempts + ledger'[i].held
    <3>1. /\ rows'[i].attempts = rows[i].attempts - 1
          /\ ledger'[i].tries = ledger[i].tries /\ ledger'[i].held = ledger[i].held + 1
      BY <1>6, FateFields
    <3>2. ledger[i].tries = rows[i].attempts + ledger[i].held
      BY <2>1, <1>h
    <3> QED BY <3>1, <3>2, <1>n
  <2> QED BY <2>2, <1>6, <1>s2, FateFields DEF StoredStatus
<1>7. ASSUME NEW a \in {"unauthorized", "other"}, FailedWith(i, a)
      PROVE  /\ i \in Stored(rows)'
             /\ ledger'[i].due = rows'[i].nextRetryAt /\ ledger'[i].tries = rows'[i].attempts + ledger'[i].held
  <2>1. i \in Stored(rows)
    BY <1>7, <1>4 DEF FailedWith
  <2> QED BY <2>1, <1>7, <1>h, <1>s2, FateFields DEF StoredStatus
<1>8. CASE Lost(i)
  <2>1. i \in Stored(rows)
    BY <1>8, <1>4 DEF Lost
  <2> QED BY <2>1, <1>8, <1>h, <1>s, <1>s2, FateFields
<1>9. CASE ResetBack(i)
  <2>1. i \in Stored(rows) /\ i \in Stored(rows)'
    BY <1>9, <1>s, <1>s2, FateFields DEF ResetBack, StoredStatus
  <2> QED BY <2>1, <1>9, <1>h, FateFields
<1>10. CASE Inserted(i)
  <2>1. ledger[i] = NoEntry /\ ledger'[i] = NoEntry
    BY <1>10, <1>h, <1>s DEF Inserted, StoredStatus
  <2>2. i \in Stored(rows)' /\ rows'[i].nextRetryAt = 0 /\ rows'[i].attempts = 0
    BY <1>10, <1>s2 DEF Inserted, StoredStatus
  <2> QED BY <2>1, <2>2 DEF NoEntry
<1>11. CASE Resolved(i)
  BY <1>11, <1>3, <1>5, <1>6, <1>7, <1>8 DEF Resolved
<1> QED BY <1>1, <1>2, <1>3, <1>9, <1>10, <1>11 DEF Fate

\* Each of them leaves a row that is to be sent again an attempt to be sent with: the
\* budget's, or one for a dispatch nobody counted.
LEMMA FateBudget ==
  ASSUME TypeOK, TypeOK', HistoryInv, NEW i \in Item, Fate(i),
         i \in Stored(rows) => Affords(i, rows[i].attempts + (IF BeingSent(i) \/ rows[i].status = "FAILED" THEN 0 ELSE 1)),
         i \in Stored(rows)'
  PROVE  Affords(i, rows[i].attempts + (IF BeingSent(i) \/ rows[i].status = "FAILED" THEN 0 ELSE 1))'
<1> USE IosDispatcherAssumption
<1>n. rows[i].attempts \in Nat /\ ledger[i].lost \in Nat
  BY DEF TypeOK, Row, Entry
<1>s. i \in Stored(rows) <=> rows[i].status \in StoredStatus
  BY DEF Stored
<1>p. \A m \in Nat : Affords(i, m)' <=> \E b \in Budgets : m <= b + ledger'[i].lost
  BY DEF Affords
<1>q. \A m \in Nat : Affords(i, m) <=> \E b \in Budgets : m <= b + ledger[i].lost
  BY DEF Affords
<1>1. CASE Same(i)
  BY <1>1, <1>s DEF Same, Stored, Affords
<1>2. CASE Started(i)
  <2>1. Affords(i, rows[i].attempts + 1)
    BY <1>2, <1>s DEF Started, StoredStatus
  <2>2. /\ rows'[i].attempts = rows[i].attempts + 1 /\ ledger'[i].lost = ledger[i].lost /\ BeingSent(i)'
    BY <1>2, FateFields DEF Started
  <2>3. PICK b \in Budgets : rows[i].attempts + 1 <= b + ledger[i].lost
    BY <2>1, <1>n, <1>q
  <2>4. rows'[i].attempts + 0 <= b + ledger'[i].lost
    BY <2>2, <2>3, <1>n
  <2> QED BY <2>2, <2>4 DEF Affords
<1>3. CASE Dropped(i)
  BY <1>3 DEF Dropped, GoneRow, Stored, StoredStatus
<1>4. ASSUME Ended(i)
      PROVE  /\ ~BeingSent(i)' /\ rows[i].attempts > 0
             /\ \E b \in Budgets : rows[i].attempts <= b + ledger[i].lost
  <2>1. Affords(i, rows[i].attempts + 0)
    BY <1>4, <1>s DEF Ended, StoredStatus
  <2>2. rows[i].attempts + 0 \in Nat /\ rows[i].attempts + 0 = rows[i].attempts
    BY <1>n
  <2> QED BY <1>4, <2>1, <2>2, <1>q DEF Ended
<1>5. ASSUME NEW t \in Nat, RetriedAt(i, t)
      PROVE  Affords(i, rows[i].attempts + (IF BeingSent(i) \/ rows[i].status = "FAILED" THEN 0 ELSE 1))'
  <2>1. PICK b \in Budgets : rows[i].attempts < b
    BY <1>5 DEF RetriedAt
  <2>2. /\ rows'[i].attempts = rows[i].attempts /\ ledger'[i].lost = ledger[i].lost
        /\ ~BeingSent(i)' /\ rows'[i].status = "PENDING"
    BY <1>5, FateFields DEF RetriedAt, Ended
  <2>3. b \in Nat
    OBVIOUS
  <2>4. rows'[i].attempts + 1 <= b + ledger'[i].lost
    BY <2>1, <2>2, <2>3, <1>n
  <2> QED BY <2>2, <2>4 DEF Affords
<1>6. ASSUME NEW t \in Nat, RejectedUntil(i, t)
      PROVE  Affords(i, rows[i].attempts + (IF BeingSent(i) \/ rows[i].status = "FAILED" THEN 0 ELSE 1))'
  <2>1. PICK b \in Budgets : rows[i].attempts <= b + ledger[i].lost
    BY <1>6, <1>4 DEF RejectedUntil
  <2>2. /\ rows'[i].attempts = rows[i].attempts - 1 /\ ledger'[i].lost = ledger[i].lost
        /\ ~BeingSent(i)' /\ rows'[i].status = "PENDING"
    BY <1>6, FateFields DEF RejectedUntil, Ended
  <2>3. rows'[i].attempts + 1 <= b + ledger'[i].lost
    BY <2>1, <2>2, <1>n
  <2> QED BY <2>2, <2>3 DEF Affords
<1>7. ASSUME NEW a \in {"unauthorized", "other"}, FailedWith(i, a)
      PROVE  Affords(i, rows[i].attempts + (IF BeingSent(i) \/ rows[i].status = "FAILED" THEN 0 ELSE 1))'
  <2>1. PICK b \in Budgets : rows[i].attempts <= b + ledger[i].lost
    BY <1>7, <1>4 DEF FailedWith
  <2>2. rows'[i].attempts = rows[i].attempts /\ ledger'[i].lost = ledger[i].lost /\ rows'[i].status = "FAILED"
    BY <1>7, FateFields
  <2>3. rows'[i].attempts + 0 <= b + ledger'[i].lost
    BY <2>1, <2>2, <1>n
  <2> QED BY <2>2, <2>3 DEF Affords
<1>8. CASE Lost(i)
  <2>1. PICK b \in Budgets : rows[i].attempts <= b + ledger[i].lost
    BY <1>8, <1>4 DEF Lost
  <2>2. /\ rows'[i] = rows[i] /\ ledger'[i].lost = ledger[i].lost + 1 /\ ~BeingSent(i)'
        /\ rows[i].status \in {"PENDING", "IN_FLIGHT"}
    BY <1>8, FateFields DEF Lost, Ended
  <2>3. b \in Nat
    OBVIOUS
  <2>4. rows'[i].attempts + 1 <= b + ledger'[i].lost
    BY <2>1, <2>2, <2>3, <1>n
  <2> QED BY <2>2, <2>4 DEF Affords
<1>9. CASE ResetBack(i)
  BY <1>9, <1>s, FateFields DEF ResetBack, StoredStatus, Affords
<1>10. CASE Inserted(i)
  <2>1. rows'[i].attempts = 0 /\ ledger'[i].lost = ledger[i].lost
    BY <1>10 DEF Inserted
  <2>2. PICK b \in Budgets : b \in Nat \ {0}
    OBVIOUS
  <2>3. rows'[i].attempts + 1 <= b + ledger'[i].lost /\ ~BeingSent(i)' /\ rows'[i].status = "PENDING"
    BY <2>1, <2>2, <1>n, <1>10 DEF Inserted
  <2> QED BY <2>3 DEF Affords
<1>11. CASE Resolved(i)
  BY <1>11, <1>3, <1>5, <1>6, <1>7, <1>8 DEF Resolved
<1> QED BY <1>1, <1>2, <1>3, <1>9, <1>10, <1>11 DEF Fate

\* Only an answer fails a row, and the verdict on a 401 is the one of the headers that were
\* sent.
LEMMA FateVerdict ==
  ASSUME TypeOK, HistoryInv, NEW i \in Item, Fate(i),
         i \in Stored(rows) /\ ledger[i].answer = "unauthorized" =>
           (rows[i].status = "FAILED" <=> ledger[i].carried = "LIVE"),
         i \in Stored(rows)', ledger'[i].answer = "unauthorized"
  PROVE  rows'[i].status = "FAILED" <=> ledger'[i].carried = "LIVE"
<1>s. i \in Stored(rows) <=> rows[i].status \in StoredStatus
  BY DEF Stored
<1>s2. rows'[i].status \in StoredStatus
  BY DEF Stored
<1>1. CASE Same(i)
  BY <1>1, <1>s, <1>s2 DEF Same
<1>2. CASE Started(i)
  BY <1>2, FateFields
<1>3. CASE Dropped(i)
  BY <1>3, <1>s2 DEF Dropped, GoneRow, StoredStatus
<1>4. ASSUME NEW t \in Nat, RetriedAt(i, t) \/ RejectedUntil(i, t)
      PROVE  rows'[i].status = "FAILED" <=> ledger'[i].carried = "LIVE"
  <2>1. CASE RetriedAt(i, t)
    BY <2>1, FateFields
  <2>2. CASE RejectedUntil(i, t)
    BY <2>2, FateFields
  <2> QED BY <1>4, <2>1, <2>2
<1>5. ASSUME NEW a \in {"unauthorized", "other"}, FailedWith(i, a)
      PROVE  rows'[i].status = "FAILED" <=> ledger'[i].carried = "LIVE"
  BY <1>5, FateFields DEF FailedWith
<1>6. CASE Lost(i)
  BY <1>6, <1>s, FateFields DEF Lost, Ended, StoredStatus
<1>7. CASE ResetBack(i)
  BY <1>7, <1>s, FateFields DEF ResetBack, StoredStatus
<1>8. CASE Inserted(i)
  BY <1>8, <1>s DEF Inserted, HistoryInv, NoEntry, StoredStatus
<1> QED BY <1>1, <1>2, <1>3, <1>4, <1>5, <1>6, <1>7, <1>8 DEF Fate, Resolved

\* The tries of an item grow only at the start of a dispatch, and a dispatch starts when its
\* cooldown is over.
LEMMA FateCooldown ==
  ASSUME TypeOK, HistoryInv, NEW i \in Item, Fate(i)
  PROVE  ledger'[i].tries > ledger[i].tries => now >= ledger[i].due
<1>n. ledger[i].tries \in Nat /\ ledger[i].due \in Nat /\ rows[i].nextRetryAt \in Nat /\ now \in Nat
  BY DEF TypeOK, Entry, Row
<1>1. ASSUME Same(i) \/ Inserted(i) \/ ResetBack(i) PROVE ledger'[i].tries = ledger[i].tries
  BY <1>1 DEF Same, Inserted, ResetBack
<1>2. CASE Started(i)
  <2>1. i \in Stored(rows)
    BY <1>2 DEF Started, Stored, StoredStatus
  <2>2. ledger[i].due = rows[i].nextRetryAt /\ rows[i].nextRetryAt <= now
    BY <2>1, <1>2 DEF HistoryInv, Started
  <2> QED BY <2>2, <1>n
<1>3. ASSUME Resolved(i), ~Dropped(i) PROVE ledger'[i].tries = ledger[i].tries
  BY <1>3, FateFields DEF Resolved
<1>4. Dropped(i) => ledger'[i].tries = 0
  BY DEF Dropped, NoEntry
<1> QED BY <1>1, <1>2, <1>3, <1>4, <1>n DEF Fate

\* Everything the engine keeps, together.
SafeInv == TypeOK /\ IInv /\ HistoryInv /\ CycleInv /\ AttemptLeft /\ CredentialVerdict

\* It holds of the empty queue the process starts from (init).
LEMMA InitSafe == Init => SafeInv
<1> SUFFICES ASSUME Init PROVE SafeInv
  OBVIOUS
<1>1. Stored(rows) = {}
  BY DEF Init, Stored, NewRow, StoredStatus
<1>2. HistoryInv
  BY <1>1 DEF HistoryInv, Init, NewRow
<1>3. CycleInv
  BY DEF CycleInv, CycleOf, Init, InCycle
<1> QED BY <1>1, <1>2, <1>3, InitTypes, InitIInv DEF SafeInv, AttemptLeft, CredentialVerdict

\* And every step keeps it.
LEMMA StepSafe == SafeInv /\ [Next]_vars => SafeInv'
<1> SUFFICES ASSUME SafeInv, [Next]_vars PROVE SafeInv'
  OBVIOUS
<1>1. TypeOK /\ OneCycle /\ HistoryInv /\ CycleInv
  BY DEF SafeInv, IInv
<1>2. TypeOK' /\ IInv'
  BY StepTypes, NextIInv DEF SafeInv
<1>3. OneCycle'
  BY <1>2 DEF IInv
<1>4. \A i \in Item : Fate(i)
  BY <1>1, <1>3, EachFate
<1>5. HistoryInv'
  BY <1>1, <1>2, <1>4, FateHistory DEF HistoryInv
<1>6. CycleInv'
  BY <1>1, <1>3, StepCycle
<1>7. AttemptLeft'
  <2>1. ASSUME NEW i \in Stored(rows)'
        PROVE  Affords(i, rows[i].attempts + (IF BeingSent(i) \/ rows[i].status = "FAILED" THEN 0 ELSE 1))'
    <3>1. i \in Item
      BY DEF Stored
    <3>2. i \in Stored(rows) =>
            Affords(i, rows[i].attempts + (IF BeingSent(i) \/ rows[i].status = "FAILED" THEN 0 ELSE 1))
      BY DEF SafeInv, AttemptLeft
    <3> QED BY <3>1, <3>2, <1>1, <1>2, <1>4, FateBudget
  <2> QED BY <2>1 DEF AttemptLeft
<1>8. CredentialVerdict'
  <2>1. ASSUME NEW i \in Stored(rows)', ledger'[i].answer = "unauthorized"
        PROVE  rows'[i].status = "FAILED" <=> ledger'[i].carried = "LIVE"
    <3>1. i \in Item
      BY DEF Stored
    <3>2. i \in Stored(rows) /\ ledger[i].answer = "unauthorized" =>
            (rows[i].status = "FAILED" <=> ledger[i].carried = "LIVE")
      BY DEF SafeInv, CredentialVerdict
    <3> QED BY <2>1, <3>1, <3>2, <1>1, <1>4, FateVerdict
  <2> QED BY <2>1 DEF CredentialVerdict
<1> QED BY <1>2, <1>5, <1>6, <1>7, <1>8 DEF SafeInv

\* No sequence of steps leaves it.
LEMMA SafeHolds == Spec => []SafeInv
BY InitSafe, StepSafe, PTL DEF Spec

\* What is kept bounds the dispatches: a row about to be sent has an attempt left, and any
\* other counts none more (recordFailureOutcome).
LEMMA SafeBudget == SafeInv => BudgetKept
<1> SUFFICES ASSUME SafeInv, NEW i \in Stored(rows)
             PROVE  /\ ledger[i].tries = rows[i].attempts + ledger[i].held
                    /\ \E b \in Budgets : ledger[i].tries <= b + ledger[i].held + ledger[i].lost
  BY DEF BudgetKept
<1>1. i \in Item
  BY DEF Stored
<1>2. /\ rows[i].attempts \in Nat /\ ledger[i].held \in Nat /\ ledger[i].lost \in Nat /\ ledger[i].tries \in Nat
  BY <1>1 DEF SafeInv, TypeOK, Row, Entry
<1>3. ledger[i].tries = rows[i].attempts + ledger[i].held
  BY <1>1 DEF SafeInv, HistoryInv
<1>4. PICK b \in Budgets :
        rows[i].attempts + (IF BeingSent(i) \/ rows[i].status = "FAILED" THEN 0 ELSE 1) <= b + ledger[i].lost
  BY DEF SafeInv, AttemptLeft, Affords
<1>5. b \in Nat
  BY IosDispatcherAssumption
<1>6. rows[i].attempts <= b + ledger[i].lost
  BY <1>2, <1>4, <1>5
<1>7. ledger[i].tries <= b + ledger[i].held + ledger[i].lost
  BY <1>2, <1>3, <1>5, <1>6
<1> QED BY <1>3, <1>7

\* The table counts every dispatch that was begun and not refunded, and no item is sent past
\* every budget but for outcomes that were lost or refunded, for any batch, any budgets and
\* any number of faults (markInFlight, recordFailureOutcome, markCredentialRejected).
THEOREM BudgetKeptHolds == Spec => []BudgetKept
BY SafeHolds, SafeBudget, PTL

\* A 401 is final exactly when the request carried the app's own headers, whatever
\* configuration has come since (recordFailureOutcome, isStaleCredentialRejection).
THEOREM CredentialVerdictHolds == Spec => []CredentialVerdict
<1>1. SafeInv => CredentialVerdict
  BY DEF SafeInv
<1> QED BY SafeHolds, <1>1, PTL

\* A step that begins a dispatch finds its cooldown over (markInFlight).
LEMMA StepCooldown ==
  ASSUME SafeInv, SafeInv', [Next]_vars
  PROVE  \A i \in Item : ledger'[i].tries > ledger[i].tries => now >= ledger[i].due
<1>1. TypeOK /\ OneCycle /\ OneCycle' /\ HistoryInv /\ CycleInv
  BY DEF SafeInv, IInv
<1> QED BY <1>1, EachFate, FateCooldown

\* No dispatch starts before the cooldown of the item's last failure is over, from rows
\* fetched earlier, beside a recovery and after a process death (fetchPending).
THEOREM CooldownKeptHolds == Spec => CooldownKept
<1>1. SafeInv /\ SafeInv' /\ [Next]_vars
        => [\A i \in Item : ledger'[i].tries > ledger[i].tries => now >= ledger[i].due]_vars
  BY StepCooldown
<1> QED BY SafeHolds, <1>1, PTL DEF Spec, CooldownKept
-----------------------------------------------------------------------------
(***************************************************************************)
(* The engine implements DeliveryQueue.  The abstract queue sees of an     *)
(* item where it is in its life, and the attempts charged to it so far.    *)
(***************************************************************************)
Charged(i) == rows[i].attempts - (IF BeingSent(i) THEN 1 ELSE 0)

\* The abstract queue sees a step of one item only.
LEMMA MoveSeen ==
  ASSUME NEW k \in Item, NEW to, NEW cost,
         Lifecycle(k)' = to, Charged(k)' = Charged(k) + cost,
         \A j \in Item \ {k} : Lifecycle(j)' = Lifecycle(j) /\ Charged(j)' = Charged(j)
  PROVE  Delivery!Move(k, to, cost)
<1>1. [i \in Item |-> Lifecycle(i)]' = [[i \in Item |-> Lifecycle(i)] EXCEPT ![k] = to]
  OBVIOUS
<1>2. [i \in Item |-> Charged(i)]' = [[i \in Item |-> Charged(i)] EXCEPT ![k] = @ + cost]
  OBVIOUS
<1> QED BY <1>1, <1>2 DEF Delivery!Move, Charged

\* The abstract queue sees nothing of a step that changes no item's life.
LEMMA NothingSeen ==
  ASSUME \A j \in Item : Lifecycle(j)' = Lifecycle(j) /\ Charged(j)' = Charged(j)
  PROVE  UNCHANGED Delivery!dqVars
BY DEF Delivery!dqVars, Charged

\* What it sees of each thing that may happen to an item.
LEMMA FateSeen ==
  ASSUME TypeOK, TypeOK', HistoryInv, NEW i \in Item
  PROVE  /\ Same(i) \/ ResetBack(i) => Lifecycle(i)' = Lifecycle(i) /\ Charged(i)' = Charged(i)
         /\ Started(i) => Lifecycle(i) = "queued" /\ Lifecycle(i)' = "sending" /\ Charged(i)' = Charged(i) + 0
         /\ \A t \in Nat : RetriedAt(i, t) =>
              Lifecycle(i) = "sending" /\ Lifecycle(i)' = "queued" /\ Charged(i)' = Charged(i) + 1
         /\ \A t \in Nat : RejectedUntil(i, t) =>
              Lifecycle(i) = "sending" /\ Lifecycle(i)' = "queued" /\ Charged(i)' = Charged(i) + 0
         /\ \A a \in {"unauthorized", "other"} : FailedWith(i, a) =>
              Lifecycle(i) = "sending" /\ Lifecycle(i)' = "failed" /\ Charged(i)' = Charged(i) + 1
         /\ Lost(i) => Lifecycle(i) = "sending" /\ Lifecycle(i)' = "queued" /\ Charged(i)' = Charged(i) + 1
         /\ Dropped(i) =>
              Lifecycle(i) \in {"queued", "sending", "failed"} /\ Lifecycle(i)' = "gone" /\ Charged(i)' = 0
         /\ Inserted(i) => Lifecycle(i) = "new" /\ Lifecycle(i)' = "queued" /\ Charged(i)' = Charged(i)
<1>n. rows[i].attempts \in Nat /\ rows'[i].attempts \in Nat
  BY DEF TypeOK, Row
<1>b. /\ BeingSent(i) => rows[i].status \in StoredStatus
      /\ BeingSent(i)' => rows'[i].status \in StoredStatus
  BY DEF BeingSent, Stored
<1>c. /\ BeingSent(i) => Charged(i) = rows[i].attempts - 1
      /\ ~BeingSent(i) => Charged(i) = rows[i].attempts
  <2>1. CASE BeingSent(i)
    BY <2>1 DEF Charged
  <2>2. CASE ~BeingSent(i)
    <3>1. Charged(i) = rows[i].attempts - 0
      BY <2>2 DEF Charged
    <3> QED BY <2>2, <3>1, <1>n
  <2> QED BY <2>1, <2>2
<1>d. /\ BeingSent(i)' => Charged(i)' = rows'[i].attempts - 1
      /\ ~BeingSent(i)' => Charged(i)' = rows'[i].attempts
  <2>1. CASE BeingSent(i)'
    BY <2>1 DEF Charged
  <2>2. CASE ~BeingSent(i)'
    <3>1. Charged(i)' = rows'[i].attempts - 0
      BY <2>2 DEF Charged
    <3> QED BY <2>2, <3>1, <1>n
  <2> QED BY <2>1, <2>2
<1>1. Same(i) \/ ResetBack(i) => Lifecycle(i)' = Lifecycle(i) /\ Charged(i)' = Charged(i)
  <2>1. Same(i) => Lifecycle(i)' = Lifecycle(i) /\ Charged(i)' = Charged(i)
    BY DEF Same, Lifecycle, Charged
  <2>2. CASE ResetBack(i)
    <3>1. rows[i].status = "IN_FLIGHT" /\ rows'[i].status = "PENDING" /\ rows'[i].attempts = rows[i].attempts
      BY <2>2, FateFields DEF ResetBack
    <3>2. BeingSent(i)' <=> BeingSent(i)
      BY <2>2 DEF ResetBack
    <3> QED BY <3>1, <3>2 DEF Lifecycle, Charged
  <2> QED BY <2>1, <2>2
<1>2. Started(i) => Lifecycle(i) = "queued" /\ Lifecycle(i)' = "sending" /\ Charged(i)' = Charged(i) + 0
  <2> SUFFICES ASSUME Started(i)
               PROVE  Lifecycle(i) = "queued" /\ Lifecycle(i)' = "sending" /\ Charged(i)' = Charged(i) + 0
    OBVIOUS
  <2>1. ~BeingSent(i) /\ BeingSent(i)' /\ rows[i].status = "PENDING"
    BY DEF Started
  <2>2. rows'[i].attempts = rows[i].attempts + 1
    BY FateFields
  <2>3. Lifecycle(i) = "queued" /\ Lifecycle(i)' = "sending"
    BY <2>1, <1>b DEF Lifecycle, StoredStatus
  <2> QED BY <2>1, <2>2, <2>3, <1>n, <1>c, <1>d
<1>e. ASSUME Ended(i)
      PROVE  /\ Lifecycle(i) = "sending" /\ Charged(i) = rows[i].attempts - 1 /\ Charged(i)' = rows'[i].attempts
             /\ rows'[i].status \in {"PENDING", "IN_FLIGHT"} => Lifecycle(i)' = "queued"
             /\ rows'[i].status = "FAILED" => Lifecycle(i)' = "failed"
  <2>1. BeingSent(i) /\ ~BeingSent(i)'
    BY <1>e DEF Ended
  <2>2. Lifecycle(i) = "sending"
    BY <2>1, <1>b DEF Lifecycle, StoredStatus
  <2>3. Charged(i) = rows[i].attempts - 1 /\ Charged(i)' = rows'[i].attempts
    BY <2>1, <1>c, <1>d
  <2>4. /\ rows'[i].status \in {"PENDING", "IN_FLIGHT"} => Lifecycle(i)' = "queued"
        /\ rows'[i].status = "FAILED" => Lifecycle(i)' = "failed"
    BY <2>1 DEF Lifecycle
  <2> QED BY <2>2, <2>3, <2>4
<1>3. ASSUME NEW t \in Nat, RetriedAt(i, t)
      PROVE  Lifecycle(i) = "sending" /\ Lifecycle(i)' = "queued" /\ Charged(i)' = Charged(i) + 1
  <2>1. Ended(i) /\ rows'[i].attempts = rows[i].attempts /\ rows'[i].status = "PENDING"
    BY <1>3, FateFields DEF RetriedAt
  <2> QED BY <2>1, <1>e, <1>n
<1>4. ASSUME NEW t \in Nat, RejectedUntil(i, t)
      PROVE  Lifecycle(i) = "sending" /\ Lifecycle(i)' = "queued" /\ Charged(i)' = Charged(i) + 0
  <2>1. Ended(i) /\ rows'[i].attempts = rows[i].attempts - 1 /\ rows'[i].status = "PENDING"
    BY <1>4, FateFields DEF RejectedUntil
  <2> QED BY <2>1, <1>e, <1>n
<1>5. ASSUME NEW a \in {"unauthorized", "other"}, FailedWith(i, a)
      PROVE  Lifecycle(i) = "sending" /\ Lifecycle(i)' = "failed" /\ Charged(i)' = Charged(i) + 1
  <2>1. Ended(i) /\ rows'[i].attempts = rows[i].attempts /\ rows'[i].status = "FAILED"
    BY <1>5, FateFields DEF FailedWith
  <2> QED BY <2>1, <1>e, <1>n
<1>6. ASSUME Lost(i)
      PROVE  Lifecycle(i) = "sending" /\ Lifecycle(i)' = "queued" /\ Charged(i)' = Charged(i) + 1
  <2>1. /\ Ended(i) /\ rows'[i].attempts = rows[i].attempts /\ rows'[i].status \in {"PENDING", "IN_FLIGHT"}
    BY <1>6 DEF Lost, Ended
  <2> QED BY <2>1, <1>e, <1>n
<1>7. ASSUME Dropped(i)
      PROVE  Lifecycle(i) \in {"queued", "sending", "failed"} /\ Lifecycle(i)' = "gone" /\ Charged(i)' = 0
  <2>1. rows[i].status \in StoredStatus
    BY <1>7 DEF Dropped, Stored
  <2>2. rows'[i].status = "GONE" /\ rows'[i].attempts = 0
    BY <1>7 DEF Dropped, GoneRow
  <2>3. ~BeingSent(i)'
    BY <2>2, <1>b DEF StoredStatus
  <2>4. Lifecycle(i) \in {"queued", "sending", "failed"}
    BY <2>1 DEF Lifecycle, StoredStatus
  <2>5. Lifecycle(i)' = "gone" /\ Charged(i)' = 0
    BY <2>2, <2>3, <1>d DEF Lifecycle
  <2> QED BY <2>4, <2>5
<1>8. ASSUME Inserted(i)
      PROVE  Lifecycle(i) = "new" /\ Lifecycle(i)' = "queued" /\ Charged(i)' = Charged(i)
  <2>1. ~BeingSent(i) /\ ~BeingSent(i)' /\ rows[i].status = "NEW"
    BY <1>8, <1>b DEF Inserted, StoredStatus
  <2>2. rows[i].attempts = 0
    BY <2>1 DEF HistoryInv, Stored, StoredStatus
  <2>3. rows'[i].attempts = 0 /\ rows'[i].status = "PENDING"
    BY <1>8 DEF Inserted
  <2> QED BY <2>1, <2>2, <2>3 DEF Lifecycle, Charged
<1> QED BY <1>1, <1>2, <1>3, <1>4, <1>5, <1>6, <1>7, <1>8

\* Every step of the actor is a step of the delivery queue, or none.
LEMMA StepDelivery ==
  ASSUME SafeInv, SafeInv', [Next]_vars
  PROVE  [Delivery!Next]_(Delivery!dqVars)
<1>i. TypeOK /\ TypeOK' /\ OneCycle /\ OneCycle' /\ HistoryInv /\ CycleInv
  BY DEF SafeInv, IInv
<1>s. \A i \in Item : Same(i) \/ ResetBack(i) => Lifecycle(i)' = Lifecycle(i) /\ Charged(i)' = Charged(i)
  BY <1>i, FateSeen
<1>1. ASSUME \A i \in Item : Same(i) \/ ResetBack(i) PROVE UNCHANGED Delivery!dqVars
  BY <1>1, <1>s, NothingSeen
<1>2. ASSUME NEW k \in Item, Started(k) \/ Resolved(k), Alone(k) PROVE Delivery!Next
  <2>1. \A j \in Item \ {k} : Lifecycle(j)' = Lifecycle(j) /\ Charged(j)' = Charged(j)
    BY <1>2, <1>s DEF Alone
  <2>2. CASE Started(k)
    <3>1. Lifecycle(k) = "queued" /\ Delivery!Move(k, "sending", 0)
      BY <2>1, <2>2, <1>i, FateSeen, MoveSeen
    <3> QED BY <3>1 DEF Delivery!Next, Delivery!Send
  <2>3. ASSUME Lifecycle(k) = "sending", Lifecycle(k)' = "queued", NEW cost \in {0, 1},
               Charged(k)' = Charged(k) + cost
        PROVE  Delivery!Next
    <3>1. Delivery!Move(k, "queued", cost)
      BY <2>1, <2>3, MoveSeen
    <3> QED BY <2>3, <3>1 DEF Delivery!Next, Delivery!Retry
  <2>4. ASSUME NEW t \in Nat, RetriedAt(k, t) \/ RejectedUntil(k, t) PROVE Delivery!Next
    BY <2>3, <2>4, <1>i, FateSeen
  <2>5. CASE Lost(k)
    BY <2>3, <2>5, <1>i, FateSeen
  <2>6. ASSUME NEW a \in {"unauthorized", "other"}, FailedWith(k, a) PROVE Delivery!Next
    <3>1. Lifecycle(k) = "sending" /\ Delivery!Move(k, "failed", 1)
      BY <2>1, <2>6, <1>i, FateSeen, MoveSeen
    <3> QED BY <3>1 DEF Delivery!Next, Delivery!Fail
  <2>7. CASE Dropped(k)
    <3>1. Lifecycle(k) \in {"queued", "sending", "failed"} /\ Lifecycle(k)' = "gone" /\ Charged(k)' = 0
      BY <2>7, <1>i, FateSeen
    <3>2. Delivery!Remove({k})
      BY <2>1, <3>1 DEF Delivery!Remove, Charged
    <3> QED BY <3>2 DEF Delivery!Next
  <2> QED BY <1>2, <2>2, <2>4, <2>5, <2>6, <2>7 DEF Resolved
<1>3. ASSUME Kill, \A i \in Item : Same(i) \/ Lost(i) PROVE Delivery!Next
  <2>1. \A i \in Item : ~BeingSent(i)'
    BY <1>3 DEF Kill, BeingSent, Sending
  <2>2. ASSUME NEW i \in Item
        PROVE  /\ Lifecycle(i)' = IF Lifecycle(i) = "sending" THEN "queued" ELSE Lifecycle(i)
               /\ Charged(i)' = IF Lost(i) THEN Charged(i) + 1 ELSE Charged(i)
               /\ Lost(i) => Lifecycle(i) = "sending"
    <3>1. CASE Lost(i)
      BY <3>1, <1>i, FateSeen
    <3>2. CASE Same(i) /\ ~Lost(i)
      <4>1. ~BeingSent(i)
        BY <3>2, <2>1 DEF Same
      <4>2. rows[i].status \in StoredStatus \cup {"NEW", "GONE"}
        BY <1>i DEF TypeOK, Row
      <4>3. Lifecycle(i) # "sending"
        BY <4>1, <4>2 DEF Lifecycle, StoredStatus
      <4> QED BY <3>2, <4>3, <1>s
    <3> QED BY <3>1, <3>2, <1>3
  <2>3. [i \in Item |-> Lifecycle(i)]'
          = [i \in Item |-> IF [j \in Item |-> Lifecycle(j)][i] = "sending" THEN "queued"
                                                               ELSE [j \in Item |-> Lifecycle(j)][i]]
    BY <2>2
  <2>4. PICK charged \in SUBSET Item : \A i \in Item : i \in charged <=> Lost(i)
    <3>1. {i \in Item : Lost(i)} \in SUBSET Item
      OBVIOUS
    <3> QED BY <3>1
  <2>5. charged \in SUBSET {i \in Item : [j \in Item |-> Lifecycle(j)][i] = "sending"}
    BY <2>2, <2>4
  <2>6. [i \in Item |-> Charged(i)]'
          = [i \in Item |-> IF i \in charged THEN [j \in Item |-> Charged(j)][i] + 1
                                             ELSE [j \in Item |-> Charged(j)][i]]
    BY <2>2, <2>4
  <2>7. Delivery!Die
    BY <2>3, <2>5, <2>6 DEF Delivery!Die, Charged
  <2> QED BY <2>7 DEF Delivery!Next
<1>4. ASSUME \A i \in Item : Same(i) \/ Inserted(i) PROVE Delivery!Next
  <2>1. PICK ids \in SUBSET Item : \A i \in Item : i \in ids <=> Inserted(i)
    <3>1. {i \in Item : Inserted(i)} \in SUBSET Item
      OBVIOUS
    <3> QED BY <3>1
  <2>2. \A i \in ids : Lifecycle(i) = "new" /\ Lifecycle(i)' = "queued" /\ Charged(i)' = Charged(i)
    BY <2>1, <1>i, FateSeen
  <2>3. \A i \in Item \ ids : Lifecycle(i)' = Lifecycle(i) /\ Charged(i)' = Charged(i)
    BY <2>1, <1>4, <1>s
  <2>4. Delivery!Submit(ids)
    BY <2>1, <2>2, <2>3 DEF Delivery!Submit, Charged
  <2> QED BY <2>1, <2>4 DEF Delivery!Next
<1>5. ASSUME \A i \in Item : Same(i) \/ Dropped(i) PROVE Delivery!Next
  <2>1. PICK ids \in SUBSET Item : \A i \in Item : i \in ids <=> Dropped(i)
    <3>1. {i \in Item : Dropped(i)} \in SUBSET Item
      OBVIOUS
    <3> QED BY <3>1
  <2>2. \A i \in ids : Lifecycle(i) \in {"queued", "sending", "failed"} /\ Lifecycle(i)' = "gone" /\ Charged(i)' = 0
    BY <2>1, <1>i, FateSeen
  <2>3. \A i \in Item \ ids : Lifecycle(i)' = Lifecycle(i) /\ Charged(i)' = Charged(i)
    BY <2>1, <1>5, <1>s
  <2>4. Delivery!Remove(ids)
    BY <2>1, <2>2, <2>3 DEF Delivery!Remove, Charged
  <2> QED BY <2>1, <2>4 DEF Delivery!Next
<1> QED BY <1>1, <1>2, <1>3, <1>4, <1>5, <1>i, StepShape

\* Nothing was ever sent when the process starts from an empty queue (init).
LEMMA InitDelivery == Init => Delivery!Init
<1> SUFFICES ASSUME Init PROVE Delivery!Init
  OBVIOUS
<1>1. ASSUME NEW i \in Item PROVE Lifecycle(i) = "new" /\ Charged(i) = 0
  <2>1. ~BeingSent(i) /\ rows[i].status = "NEW" /\ rows[i].attempts = 0
    BY DEF Init, NewRow, BeingSent, Sending
  <2>2. Lifecycle(i) = "new"
    BY <2>1 DEF Lifecycle
  <2>3. Charged(i) = 0 - 0
    BY <2>1 DEF Charged
  <2> QED BY <2>2, <2>3
<1> QED BY <1>1 DEF Delivery!Init, Charged

\* The actor, with its reentrant calls, its stale rows, the recovery that runs beside it and
\* its faults, implements the same at-least-once delivery queue as the Android engine
\* (ImplementsDelivery).
THEOREM ImplementsDeliveryHolds == Spec => ImplementsDelivery
<1>1. SafeInv /\ SafeInv' /\ [Next]_vars => [Delivery!Next]_(Delivery!dqVars)
  BY StepDelivery
<1> QED BY <1>1, InitDelivery, SafeHolds, PTL DEF Spec, ImplementsDelivery, Delivery!Spec
=============================================================================
